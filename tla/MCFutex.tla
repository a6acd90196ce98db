------------------------------- MODULE MCFutex -------------------------------
(* Instances of Futex for TLC: two threads that wait, one that wakes, two *)
(* addresses.                                                              *)
EXTENDS Futex, TLC

CONSTANTS w1, w2, k1

MCThread == {w1, w2, k1}

MCAddr == {1, 2}
MCBadAddr == {2}
\* Two slpques, the fsq_ids against the order of the addresses.
MCSlpque == (1 :> 11) @@ (2 :> 10)

WaitAt(a, t) == [op |-> "wait", f |-> a, val |-> 0, n |-> 0, g |-> a, m |-> 0,
                 timeout |-> t]
WakeAt(a, v, n) == [op |-> "wake", f |-> a, val |-> v, n |-> n, g |-> a,
                    m |-> 0, timeout |-> "INFSLP"]
RequeueTo(a, n, b, m) == [op |-> "requeue", f |-> a, val |-> 0, n |-> n,
                          g |-> b, m |-> m, timeout |-> "INFSLP"]

\* A behaviour is one of these scenes: the calls its threads make, and the
\* signals w1 gets.
Scenes ==
    {\* a value changes and is announced to two waiters
     [w1 |-> {WaitAt(1, "some")}, w2 |-> {WaitAt(1, "INFSLP")},
      k1 |-> {WakeAt(1, 1, 2)}, signals |-> {"INTR"}],
     \* calls that fail early, and a wake of nobody
     [w1 |-> {WaitAt(1, "some")}, w2 |-> {WaitAt(1, "invalid"), WaitAt(2, "INFSLP")},
      k1 |-> {WakeAt(1, 0, 0)}, signals |-> {}],
     \* a futex is moved while its thread gives up
     [w1 |-> {WaitAt(1, "some")}, w2 |-> {WaitAt(1, "INFSLP")},
      k1 |-> {RequeueTo(1, 1, 2, 1)}, signals |-> {"INTR"}],
     \* requeues in opposite directions, one by a thread that also waits, and
     \* one to the same address
     [w1 |-> {WaitAt(1, "INFSLP")}, w2 |-> {WaitAt(1, "some"), RequeueTo(2, 1, 1, 1)},
      k1 |-> {WakeAt(1, 0, 1), RequeueTo(1, 1, 2, 1), RequeueTo(1, 1, 1, 1)},
      signals |-> {}]}

MCCalls == [p \in MCThread |->
               UNION {IF p = w1 THEN s.w1 ELSE IF p = w2 THEN s.w2 ELSE s.k1 :
                         s \in Scenes}]
MCSignals == [p \in MCThread |-> IF p = w1 THEN {"INTR"} ELSE {}]

VARIABLE scene

InScene ==
    /\ pc[w1] # "user" => call[w1] \in scene.w1
    /\ pc[w2] # "user" => call[w2] \in scene.w2
    /\ pc[k1] # "user" => call[k1] \in scene.k1
    /\ Pending(w1) \subseteq scene.signals

MCInit == scene \in Scenes /\ Init /\ \A a \in Addr : uval[a] = 0
MCNext == Next /\ UNCHANGED scene /\ InScene'
MCSpec == MCInit /\ [][MCNext]_<<vars, scene>> /\ Fairness
=============================================================================
