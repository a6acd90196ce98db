------------------------------- MODULE PcLock -------------------------------
(***************************************************************************)
(* The producer/consumer locks of kern_lock.c: a generation that is odd    *)
(* while a producer writes, and a consumer that reads without a lock and   *)
(* again if the generation changed. The data are two words, accessed one   *)
(* at a time, that every producer sets to the same new value.              *)
(***************************************************************************)
EXTENDS Integers

CONSTANTS
    Producer, Consumer,
    Lap,            \* writes after which the generation comes round: a consumer
                    \* held up for so many would not notice (2^31 in the code)
    Interlock       \* {FALSE} for pc_sprod, TRUE for pc_mprod

ASSUME PcAssumption ==
    /\ Producer \cap Consumer = {}
    /\ Lap \in Nat \ {0, 1}
    /\ Interlock \subseteq BOOLEAN

VARIABLES
    interlock,      \* the producers use pc_mprod (does not change)
    pcl_gen,        \* the generation
    data,           \* the two words
    pcpc,           \* program counters
    gen,            \* the generation a thread knows
    tmp,            \* what a consumer has read
    writes          \* writes begun since a consumer got its generation

pcVars == <<interlock, pcl_gen, data, pcpc, gen, tmp, writes>>

\* The generation is an unsigned int, and wraps.
GenBound == 2 * Lap

Inc(g) == (g + 1) % GenBound
Odd(g) == g % 2 = 1

PcInit ==
    /\ interlock \in Interlock
    /\ pcl_gen = 0
    /\ data = <<0, 0>>
    /\ pcpc = [t \in Producer \cup Consumer |-> "out"]
    /\ gen = [t \in Producer \cup Consumer |-> 0]
    /\ tmp = [t \in Consumer |-> <<0, 0>>]
    /\ writes = [t \in Consumer |-> 0]

PcAt(t, from) == pcpc[t] = from
PcGoto(t, to) == pcpc' = [pcpc EXCEPT ![t] = to]

\* A producer begins to write: the generation becomes odd.
Begin(t, g) ==
    /\ \A r \in Consumer : writes[r] < Lap - 1
    /\ pcl_gen' = Inc(g)
    /\ gen' = [gen EXCEPT ![t] = Inc(g)]
    /\ writes' = [r \in Consumer |-> IF PcAt(r, "out") THEN 0 ELSE writes[r] + 1]
    /\ PcGoto(t, "first")
    /\ UNCHANGED <<interlock, data, tmp>>

\* pc_sprod_enter(): the caller sees to it that there is one producer.
pc_sprod_enter(t) ==
    /\ ~interlock /\ PcAt(t, "out")
    /\ \A u \in Producer : PcAt(u, "out")
    /\ Begin(t, pcl_gen)

\* pc_mprod_enter(): the first read ...
pc_mprod_enter(t) ==
    /\ interlock /\ PcAt(t, "out")
    /\ gen' = [gen EXCEPT ![t] = pcl_gen]
    /\ PcGoto(t, "cas")
    /\ UNCHANGED <<interlock, pcl_gen, data, tmp, writes>>

\* ... further reads while the generation is odd ...
MprodSpin(t) ==
    /\ PcAt(t, "cas") /\ Odd(gen[t])
    /\ gen' = [gen EXCEPT ![t] = pcl_gen]
    /\ UNCHANGED <<interlock, pcl_gen, data, pcpc, tmp, writes>>

\* ... and the compare-and-swap.
MprodCas(t) ==
    /\ PcAt(t, "cas") /\ ~Odd(gen[t])
    /\ \/ pcl_gen = gen[t] /\ Begin(t, gen[t])
       \/ /\ pcl_gen # gen[t]
          /\ gen' = [gen EXCEPT ![t] = pcl_gen]
          /\ UNCHANGED <<interlock, pcl_gen, data, pcpc, tmp, writes>>

\* The producer writes its words, a value no other write of the lap has.
WriteFirst(t) ==
    /\ PcAt(t, "first")
    /\ data' = [data EXCEPT ![1] = (@ + 1) % Lap]
    /\ PcGoto(t, "second")
    /\ UNCHANGED <<interlock, pcl_gen, gen, tmp, writes>>

WriteSecond(t) ==
    /\ PcAt(t, "second")
    /\ data' = [data EXCEPT ![2] = (@ + 1) % Lap]
    /\ PcGoto(t, "leave")
    /\ UNCHANGED <<interlock, pcl_gen, gen, tmp, writes>>

\* pc_sprod_leave() and pc_mprod_leave().
pc_prod_leave(t) ==
    /\ PcAt(t, "leave")
    /\ pcl_gen' = Inc(gen[t])
    /\ PcGoto(t, "out")
    /\ UNCHANGED <<interlock, data, gen, tmp, writes>>

\* pc_cons_enter(): read the generation until it is even.
pc_cons_enter(t) ==
    /\ PcAt(t, "out") /\ ~Odd(pcl_gen)
    /\ gen' = [gen EXCEPT ![t] = pcl_gen]
    /\ writes' = [writes EXCEPT ![t] = 0]
    /\ PcGoto(t, "read1")
    /\ UNCHANGED <<interlock, pcl_gen, data, tmp>>

ReadWord(t, i, from, to) ==
    /\ PcAt(t, from)
    /\ tmp' = [tmp EXCEPT ![t][i] = data[i]]
    /\ PcGoto(t, to)
    /\ UNCHANGED <<interlock, pcl_gen, data, gen, writes>>

Read(t) == ReadWord(t, 1, "read1", "read2") \/ ReadWord(t, 2, "read2", "check")

\* Reads again from the generation it had before.
Mutpc_cons_leave(t) ==
    /\ PcAt(t, "check")
    /\ PcGoto(t, IF pcl_gen = gen[t] \/ Odd(pcl_gen) THEN "done" ELSE "read1")
    /\ gen' = [gen EXCEPT ![t] = pcl_gen]
    /\ writes' = [writes EXCEPT ![t] = 0]
    /\ UNCHANGED <<interlock, pcl_gen, data, tmp>>

\* pc_cons_leave(): read once more; odd, wait for an even one; done if it is
\* the generation of the beginning.
pc_cons_leave(t) ==
    /\ PcAt(t, "check")
    /\ PcGoto(t, IF Odd(pcl_gen) THEN "wait"
                 ELSE IF pcl_gen = gen[t] THEN "done" ELSE "read1")
    /\ gen' = IF Odd(pcl_gen) THEN gen ELSE [gen EXCEPT ![t] = pcl_gen]
    /\ writes' = IF Odd(pcl_gen) \/ pcl_gen = gen[t] THEN writes
                 ELSE [writes EXCEPT ![t] = 0]
    /\ UNCHANGED <<interlock, pcl_gen, data, tmp>>

ConsWait(t) ==
    /\ PcAt(t, "wait") /\ ~Odd(pcl_gen)
    /\ gen' = [gen EXCEPT ![t] = pcl_gen]
    /\ writes' = [writes EXCEPT ![t] = 0]
    /\ PcGoto(t, "read1")
    /\ UNCHANGED <<interlock, pcl_gen, data, tmp>>

\* The caller uses what it read.
ConsDone(t) ==
    /\ PcAt(t, "done")
    /\ PcGoto(t, "out")
    /\ UNCHANGED <<interlock, pcl_gen, data, gen, tmp, writes>>

PcNext ==
    \/ \E t \in Producer :
          \/ pc_sprod_enter(t) \/ pc_mprod_enter(t) \/ MprodSpin(t) \/ MprodCas(t)
          \/ WriteFirst(t) \/ WriteSecond(t) \/ pc_prod_leave(t)
    \/ \E t \in Consumer :
          \/ pc_cons_enter(t) \/ Read(t) \/ pc_cons_leave(t) \/ ConsWait(t)
          \/ ConsDone(t)

PcSpec == PcInit /\ [][PcNext]_pcVars

-----------------------------------------------------------------------------
PcTypeOK ==
    /\ interlock \in Interlock
    /\ pcl_gen \in 0 .. GenBound - 1
    /\ data \in (0 .. Lap - 1) \X (0 .. Lap - 1)
    /\ pcpc \in [Producer \cup Consumer -> {"out", "cas", "first", "second",
                   "leave", "read1", "read2", "check", "wait", "done"}]
    /\ gen \in [Producer \cup Consumer -> 0 .. GenBound - 1]
    /\ tmp \in [Consumer -> (0 .. Lap - 1) \X (0 .. Lap - 1)]
    /\ writes \in [Consumer -> 0 .. Lap - 1]

\* A consumer that pc_cons_leave() lets go has read words of one write, and
\* producers that interlock write one at a time: whatever the consumer's
\* reads met, however often it read again, and while the generation wraps.
Snapshot ==
    /\ PcTypeOK
    /\ \A t \in Consumer : PcAt(t, "done") => tmp[t][1] = tmp[t][2]
    /\ \A t, u \in Producer :
          pcpc[t] \in {"first", "second", "leave"} /\
          pcpc[u] \in {"first", "second", "leave"} => t = u
=============================================================================
