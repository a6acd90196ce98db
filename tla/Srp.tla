-------------------------------- MODULE Srp --------------------------------
(***************************************************************************)
(* Shared reference pointers, kern_srp.c: readers announce the value they  *)
(* use in a hazard record of their CPU, and a value that was replaced is   *)
(* destroyed when a scan of all records does not find it: by srp_update    *)
(* itself, or by the timeout of srp_v_gc, which tries again; srp_finalize  *)
(* sleeps until that is so. One action per access of memory that others    *)
(* access too.                                                             *)
(***************************************************************************)
EXTENDS Integers, Sequences, SequencesExt, FiniteSets

CONSTANTS
    Reader,         \* CPUs that read, one reader each
    Updater,
    softclock_gc,   \* the context that runs srp_v_gc()
    Srp,            \* the pointers
    Val,            \* addresses of values, used again once destroyed
    NoVal,          \* the pointer NULL
    HAZARD_NUM,     \* hazard records of a CPU
    Updates,        \* subset of {"update", "finalize"}: how values are replaced
    ConsumerDrains  \* membar_consumer() waits for the CPU's stores, as on arm and
                    \* powerpc64, or does not, as on amd64, arm64 and riscv64

ASSUME SrpAssumption ==
    /\ IsFiniteSet(Reader) /\ IsFiniteSet(Val)
    /\ NoVal \notin Val \cup Srp
    /\ softclock_gc \notin Updater
    /\ HAZARD_NUM \in Nat \ {0, 1}  \* enough for srp_follow()
    /\ Updates \subseteq {"update", "finalize"}
    /\ ConsumerDrains \in BOOLEAN

VARIABLES
    updates,        \* how this behaviour's updaters work (does not change)
    ref,            \* of a pointer: its value
    hazard,         \* of a record: sh_p and sh_v, as the other CPUs see them
    buffer,         \* of a CPU: its stores that they do not see yet
    life,           \* of a value: "free", "live" or "retired"
    srp_gc_refcnt,
    sr,             \* of a reader: its struct srp_ref, a record's number or 0
    enter,          \* of a reader: where srp_enter() is, and its locals
    scan,           \* of an updater and the gc: the value it looks for
    gc              \* the srp_gc_ctx whose timeouts are pending

srpVars == <<updates, ref, hazard, buffer, life, srp_gc_refcnt, sr, enter, scan, gc>>

Record == Reader \X (1 .. HAZARD_NUM)
Scanner == Updater \cup {softclock_gc}
\* The order of the loops over CPUs and their records.
Records == SetToSeq(Record)
NotEntering == [pc |-> "out", i |-> 0, srp |-> NoVal, v |-> NoVal]
NotScanning == [srp |-> NoVal, v |-> NoVal, k |-> 0, half |-> FALSE]

SrpInit ==
    /\ updates \in Updates
    /\ ref = [s \in Srp |-> NoVal]
    /\ hazard = [h \in Record |-> [p |-> NoVal, v |-> NoVal]]
    /\ buffer = [r \in Reader |-> <<>>]
    /\ life = [v \in Val |-> "free"]
    /\ srp_gc_refcnt = 1
    /\ sr = [r \in Reader |-> 0]
    /\ enter = [r \in Reader |-> NotEntering]
    /\ scan = [u \in Scanner |-> NotScanning]
    /\ gc = {}

updaterVars == <<updates, life, srp_gc_refcnt, scan, gc>>

-----------------------------------------------------------------------------
(* Readers *)

\* A store to the CPU's record i: the other CPUs see its stores in order, but
\* perhaps after loads that follow them.
Store(r, i, field, x) == buffer' = [buffer EXCEPT ![r] = Append(@, <<i, field, x>>)]

Drain(r) ==
    /\ buffer[r] # <<>>
    /\ LET st == Head(buffer[r]) IN
       hazard' = [hazard EXCEPT ![<<r, st[1]>>] =
           IF st[2] = "p" THEN [@ EXCEPT !.p = st[3]] ELSE [@ EXCEPT !.v = st[3]]]
    /\ buffer' = [buffer EXCEPT ![r] = Tail(@)]
    /\ UNCHANGED <<ref, sr, enter, updaterVars>>

\* The first record whose sh_p is NULL, of a CPU that has at most one in use.
FreeRecord(r) == IF sr[r] = 1 THEN 2 ELSE 1

\* srp_enter(), and srp_follow() by a reader that has a reference: the first
\* free record gets the pointer.
srp_enter(r, s) ==
    LET i == FreeRecord(r) IN
    /\ enter[r].pc = "out"
    /\ enter' = [enter EXCEPT ![r] = [pc |-> "load", i |-> i, srp |-> s, v |-> NoVal]]
    /\ Store(r, i, "p", s)
    /\ UNCHANGED <<ref, hazard, sr, updaterVars>>

\* srp_v(): read the value ...
LoadRef(r) ==
    /\ enter[r].pc = "load"
    /\ enter' = [enter EXCEPT ![r].pc = "store", ![r].v = ref[enter[r].srp]]
    /\ UNCHANGED <<ref, hazard, buffer, sr, updaterVars>>

\* ... announce it ...
StoreHazard(r) ==
    /\ enter[r].pc = "store"
    /\ enter' = [enter EXCEPT ![r].pc = "check"]
    /\ Store(r, enter[r].i, "v", enter[r].v)
    /\ UNCHANGED <<ref, hazard, sr, updaterVars>>

\* Does not look again.
MutCheckRef(r) ==
    /\ enter[r].pc = "check"
    /\ enter' = [enter EXCEPT ![r].pc = "entered"]
    /\ UNCHANGED <<ref, hazard, buffer, sr, updaterVars>>

\* ... and, past the membar_consumer(), see that it is still current.
CheckRef(r) ==
    /\ enter[r].pc = "check"
    /\ ConsumerDrains => buffer[r] = <<>>
    /\ enter' = [enter EXCEPT ![r].pc =
          IF enter[r].v = ref[enter[r].srp] THEN "entered" ELSE "load"]
    /\ UNCHANGED <<ref, hazard, buffer, sr, updaterVars>>

\* The reader has the new reference; srp_follow() leaves the old one.
Entered(r) ==
    /\ enter[r].pc = "entered"
    /\ IF sr[r] = 0 THEN UNCHANGED buffer ELSE Store(r, sr[r], "p", NoVal)
    /\ sr' = [sr EXCEPT ![r] = enter[r].i]
    /\ enter' = [enter EXCEPT ![r].pc = "out"]
    /\ UNCHANGED <<ref, hazard, updaterVars>>

srp_leave(r) ==
    /\ enter[r].pc = "out" /\ sr[r] # 0
    /\ Store(r, sr[r], "p", NoVal)
    /\ sr' = [sr EXCEPT ![r] = 0]
    /\ enter' = [enter EXCEPT ![r] = NotEntering]
    /\ UNCHANGED <<ref, hazard, updaterVars>>

-----------------------------------------------------------------------------
(* Updaters and garbage collection *)

NowLive(v) == IF v = NoVal THEN life ELSE [life EXCEPT ![v] = "live"]

\* srp_update() or srp_swap() up to the exchange of the value; the old one is
\* looked for in the records.
srp_update(u, s, v) ==
    /\ scan[u] = NotScanning
    /\ v # NoVal => life[v] = "free"
    /\ v # ref[s]
    /\ ref' = [ref EXCEPT ![s] = v]
    /\ LET old == ref[s]
           new == NowLive(v)
       IN  /\ life' = IF old = NoVal THEN new ELSE [new EXCEPT ![old] = "retired"]
           /\ scan' = IF old = NoVal THEN scan
                      ELSE [scan EXCEPT ![u] =
                               [srp |-> s, v |-> old, k |-> 1, half |-> FALSE]]
    /\ srp_gc_refcnt' = IF updates = "update" /\ v # NoVal THEN srp_gc_refcnt + 1
                        ELSE srp_gc_refcnt
    /\ UNCHANGED <<updates, hazard, buffer, sr, enter, gc>>

\* The timeout of a context goes off: srp_v_gc().
srp_v_gc ==
    /\ scan[softclock_gc] = NotScanning
    /\ \E ctx \in gc :
          /\ gc' = gc \ {ctx}
          /\ scan' = [scan EXCEPT ![softclock_gc] =
                         [srp |-> ctx[1], v |-> ctx[2], k |-> 1, half |-> FALSE]]
    /\ UNCHANGED <<updates, ref, hazard, buffer, life, srp_gc_refcnt, sr, enter>>

\* Gives up on the collection.
MutInUse(u) ==
    /\ scan' = [scan EXCEPT ![u] = NotScanning]
    /\ UNCHANGED gc

\* Found: srp_v_gc_start() and srp_v_gc() set the timeout (again),
\* srp_finalize() begins again after a sleep.
InUse(u) ==
    IF updates = "update"
    THEN /\ gc' = gc \cup {<<scan[u].srp, scan[u].v>>}
         /\ scan' = [scan EXCEPT ![u] = NotScanning]
    ELSE /\ scan' = [scan EXCEPT ![u].k = 1, ![u].half = FALSE]
         /\ UNCHANGED gc

\* One record of srp_v_referenced() or srp_referenced(): first sh_p ...
ScanPointer(u) ==
    LET h == hazard[Records[scan[u].k]] IN
    /\ scan[u].k \in DOMAIN Records /\ ~scan[u].half
    /\ scan' = IF (IF updates = "update" THEN h.p = scan[u].srp ELSE h.p # NoVal)
               THEN [scan EXCEPT ![u].half = TRUE] ELSE [scan EXCEPT ![u].k = @ + 1]
    /\ UNCHANGED <<updates, ref, hazard, buffer, life, srp_gc_refcnt, sr, enter, gc>>

\* ... then sh_v.
ScanValue(u) ==
    /\ scan[u].half
    /\ IF hazard[Records[scan[u].k]].v = scan[u].v THEN InUse(u)
       ELSE /\ scan' = [scan EXCEPT ![u].k = @ + 1, ![u].half = FALSE]
            /\ UNCHANGED gc
    /\ UNCHANGED <<updates, ref, hazard, buffer, life, srp_gc_refcnt, sr, enter>>

\* Not found: srp_v_dtor(), or srp_finalize() returns and the caller destroys
\* the value.
srp_v_dtor(u) ==
    /\ scan[u].k = Len(Records) + 1
    /\ life' = [life EXCEPT ![scan[u].v] = "free"]
    /\ srp_gc_refcnt' = IF updates = "update" THEN srp_gc_refcnt - 1 ELSE srp_gc_refcnt
    /\ scan' = [scan EXCEPT ![u] = NotScanning]
    /\ UNCHANGED <<updates, ref, hazard, buffer, sr, enter, gc>>

-----------------------------------------------------------------------------
SrpNext ==
    \/ \E r \in Reader :
          \/ \E s \in Srp : srp_enter(r, s)
          \/ LoadRef(r) \/ StoreHazard(r) \/ CheckRef(r) \/ Entered(r) \/ srp_leave(r)
          \/ Drain(r)
    \/ \E u \in Updater, s \in Srp, v \in Val \cup {NoVal} : srp_update(u, s, v)
    \/ \E u \in Scanner : ScanPointer(u) \/ ScanValue(u) \/ srp_v_dtor(u)
    \/ srp_v_gc

SrpSpec == SrpInit /\ [][SrpNext]_srpVars

-----------------------------------------------------------------------------
(* Properties *)

SrpTypeOK ==
    /\ updates \in Updates
    /\ ref \in [Srp -> Val \cup {NoVal}]
    /\ hazard \in [Record -> [p : Srp \cup {NoVal}, v : Val \cup {NoVal}]]
    /\ life \in [Val -> {"free", "live", "retired"}]
    /\ srp_gc_refcnt \in 1 .. Cardinality(Val) + 1
    /\ sr \in [Reader -> 0 .. HAZARD_NUM]
    /\ enter \in [Reader -> [pc : {"out", "load", "store", "check", "entered"},
                             i : 0 .. HAZARD_NUM, srp : Srp \cup {NoVal},
                             v : Val \cup {NoVal}]]
    /\ gc \subseteq Srp \X Val

\* The value of a reader that is past srp_enter().
Using(r) == IF enter[r].pc = "entered" \/ (enter[r].pc = "out" /\ sr[r] # 0)
            THEN enter[r].v ELSE NoVal

\* A value is not destroyed while a reader uses it: a reader that was about to
\* announce it when it was replaced has seen the replacement, or the scan has
\* seen the reader, although neither waits for the other and the address may
\* have been used again in between.
UsedIsLive == \A r \in Reader : Using(r) # NoVal => life[Using(r)] # "free"

\* Every replaced value is on its way to be destroyed, once: it is looked for
\* by one scan or waits for one timeout; and srp_gc_refcnt counts it until
\* then, for the refcnt_finalize() of the owner.
RetiredOnce ==
    /\ SrpTypeOK
    /\ \A v \in Val :
          Cardinality({u \in Scanner : scan[u] # NotScanning /\ scan[u].v = v})
          + Cardinality({ctx \in gc : ctx[2] = v})
          = IF life[v] = "retired" THEN 1 ELSE 0
    /\ updates = "update" =>
          srp_gc_refcnt = 1 + Cardinality({v \in Val : life[v] # "free"})
=============================================================================
