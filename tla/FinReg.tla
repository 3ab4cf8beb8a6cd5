------------------------------- MODULE FinReg -------------------------------
(***************************************************************************)
(* One FinalizationRegistry: its record array, the sliced scan of that     *)
(* array by a collection cycle (weakref/sliced.rs), and the cleanup jobs   *)
(* the scan records and the microtask pump delivers (weakref.rs).          *)
(*                                                                         *)
(* The scan keeps an index across the mutator's turns, and register,       *)
(* unregister and delivery change the array in those turns.  The marking   *)
(* that decides which targets are dead is GcCycle's; here a target is      *)
(* reachable, reachable only weakly, or tombstoned.                        *)
(***************************************************************************)
EXTENDS Naturals, Sequences, FiniteSets, SequencesExt, Queues

CONSTANTS
    Records,
    Token,                  \* the unregister token of each record
    Tokens,                 \* the tokens the program may pass to unregister
    MAX_REGISTRY_RESTARTS

ASSUME FinRegAssumption ==
    /\ IsFiniteSet(Records)
    /\ Token \in [Records -> Tokens]
    /\ MAX_REGISTRY_RESTARTS \in Nat

VARIABLES
    entries,    \* the entries array
    target,     \* the target slot of each record
    white,      \* records whose target the running cycle has found unmarked
    scanning,   \* the cycle is in weak processing and has reached this registry
    cursor,     \* RegistryCursor: length part of the identity, next index, restarts
    moved,      \* the entries word differs from the one in the cursor's identity
    jobs,       \* PENDING_FINALIZATION_JOBS
    delivered,  \* ghost: callbacks queued for each record
    dangling    \* ghost: records that kept a target the cycle then swept

finvars == <<entries, target, white, scanning, cursor, moved, jobs, delivered, dangling>>

NoCursor == [len |-> 0, next |-> 1, restarts |-> 0]
Registered == Range(entries)

FinInit ==
    /\ entries = <<>> /\ jobs = <<>>
    /\ target = [r \in Records |-> "undefined"]
    /\ white = {} /\ dangling = {}
    /\ scanning = FALSE /\ cursor = NoCursor /\ moved = FALSE
    /\ delivered = [r \in Records |-> 0]

(***************************************************************************)
(* The program                                                             *)
(***************************************************************************)

(* A new record; js_array_push may or may not move the array.              *)
js_finreg_register(r) ==
    /\ r \notin Registered \cup Range(jobs)
    /\ entries' = Append(entries, r)
    /\ target' = [target EXCEPT ![r] = "strong"]
    /\ white' = white \ {r}
    /\ delivered' = [delivered EXCEPT ![r] = 0]
    /\ moved' \in {moved, TRUE}
    /\ UNCHANGED <<scanning, cursor, jobs, dangling>>

(* The array is rebuilt without the records of the token, even if there    *)
(* are none.                                                               *)
js_finreg_unregister(t) ==
    /\ entries' = Without(entries, LAMBDA r : Token[r] = t)
    /\ moved' = TRUE
    /\ UNCHANGED <<target, white, scanning, cursor, jobs, delivered, dangling>>

(* The program drops its last strong reference to a target ...             *)
DropTarget(r) ==
    /\ r \in Registered /\ target[r] = "strong"
    /\ target' = [target EXCEPT ![r] = "weak"]
    /\ UNCHANGED <<entries, white, scanning, cursor, moved, jobs, delivered, dangling>>

(* ... or gets one again from a WeakRef, whose read shades the target.     *)
Revive(r) ==
    /\ r \in Registered /\ target[r] = "weak"
    /\ target' = [target EXCEPT ![r] = "strong"]
    /\ white' = white \ {r}
    /\ UNCHANGED <<entries, scanning, cursor, moved, jobs, delivered, dangling>>

(***************************************************************************)
(* The scan                                                                *)
(***************************************************************************)

(* The unit that resolves the registry: marking is over, a new cursor.     *)
BeginScan ==
    /\ ~scanning
    /\ scanning' = TRUE
    /\ white' = {r \in Registered : target[r] = "weak"}
    /\ cursor' = [len |-> Len(entries), next |-> 1, restarts |-> 0]
    /\ moved' = FALSE
    /\ UNCHANGED <<entries, target, jobs, delivered, dangling>>

\* A mistaken rescan: a record whose target is already tombstoned is reported again.
CollectedAgain(r) == r \in white

Collected(r) == r \in white /\ target[r] # "undefined"

(* process_finreg_record_range over the records rs: a record whose target  *)
(* slot names an unmarked object gets a job and loses its target.          *)
ProcessRange(rs) ==
    /\ jobs' = jobs \o Select(rs, {n \in DOMAIN rs : Collected(rs[n])})
    /\ target' = [r \in Records |->
                    IF r \in Range(rs) /\ Collected(r) THEN "undefined" ELSE target[r]]

(* After the last record the sweep frees what is white.                    *)
EndScan ==
    /\ scanning' = FALSE
    /\ cursor' = NoCursor /\ moved' = FALSE
    /\ dangling' = dangling \cup {r \in Registered \cap white : target'[r] = "weak"}
    /\ white' = {}

\* A mistaken identity: the length alone.
LengthIdentity == cursor.len = Len(entries)

(* finreg_entries_identity of the array and of the cursor agree.           *)
SameIdentity == ~moved /\ cursor.len = Len(entries)

MayRestart == cursor.restarts < MAX_REGISTRY_RESTARTS

\* A mistaken restart: it is not counted.
Uncounted == [len |-> Len(entries), next |-> 1, restarts |-> cursor.restarts]

Restarted == [len |-> Len(entries), next |-> 1, restarts |-> cursor.restarts + 1]

(* Past the bound on restarts: the whole array in one pass.                *)
AtomicFinish ==
    /\ scanning /\ ~SameIdentity /\ ~MayRestart
    /\ ProcessRange(entries)
    /\ EndScan
    /\ UNCHANGED <<entries, delivered>>

(* advance_registry with one unit left: at most a restart and one record.  *)
Advance ==
    LET cur == IF SameIdentity THEN cursor ELSE Restarted
        take == SubSeq(entries, cur.next, cur.next)
    IN  /\ scanning /\ (SameIdentity \/ MayRestart)
        /\ ProcessRange(IF cur.next <= cur.len THEN take ELSE <<>>)
        /\ IF cur.next >= cur.len
           THEN EndScan
           ELSE /\ cursor' = [cur EXCEPT !.next = @ + 1]
                /\ moved' = FALSE
                /\ UNCHANGED <<scanning, white, dangling>>
        /\ UNCHANGED <<entries, delivered>>

(***************************************************************************)
(* Delivery                                                                *)
(***************************************************************************)

\* A mistaken delivery: the record stays in the registry.
KeepRecord(r) == entries

RemoveRecord(r) == Without(entries, LAMBDA q : q = r)

(* One job: its callback becomes a tick and its record leaves the registry *)
(* (queue_pending_finalization_callbacks_after_gc).                        *)
Deliver ==
    /\ jobs # <<>>
    /\ LET r == Head(jobs) IN
         /\ delivered' = [delivered EXCEPT ![r] = @ + 1]
         /\ entries' = RemoveRecord(r)
    /\ jobs' = Tail(jobs)
    /\ moved' = TRUE
    /\ UNCHANGED <<target, white, scanning, cursor, dangling>>

Program ==
    \/ \E r \in Records : js_finreg_register(r) \/ DropTarget(r) \/ Revive(r)
    \/ \E t \in Tokens : js_finreg_unregister(t)

FinNext == Program \/ BeginScan \/ Advance \/ AtomicFinish \/ Deliver

(* A cycle in progress is stepped, and the pump runs while jobs are        *)
(* pending; the program need do nothing.                                   *)
FinSpec == FinInit /\ [][FinNext]_finvars /\ WF_finvars(Advance \/ AtomicFinish) /\ WF_finvars(Deliver)

(***************************************************************************)
(* Properties                                                              *)
(***************************************************************************)

(* No record is skipped: when the scan ends, the target slot of every      *)
(* registered record whose target is about to be swept has been            *)
(* tombstoned, however the array changed between the slices                *)
(* (advance_registry).                                                     *)
NoDanglingRecord == dangling = {}

(* A rescan is idempotent: a registration has at most one cleanup call,    *)
(* counting the ones still queued (process_finreg_record_after_mark).      *)
AtMostOnce ==
    \A r \in Records :
       delivered[r] + Cardinality({i \in DOMAIN jobs : jobs[i] = r}) <= 1

(* FinalizationRegistry: no record of a collected target is skipped, none  *)
(* is reported twice (advance_registry, process_finreg_record_after_mark). *)
RecordsAreSound == NoDanglingRecord /\ AtMostOnce

(* A scan that has begun ends, even if the program changes the array       *)
(* between every two slices (MAX_REGISTRY_RESTARTS).                       *)
ScanEnds == scanning ~> ~scanning

(* A record whose target was collected does not stay in the registry       *)
(* (remove_finalization_record_from_registry).                             *)
DeadRecordLeaves ==
    \A r \in Records :
       (r \in Registered /\ target[r] = "undefined") ~> (r \notin Registered)
==============================================================================
