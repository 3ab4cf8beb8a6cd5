--------------------------- MODULE SharedAtomics ---------------------------
(***************************************************************************)
(* The read-modify-write operations of Atomics (perry-runtime/atomics.rs)  *)
(* on an integer typed array over a SharedArrayBuffer, whose bytes every   *)
(* perry/thread agent aliases.  get_numeric and set_numeric are plain      *)
(* accesses, so an operation is a read step and a write step, and other    *)
(* agents run in between.  The element is an aligned integer of Width      *)
(* bits, which the targets read and write in one piece.                    *)
(***************************************************************************)
EXTENDS Integers, Bitwise

CONSTANTS Agents,   \* threads that share the buffer
          Slots,    \* element indices
          Width,    \* bits of an element
          Int32,    \* the array is an Int32Array
          MaxOps    \* bound on the operations of one agent

VARIABLES
    mem,        \* mem[s]: element s of the shared buffer
    pc,         \* "idle", or "write" between an operation's two accesses
    op,         \* the operation agent a is in
    previous,   \* the value a's operation read, and returns
    ops         \* operations a has begun

vars == <<mem, pc, op, previous, ops>>

Cell == 0 .. (2^Width - 1)

(* The number an element reads as: an Int32Array's are signed.  For a kind
   that wraps around, the sign makes no difference to what is stored. *)
Value(c) == IF Int32 /\ c >= 2^(Width - 1) THEN c - 2^Width ELSE c

(* The element a number is stored as.  `n as i32' saturates, so an Int32Array
   keeps its least or its greatest value; the other kinds wrap around. *)
Wrap(n) == LET half == 2^(Width - 1)
               kept == IF n >= half THEN half - 1 ELSE IF n < -half THEN -half ELSE n
           IN  (IF Int32 THEN kept ELSE n) % 2^Width

(* An operation: its slot, its operand, and compareExchange's expected value. *)
Operations == [name : {"add", "sub", "and", "or", "xor", "exchange", "compareExchange"},
               slot : Slots, operand : Cell, expected : Cell]

TypeOK == /\ mem \in [Slots -> Cell]
          /\ pc \in [Agents -> {"idle", "write"}]
          /\ op \in [Agents -> Operations]
          /\ previous \in [Agents -> Cell]
          /\ ops \in [Agents -> 0..MaxOps]

Init == /\ mem = [s \in Slots |-> 0]
        /\ pc = [a \in Agents |-> "idle"]
        /\ op = [a \in Agents |-> CHOOSE o \in Operations : TRUE]
        /\ previous = [a \in Agents |-> 0]
        /\ ops = [a \in Agents |-> 0]
----------------------------------------------------------------------------
(* js_atomics_store: one write. *)
Store(a) ==
    /\ pc[a] = "idle" /\ ops[a] < MaxOps
    /\ \E s \in Slots, v \in Cell : mem' = [mem EXCEPT ![s] = v]
    /\ ops' = [ops EXCEPT ![a] = @ + 1]
    /\ UNCHANGED <<pc, op, previous>>

(* `let previous = view.get_numeric(idx)'. *)
Read(a) ==
    /\ pc[a] = "idle" /\ ops[a] < MaxOps
    /\ \E o \in Operations :
        /\ op' = [op EXCEPT ![a] = o]
        /\ previous' = [previous EXCEPT ![a] = mem[o.slot]]
    /\ pc' = [pc EXCEPT ![a] = "write"]
    /\ ops' = [ops EXCEPT ![a] = @ + 1]
    /\ UNCHANGED mem

(* What the operation stores, from the value it has read. *)
Result(o, v) == CASE o.name = "add" -> Wrap(Value(v) + Value(o.operand))
                  [] o.name = "sub" -> Wrap(Value(v) - Value(o.operand))
                  [] o.name = "and" -> v & o.operand
                  [] o.name = "or"  -> v | o.operand
                  [] o.name = "xor" -> v ^^ o.operand
                  [] OTHER -> o.operand

(* `view.set_numeric(idx, ...)', which a compareExchange whose value did not
   match leaves out. *)
Write(a) ==
    /\ pc[a] = "write"
    /\ mem' = IF op[a].name = "compareExchange" /\ previous[a] # op[a].expected
              THEN mem
              ELSE [mem EXCEPT ![op[a].slot] = Result(op[a], previous[a])]
    /\ pc' = [pc EXCEPT ![a] = "idle"]
    /\ UNCHANGED <<op, previous, ops>>

Next == \E a \in Agents : Store(a) \/ Read(a) \/ Write(a)

Spec == Init /\ [][Next]_vars
----------------------------------------------------------------------------
(* "Atomics (add/load/store/compareExchange/...) operate on it for genuine
   cross-thread coordination": an operation that stores replaces exactly the
   value it returns, so no other agent's update is lost. *)
NoUpdateIsLost ==
    [][\A a \in Agents :
         Write(a) /\ mem' # mem => mem[op[a].slot] = previous[a]]_vars
============================================================================
