----------------------------- MODULE MCThreads -----------------------------
(***************************************************************************)
(* Futex.tla and NativeAsync.tla for TLC, the two places where threads     *)
(* meet at a lock.  A behaviour is one of                                  *)
(*   futex   two wait calls and an agent that stores and notifies,         *)
(*   token   a token that the main thread and two others complete.         *)
(* No symmetry set: liveness is checked.                                   *)
(***************************************************************************)
EXTENDS Futex, NativeAsync, TLC

VARIABLES setup

mcvars == <<vars, asyncvars, setup>>

(* The component at rest starts in one state. *)
MCInit == /\ setup \in {"futex", "token"}
          /\ Init /\ (setup = "futex" \/ mem = [s \in Slots |-> CHOOSE v \in Values : TRUE])
          /\ TokenInit /\ (setup = "token" \/ \A t \in Tokens : route[t] = "token")

Waits(step) == setup = "futex" /\ step /\ UNCHANGED <<asyncvars, setup>>

Completes(step) == setup = "token" /\ step /\ UNCHANGED <<vars, setup>>

MCNext == Waits(Next) \/ Completes(TokenNext)

(* Fairness and TokenFairness, of the steps above. *)
MCSpec == /\ MCInit /\ [][MCNext]_mcvars
          /\ \A w \in Waiters : /\ WF_mcvars(Waits(WaiterStep(w)))
                                /\ WF_mcvars(Waits(Deadline(w)))
          /\ \A n \in Notifiers : WF_mcvars(Waits(NotifierStep(n)))
          /\ WF_mcvars(Completes(MainStep))
          /\ \A a \in Threads : WF_mcvars(Completes(CallStep(a)))
============================================================================
