---------------------------- MODULE NativeAsync ----------------------------
(***************************************************************************)
(* Native async completion tokens (perry-runtime/promise/native_async.rs): *)
(* native code takes a token to any thread and completes it there, and the *)
(* main thread settles the token's promise in its next drain.  Steps are   *)
(* the accesses threads can see: the atomic state, the registry under its  *)
(* lock, a token's slots under theirs.                                     *)
(*                                                                         *)
(* A token and its promise are one element of Tokens: the constructor      *)
(* makes both, and a promise made without a token is adopted at most once. *)
(* The route of a promise is how a binding of perry-ffi uses it:           *)
(*   token    JsNativeAsyncCompletion: any thread, duplicates tolerated;   *)
(*   shim     JsPromise::resolve and reject: looked up by promise, consumed *)
(*            by one call;                                                 *)
(*   raw      JsPromise::from_raw: the same, on a promise with no token;   *)
(*   direct   settled on the main thread outside the token API, by the     *)
(*            stdlib pump or an emitter, which then drops the token.       *)
(* The pending queue is a set: each token is queued once, and the order of *)
(* settlements is not in question here.  The js_notify_main_thread after a *)
(* push is EventPump.tla's.                                                *)
(***************************************************************************)
EXTENDS Naturals

CONSTANTS Tokens, Threads, Main,
          MaxCalls,    \* bound on the calls one thread makes
          Nil          \* no payload, no lock owner

VARIABLES
    route,        \* how each promise is used
    policy,       \* thread_policy: "any" or "main"
    state,        \* NativeAsyncCompletion.state, "none" before it exists
    payload,      \* slots.payload
    handles,      \* slots.handles
    slotLock,     \* owner of the slots mutex
    tokens,       \* registry.tokens
    byPromise,    \* the keys of registry.by_promise
    pending,      \* registry.pending
    batch,        \* what the drain in progress has taken from it
    settling,     \* the token it has settled and not yet released
    promise,      \* "unborn", "pending", "settled" or "freed"
    pinned,       \* promises with native_pinned
    consumed,     \* shim, raw and direct promises whose one use has begun
    apc,          \* where each thread is
    request,      \* the call it makes
    calls,        \* calls each thread has begun
    accepted,     \* payloads of the calls that returned OK (history)
    attached,     \* handles whose attach returned OK (history)
    settled,      \* the payload the promise was settled with (history)
    disposed      \* handles that were disposed (history)

slotVars == <<payload, handles, slotLock>>
regVars == <<tokens, byPromise, pending>>
heapVars == <<promise, pinned, settled, disposed>>
threadVars == <<apc, request, calls>>
asyncvars == <<route, policy, state, slotVars, regVars, batch, settling, heapVars,
               consumed, threadVars, accepted, attached>>

Kinds == {"resolve", "reject", "cancel", "wrong"}
Payloads == [kind : Kinds, by : Threads]
Flags == {"success", "reject", "cancel"}
Handles == [by : Threads, flags : SUBSET Flags]

ASSUME AsyncAssumption == /\ Main \in Threads /\ MaxCalls \in Nat
                          /\ Nil \notin Threads \cup Payloads

TokenTypes == /\ route \in [Tokens -> {"token", "shim", "raw", "direct"}]
              /\ policy \in [Tokens -> {"any", "main"}]
              /\ state \in [Tokens -> {"none", "pending", "queued", "completed"}]
              /\ payload \in [Tokens -> Payloads \cup {Nil}]
              /\ handles \in [Tokens -> SUBSET Handles]
              /\ slotLock \in [Tokens -> Threads \cup {Nil}]
              /\ tokens \subseteq Tokens /\ byPromise \subseteq Tokens
              /\ pending \subseteq Tokens /\ batch \subseteq Tokens /\ settling \subseteq Tokens
              /\ promise \in [Tokens -> {"unborn", "pending", "settled", "freed"}]
              /\ pinned \subseteq Tokens /\ consumed \subseteq Tokens
              /\ apc \in [Threads -> {"idle", "lookup", "make", "claim", "push",
                                      "check", "lock", "attach"}]
              /\ request \in [Threads -> [token : Tokens, kind : Kinds, flags : SUBSET Flags]]
              /\ calls \in [Threads -> 0..MaxCalls]
              /\ accepted \in [Tokens -> SUBSET Payloads]
              /\ attached \in [Tokens -> SUBSET Handles]
              /\ settled \in [Tokens -> Payloads \cup {Nil}]
              /\ disposed \in [Tokens -> SUBSET Handles]

TokenInit == /\ route \in [Tokens -> {"token", "shim", "raw", "direct"}]
             /\ policy = [t \in Tokens |-> "any"]
             /\ state = [t \in Tokens |-> "none"]
             /\ payload = [t \in Tokens |-> Nil]
             /\ handles = [t \in Tokens |-> {}]
             /\ slotLock = [t \in Tokens |-> Nil]
             /\ tokens = {} /\ byPromise = {} /\ pending = {} /\ batch = {} /\ settling = {}
             /\ promise = [t \in Tokens |-> "unborn"]
             /\ pinned = {} /\ consumed = {}
             /\ apc = [a \in Threads |-> "idle"]
             /\ request \in [Threads -> {[token |-> t, kind |-> "resolve", flags |-> {}] : t \in Tokens}]
             /\ calls = [a \in Threads |-> 0]
             /\ accepted = [t \in Tokens |-> {}]
             /\ attached = [t \in Tokens |-> {}]
             /\ settled = [t \in Tokens |-> Nil]
             /\ disposed = [t \in Tokens |-> {}]
----------------------------------------------------------------------------
(* The main thread makes promises and tokens. *)

(* The main thread runs JavaScript: it is in no drain and in no call. *)
MainIdle == batch = {} /\ settling = {} /\ apc[Main] = "idle"

Register(t) == /\ state' = [state EXCEPT ![t] = "pending"]
               /\ tokens' = tokens \cup {t}
               /\ byPromise' = byPromise \cup {t}

(* js_native_async_completion_new: a pinned promise and its token. *)
New(t) ==
    /\ MainIdle /\ promise[t] = "unborn" /\ route[t] # "raw"
    /\ promise' = [promise EXCEPT ![t] = "pending"]
    /\ pinned' = pinned \cup {t}
    /\ \E p \in IF route[t] = "token" THEN {"any", "main"} ELSE {"any"} :
           policy' = [policy EXCEPT ![t] = p]
    /\ Register(t)
    /\ UNCHANGED <<route, slotVars, pending, batch, settling, settled, disposed,
                   consumed, threadVars, accepted, attached>>

(* Mutant: the constructor does not pin (issue #9552). *)
NewRawUnpinned(t) ==
    /\ MainIdle /\ promise[t] = "unborn" /\ route[t] = "raw"
    /\ promise' = [promise EXCEPT ![t] = "pending"]
    /\ UNCHANGED <<route, policy, state, slotVars, regVars, batch, settling, pinned, settled,
                   disposed, consumed, threadVars, accepted, attached>>

(* js_promise_new_cross_thread alone. *)
NewRaw(t) ==
    /\ MainIdle /\ promise[t] = "unborn" /\ route[t] = "raw"
    /\ promise' = [promise EXCEPT ![t] = "pending"]
    /\ pinned' = pinned \cup {t}
    /\ UNCHANGED <<route, policy, state, slotVars, regVars, batch, settling, settled,
                   disposed, consumed, threadVars, accepted, attached>>
----------------------------------------------------------------------------
(* Any thread completes a token. *)

GoOn(a, label) == apc' = [apc EXCEPT ![a] = label]

(* What a thread may begin: the main thread only when it is in no drain. *)
MayCall(a) == /\ apc[a] = "idle" /\ calls[a] < MaxCalls
              /\ a = Main => MainIdle

Begin(a, c, label) == /\ request' = [request EXCEPT ![a] = c]
                      /\ calls' = [calls EXCEPT ![a] = @ + 1]
                      /\ GoOn(a, label)
                      /\ UNCHANGED <<route, policy, state, slotVars, regVars, batch, settling,
                                     heapVars, accepted, attached>>

(* resolve_bits, reject_bits, reject_string or cancel on a token. *)
BeginComplete(a) ==
    /\ MayCall(a)
    /\ \E t \in Tokens, k \in {"resolve", "reject", "cancel"} :
        /\ route[t] = "token" /\ promise[t] # "unborn"
        /\ Begin(a, [token |-> t, kind |-> k, flags |-> {}], "claim")
    /\ UNCHANGED consumed

(* The shims on a promise, whose wrapper allows one call. *)
BeginShim(a) ==
    /\ MayCall(a)
    /\ \E t \in Tokens, k \in {"resolve", "reject"} :
        /\ route[t] \in {"shim", "raw"} /\ promise[t] # "unborn" /\ t \notin consumed
        /\ consumed' = consumed \cup {t}
        /\ Begin(a, [token |-> t, kind |-> k, flags |-> {}], "lookup")

(* adopt_or_get_token_for_promise: look the promise up under the registry lock, *)
Lookup(a) ==
    /\ apc[a] = "lookup"
    /\ GoOn(a, IF request[a].token \in byPromise THEN "claim" ELSE "make")
    /\ UNCHANGED <<route, policy, state, slotVars, regVars, batch, settling, heapVars,
                   consumed, request, calls, accepted, attached>>

(* and make a token for it outside that lock. *)
Make(a) ==
    /\ apc[a] = "make"
    /\ Register(request[a].token)
    /\ GoOn(a, "claim")
    /\ UNCHANGED <<route, policy, slotVars, pending, batch, settling, heapVars, consumed,
                   request, calls, accepted, attached>>

(* A token made for the main thread is rejected by a call from another one. *)
Payload(a) == [kind |-> IF policy[request[a].token] = "main" /\ a # Main THEN "wrong"
                        ELSE request[a].kind,
               by |-> a]

(* Mutant: only a settled token refuses. *)
ClaimUnlessCompleted(a) ==
    LET t == request[a].token IN
    /\ apc[a] = "claim"
    /\ \/ /\ state[t] = "completed"
          /\ GoOn(a, "idle")
          /\ UNCHANGED <<state, accepted>>
       \/ /\ state[t] # "completed"
          /\ state' = [state EXCEPT ![t] = "queued"]
          /\ accepted' = [accepted EXCEPT ![t] = @ \cup {Payload(a)}]
          /\ GoOn(a, "push")
    /\ UNCHANGED <<route, policy, slotVars, regVars, batch, settling, heapVars, consumed,
                   request, calls, attached>>

(* enqueue_payload: compare_exchange(PENDING, QUEUED), or ALREADY_COMPLETED. *)
Claim(a) ==
    LET t == request[a].token IN
    /\ apc[a] = "claim"
    /\ \/ /\ state[t] # "pending"
          /\ GoOn(a, "idle")
          /\ UNCHANGED <<state, accepted>>
       \/ /\ state[t] = "pending"
          /\ state' = [state EXCEPT ![t] = "queued"]
          /\ accepted' = [accepted EXCEPT ![t] = @ \cup {Payload(a)}]
          /\ GoOn(a, "push")
    /\ UNCHANGED <<route, policy, slotVars, regVars, batch, settling, heapVars, consumed,
                   request, calls, attached>>

(* enqueue_payload: both locks, the payload and the queue. *)
Push(a) ==
    LET t == request[a].token IN
    /\ apc[a] = "push" /\ slotLock[t] = Nil
    /\ payload' = [payload EXCEPT ![t] = Payload(a)]
    /\ pending' = pending \cup {t}
    /\ GoOn(a, "idle")
    /\ UNCHANGED <<route, policy, state, handles, slotLock, tokens, byPromise, batch, settling,
                   heapVars, consumed, request, calls, accepted, attached>>
----------------------------------------------------------------------------
(* js_native_async_completion_attach_handle. *)

BeginAttach(a) ==
    /\ MayCall(a)
    /\ \E t \in Tokens, f \in SUBSET Flags :
        /\ route[t] = "token" /\ promise[t] # "unborn"
        /\ Begin(a, [token |-> t, kind |-> "resolve",
                     flags |-> IF f = {} THEN {"reject", "cancel"} ELSE f], "check")
    /\ UNCHANGED consumed

(* The first test of the state, without the lock. *)
AttachCheck(a) ==
    /\ apc[a] = "check"
    /\ GoOn(a, IF state[request[a].token] = "pending" THEN "lock" ELSE "idle")
    /\ UNCHANGED <<route, policy, state, slotVars, regVars, batch, settling, heapVars,
                   consumed, request, calls, accepted, attached>>

(* Mutant: the state is not tested again under the lock. *)
AttachLockBlind(a) ==
    LET t == request[a].token IN
    /\ apc[a] = "lock" /\ slotLock[t] = Nil
    /\ slotLock' = [slotLock EXCEPT ![t] = a]
    /\ GoOn(a, "attach")
    /\ UNCHANGED <<route, policy, state, payload, handles, regVars, batch, settling, heapVars,
                   consumed, request, calls, accepted, attached>>

(* Take the slots' lock and test the state again. *)
AttachLock(a) ==
    LET t == request[a].token IN
    /\ apc[a] = "lock" /\ slotLock[t] = Nil
    /\ IF state[t] = "pending"
       THEN slotLock' = [slotLock EXCEPT ![t] = a] /\ GoOn(a, "attach")
       ELSE UNCHANGED slotLock /\ GoOn(a, "idle")
    /\ UNCHANGED <<route, policy, state, payload, handles, regVars, batch, settling, heapVars,
                   consumed, request, calls, accepted, attached>>

(* Add the handle and release the lock; a completion may have begun meanwhile. *)
AttachPush(a) ==
    LET t == request[a].token  h == [by |-> a, flags |-> request[a].flags] IN
    /\ apc[a] = "attach"
    /\ handles' = [handles EXCEPT ![t] = @ \cup {h}]
    /\ attached' = [attached EXCEPT ![t] = @ \cup {h}]
    /\ slotLock' = [slotLock EXCEPT ![t] = Nil]
    /\ GoOn(a, "idle")
    /\ UNCHANGED <<route, policy, state, payload, regVars, batch, settling, heapVars,
                   consumed, request, calls, accepted>>
----------------------------------------------------------------------------
(* The main thread settles. *)

(* js_native_async_process_pending: take the queue under the registry lock. *)
Drain ==
    /\ MainIdle /\ pending # {}
    /\ batch' = pending
    /\ pending' = {}
    /\ UNCHANGED <<route, policy, state, slotVars, tokens, byPromise, settling, heapVars,
                   consumed, threadVars, accepted, attached>>

(* payload_to_settlement: which handles a settlement disposes. *)
CleanupMask(kind) == CASE kind = "resolve" -> "success"
                       [] kind = "cancel" -> "cancel"
                       [] OTHER -> "reject"

(* Take a token's slots under their lock, dispose its handles and settle the
   promise, which releases the pin. *)
SettleToken(t) ==
    /\ t \in batch /\ settling = {} /\ slotLock[t] = Nil
    /\ settling' = {t}
    /\ batch' = batch \ {t}
    /\ payload' = [payload EXCEPT ![t] = Nil]
    /\ handles' = [handles EXCEPT ![t] = {}]
    /\ disposed' = [disposed EXCEPT ![t] = @ \cup
           {h \in handles[t] : payload[t] # Nil /\ CleanupMask(payload[t].kind) \in h.flags}]
    /\ IF payload[t] # Nil /\ promise[t] = "pending"
       THEN /\ promise' = [promise EXCEPT ![t] = "settled"]
            /\ settled' = [settled EXCEPT ![t] = payload[t]]
            /\ pinned' = pinned \ {t}
       ELSE UNCHANGED <<promise, settled, pinned>>
    /\ UNCHANGED <<route, policy, state, slotLock, regVars, consumed, threadVars,
                   accepted, attached>>

(* Mutant: the token stays registered (issue #9356). *)
ReleaseKeepsToken(t) ==
    /\ settling = {t}
    /\ settling' = {}
    /\ state' = [state EXCEPT ![t] = "completed"]
    /\ pinned' = pinned \ {t}
    /\ pending' = pending \ {t} /\ byPromise' = byPromise \ {t}
    /\ UNCHANGED <<route, policy, slotVars, tokens, batch, promise, settled, disposed,
                   consumed, threadVars, accepted, attached>>

(* Store COMPLETED and remove_token_from_registry. *)
Release(t) ==
    /\ settling = {t}
    /\ settling' = {}
    /\ state' = [state EXCEPT ![t] = "completed"]
    /\ pinned' = pinned \ {t}
    /\ tokens' = tokens \ {t} /\ pending' = pending \ {t} /\ byPromise' = byPromise \ {t}
    /\ UNCHANGED <<route, policy, slotVars, batch, promise, settled, disposed,
                   consumed, threadVars, accepted, attached>>

(* The stdlib pump or an emitter settles the promise itself and drops its token:
   js_native_async_drop_promise_token. *)
SettleDirect(t) ==
    /\ MainIdle /\ route[t] = "direct" /\ promise[t] = "pending" /\ t \notin consumed
    /\ consumed' = consumed \cup {t}
    /\ \E k \in {"resolve", "reject"} :
        /\ settled' = [settled EXCEPT ![t] = [kind |-> k, by |-> Main]]
        /\ accepted' = [accepted EXCEPT ![t] = @ \cup {[kind |-> k, by |-> Main]}]
    /\ promise' = [promise EXCEPT ![t] = "settled"]
    /\ state' = [state EXCEPT ![t] = "completed"]
    /\ pinned' = pinned \ {t}
    /\ tokens' = tokens \ {t} /\ pending' = pending \ {t} /\ byPromise' = byPromise \ {t}
    /\ UNCHANGED <<route, policy, slotVars, batch, settling, disposed, threadVars, attached>>

(* The collector, on the main thread, frees a promise that JavaScript no longer
   reaches and that neither a pin, a registered token nor the drain roots. *)
Collect(t) ==
    /\ promise[t] \in {"pending", "settled"}
    /\ t \notin pinned \cup tokens \cup settling
    /\ promise' = [promise EXCEPT ![t] = "freed"]
    /\ UNCHANGED <<route, policy, state, slotVars, regVars, batch, settling, pinned, settled,
                   disposed, consumed, threadVars, accepted, attached>>
----------------------------------------------------------------------------
CallStep(a) == \/ Lookup(a) \/ Make(a) \/ Claim(a) \/ Push(a)
               \/ AttachCheck(a) \/ AttachLock(a) \/ AttachPush(a)

(* Nobody is in a call and nothing is queued. *)
Quiet == /\ MainIdle /\ pending = {}
         /\ \A a \in Threads : apc[a] = "idle"
         /\ UNCHANGED asyncvars

MainStep == Drain \/ \E t \in Tokens : SettleToken(t) \/ Release(t)

TokenNext == \/ \E t \in Tokens : New(t) \/ NewRaw(t) \/ SettleDirect(t) \/ Collect(t)
             \/ \E a \in Threads : BeginComplete(a) \/ BeginShim(a) \/ BeginAttach(a) \/ CallStep(a)
             \/ MainStep \/ Quiet

(* Threads inside a call go on, and the event loop drains what is queued. *)
TokenFairness == WF_asyncvars(MainStep) /\ \A a \in Threads : WF_asyncvars(CallStep(a))

TokenSpec == TokenInit /\ [][TokenNext]_asyncvars /\ TokenFairness
----------------------------------------------------------------------------
(* "Completion requests are exactly-once": however many threads race, one call
   per token returns OK, and the promise is settled with that request's payload. *)
ExactlyOnce ==
    \A t \in Tokens : /\ \A p, q \in accepted[t] : p = q
                      /\ settled[t] # Nil => settled[t] \in accepted[t]

(* A handle whose attach returned OK is disposed exactly when its flags ask for
   the settlement that happened: none is added after the drain took the slots. *)
HandlesFollowSettlement ==
    \A t \in Tokens :
        state[t] = "completed" /\ route[t] = "token" =>
            /\ handles[t] = {}
            /\ disposed[t] = {h \in attached[t] : CleanupMask(settled[t].kind) \in h.flags}

(* Issues #859, #9356 and #9552: the collector frees no promise whose address is
   still with native code or in the queue, so no drain meets a freed promise. *)
NeverFreedEarly ==
    \A t \in Tokens :
        promise[t] = "freed" => settled[t] # Nil /\ t \notin pending \cup batch

(* An accepted completion settles its promise and releases the token, so that
   js_native_async_has_active does not keep the event loop alive. *)
AcceptedSettles ==
    \A t \in Tokens : (accepted[t] # {}) ~> (settled[t] # Nil /\ t \notin tokens)
----------------------------------------------------------------------------
(* The inductive invariant behind the three safety properties. *)

(* The lock of the slots is held by a thread that adds a handle, and that one
   found the token pending. *)
SlotInv ==
    /\ \A t \in Tokens, a \in Threads :
           slotLock[t] = a <=> apc[a] = "attach" /\ request[a].token = t
    /\ \A a \in Threads : apc[a] \in {"check", "lock", "attach"} =>
           route[request[a].token] = "token" /\ state[request[a].token] # "none"
    /\ \A t \in Tokens : slotLock[t] # Nil => settled[t] = Nil

(* A token is registered from its making to its release, and its promise pinned
   until it is settled. *)
RegistryInv ==
    /\ \A t \in Tokens : t \in tokens <=> state[t] \in {"pending", "queued"}
    /\ byPromise = tokens
    /\ \A t \in Tokens : /\ promise[t] = "unborn" => state[t] = "none" /\ t \notin consumed
                         /\ promise[t] = "pending" => t \in pinned
                         /\ route[t] = "direct" => state[t] # "queued"
                         /\ route[t] # "token" => attached[t] = {}
                         /\ promise[t] # "unborn" /\ state[t] = "none" => route[t] = "raw"

(* A promise that allows one call is in one call. *)
ShimInv ==
    /\ \A a \in Threads : apc[a] \in {"lookup", "make", "claim", "push"} =>
           /\ route[request[a].token] # "direct"
           /\ route[request[a].token] # "token" => request[a].token \in consumed
           /\ apc[a] \in {"lookup", "make"} => route[request[a].token] # "token"
           /\ apc[a] \in {"claim", "push"} => state[request[a].token] # "none"
           /\ apc[a] = "make" => state[request[a].token] = "none"
           /\ apc[a] # "push" /\ route[request[a].token] # "token" =>
                  state[request[a].token] \in {"none", "pending"}
           /\ promise[request[a].token] # "unborn"
    /\ \A a, b \in Threads :
           /\ apc[a] \in {"lookup", "make", "claim"} /\ apc[b] \in {"lookup", "make", "claim"}
           /\ request[a].token = request[b].token /\ route[request[a].token] # "token"
           => a = b
    /\ \A t \in Tokens : route[t] \in {"shim", "raw"} /\ t \notin consumed =>
           state[t] \in (IF route[t] = "raw" THEN {"none"} ELSE {"none", "pending"})

(* A call that was accepted has queued its payload or is about to. *)
QueueInv ==
    /\ \A a \in Threads : apc[a] = "push" =>
           /\ state[request[a].token] = "queued" /\ settled[request[a].token] = Nil
           /\ accepted[request[a].token] = {Payload(a)}
           /\ payload[request[a].token] = Nil
           /\ request[a].token \notin pending \cup batch
    /\ \A t \in Tokens :
           /\ t \in pending \cup batch <=> payload[t] # Nil
           /\ t \in pending \cup batch => /\ state[t] = "queued" /\ settled[t] = Nil
                                          /\ accepted[t] = {payload[t]}
           /\ state[t] \in {"none", "pending"} => accepted[t] = {}
           /\ \A p, q \in accepted[t] : p = q
    /\ pending \cap batch = {}

(* What a settled token has left behind, and an unsettled one still holds. *)
SettleInv ==
    \A t \in Tokens :
        /\ settled[t] = Nil => /\ promise[t] \in {"unborn", "pending"}
                               /\ t \notin settling /\ state[t] # "completed"
                               /\ disposed[t] = {} /\ handles[t] = attached[t]
        /\ settled[t] # Nil =>
               /\ promise[t] \in {"settled", "freed"}
               /\ t \in settling \/ state[t] = "completed"
               /\ t \in settling => state[t] = "queued"
               /\ accepted[t] = {settled[t]} /\ handles[t] = {}
               /\ disposed[t] = {h \in attached[t] : CleanupMask(settled[t].kind) \in h.flags}

AsyncInv == TokenTypes /\ SlotInv /\ RegistryInv /\ ShimInv /\ QueueInv /\ SettleInv
============================================================================
