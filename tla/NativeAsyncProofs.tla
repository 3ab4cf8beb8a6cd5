------------------------- MODULE NativeAsyncProofs -------------------------
(* Theorems about NativeAsync.tla, for any number of tokens and threads. *)
EXTENDS NativeAsync, TLAPS

(* The inductive invariant holds initially. *)
LEMMA AsyncInit == TokenInit => AsyncInv
  <1> SUFFICES ASSUME TokenInit PROVE AsyncInv
    OBVIOUS
  <1> USE AsyncAssumption DEF TokenInit
  <1>1. TokenTypes
    BY DEF TokenTypes, Payloads, Kinds, Handles, Flags
  <1>2. SlotInv
    BY DEF SlotInv, Payloads, Kinds, Handles, Flags
  <1>3. RegistryInv
    BY DEF RegistryInv, Payloads, Kinds, Handles, Flags
  <1>4. ShimInv
    BY DEF ShimInv, Payloads, Kinds, Handles, Flags
  <1>5. QueueInv
    BY DEF QueueInv, Payloads, Kinds, Handles, Flags
  <1>6. SettleInv
    BY DEF SettleInv, Payloads, Kinds, Handles, Flags
  <1>7. QED
    BY <1>1, <1>2, <1>3, <1>4, <1>5, <1>6 DEF AsyncInv

(* Every step keeps it: one step per action, one below it per part. *)
LEMMA AsyncStep == AsyncInv /\ [TokenNext]_asyncvars => AsyncInv'
  <1> SUFFICES ASSUME AsyncInv, [TokenNext]_asyncvars PROVE AsyncInv'
    OBVIOUS
  <1> USE AsyncAssumption DEF AsyncInv, slotVars, regVars, heapVars, threadVars
  <1>1. ASSUME NEW t \in Tokens, New(t) PROVE AsyncInv'
    <2>1. TokenTypes'
      BY <1>1 DEF New, Register, TokenTypes, Payloads, Kinds, Handles, Flags
    <2>2. SlotInv'
      BY <1>1 DEF New, Register, TokenTypes, SlotInv, RegistryInv, SettleInv
    <2>3. RegistryInv'
      BY <1>1 DEF New, Register, TokenTypes, SlotInv, RegistryInv, ShimInv, QueueInv, SettleInv
    <2>4. ShimInv'
      BY <1>1 DEF New, Register, TokenTypes, RegistryInv, ShimInv, QueueInv, SettleInv
    <2>5. QueueInv'
      BY <1>1 DEF New, Register, TokenTypes, SlotInv, RegistryInv, ShimInv, QueueInv, SettleInv, Payload
    <2>6. SettleInv'
      BY <1>1 DEF New, Register, TokenTypes, SlotInv, RegistryInv, ShimInv, QueueInv, SettleInv
    <2>7. QED
      BY <2>1, <2>2, <2>3, <2>4, <2>5, <2>6
  <1>2. ASSUME NEW t \in Tokens, NewRaw(t) PROVE AsyncInv'
    <2>1. TokenTypes'
      BY <1>2 DEF NewRaw, TokenTypes, Payloads, Kinds, Handles, Flags
    <2>2. SlotInv'
      BY <1>2 DEF NewRaw, TokenTypes, SlotInv, RegistryInv, SettleInv
    <2>3. RegistryInv'
      BY <1>2 DEF NewRaw, TokenTypes, SlotInv, RegistryInv, ShimInv, QueueInv, SettleInv
    <2>4. ShimInv'
      BY <1>2 DEF NewRaw, TokenTypes, RegistryInv, ShimInv, QueueInv, SettleInv
    <2>5. QueueInv'
      BY <1>2 DEF NewRaw, TokenTypes, SlotInv, RegistryInv, ShimInv, QueueInv, SettleInv, Payload
    <2>6. SettleInv'
      BY <1>2 DEF NewRaw, TokenTypes, SlotInv, RegistryInv, ShimInv, QueueInv, SettleInv
    <2>7. QED
      BY <2>1, <2>2, <2>3, <2>4, <2>5, <2>6
  <1>3. ASSUME NEW t \in Tokens, SettleDirect(t) PROVE AsyncInv'
    <2>1. TokenTypes'
      BY <1>3 DEF SettleDirect, TokenTypes, Payloads, Kinds, Handles, Flags
    <2>2. SlotInv'
      BY <1>3 DEF SettleDirect, TokenTypes, SlotInv, RegistryInv, SettleInv
    <2>3. RegistryInv'
      BY <1>3 DEF SettleDirect, TokenTypes, SlotInv, RegistryInv, ShimInv, QueueInv, SettleInv
    <2>4. ShimInv'
      BY <1>3 DEF SettleDirect, TokenTypes, RegistryInv, ShimInv, QueueInv, SettleInv
    <2>a. PICK k \in {"resolve", "reject"} :
              settled' = [settled EXCEPT ![t] = [kind |-> k, by |-> Main]]
              /\ accepted' = [accepted EXCEPT ![t] = @ \cup {[kind |-> k, by |-> Main]}]
      BY <1>3 DEF SettleDirect
    <2>b. [kind |-> k, by |-> Main] \in Payloads /\ [kind |-> k, by |-> Main] # Nil
      BY DEF Payloads, Kinds
    <2>c. state[t] = "pending" /\ settled[t] = Nil /\ t \notin settling /\ accepted[t] = {}
          /\ attached[t] = {} /\ handles[t] = {} /\ disposed[t] = {}
      BY <1>3 DEF SettleDirect, MainIdle, TokenTypes, RegistryInv, QueueInv, SettleInv
    <2>d. accepted' = [accepted EXCEPT ![t] = {settled'[t]}] /\ settled'[t] = [kind |-> k, by |-> Main]
      BY <2>a, <2>c DEF TokenTypes
    <2>5. QueueInv'
      <3>1. t \notin pending \cup batch /\ payload[t] = Nil
        BY <2>c DEF QueueInv
      <3>2. \A b \in Threads : apc[b] = "push" => request[b].token # t
        BY <2>c DEF QueueInv
      <3>3. QED
        BY <1>3, <2>c, <2>d, <3>1, <3>2 DEF SettleDirect, TokenTypes, QueueInv, Payload
    <2>6. SettleInv'
      BY <1>3, <2>a, <2>b, <2>c, <2>d DEF SettleDirect, TokenTypes, SettleInv
    <2>7. QED
      BY <2>1, <2>2, <2>3, <2>4, <2>5, <2>6
  <1>4. ASSUME NEW t \in Tokens, Collect(t) PROVE AsyncInv'
    <2>1. TokenTypes'
      BY <1>4 DEF Collect, TokenTypes, Payloads, Kinds, Handles, Flags
    <2>2. SlotInv'
      BY <1>4 DEF Collect, TokenTypes, SlotInv, RegistryInv, SettleInv
    <2>3. RegistryInv'
      BY <1>4 DEF Collect, TokenTypes, SlotInv, RegistryInv, ShimInv, QueueInv, SettleInv
    <2>4. ShimInv'
      BY <1>4 DEF Collect, TokenTypes, RegistryInv, ShimInv, QueueInv, SettleInv
    <2>5. QueueInv'
      BY <1>4 DEF Collect, TokenTypes, SlotInv, RegistryInv, ShimInv, QueueInv, SettleInv, Payload
    <2>6. SettleInv'
      BY <1>4 DEF Collect, TokenTypes, SlotInv, RegistryInv, ShimInv, QueueInv, SettleInv
    <2>7. QED
      BY <2>1, <2>2, <2>3, <2>4, <2>5, <2>6
  <1>5. ASSUME NEW a \in Threads, BeginComplete(a) PROVE AsyncInv'
    <2>1. TokenTypes'
      BY <1>5 DEF BeginComplete, Begin, MayCall, GoOn, TokenTypes, Payloads, Kinds, Handles, Flags
    <2>2. SlotInv'
      BY <1>5 DEF BeginComplete, Begin, MayCall, GoOn, TokenTypes, SlotInv, RegistryInv, SettleInv
    <2>3. RegistryInv'
      BY <1>5 DEF BeginComplete, Begin, MayCall, GoOn, TokenTypes, SlotInv, RegistryInv, ShimInv, QueueInv, SettleInv
    <2>4. ShimInv'
      BY <1>5 DEF BeginComplete, Begin, MayCall, GoOn, TokenTypes, RegistryInv, ShimInv, QueueInv, SettleInv
    <2>5. QueueInv'
      BY <1>5 DEF BeginComplete, Begin, MayCall, GoOn, TokenTypes, SlotInv, RegistryInv, ShimInv, QueueInv, SettleInv, Payload
    <2>6. SettleInv'
      BY <1>5 DEF BeginComplete, Begin, MayCall, GoOn, TokenTypes, SlotInv, RegistryInv, ShimInv, QueueInv, SettleInv
    <2>7. QED
      BY <2>1, <2>2, <2>3, <2>4, <2>5, <2>6
  <1>6. ASSUME NEW a \in Threads, BeginShim(a) PROVE AsyncInv'
    <2>1. TokenTypes'
      BY <1>6 DEF BeginShim, Begin, MayCall, GoOn, TokenTypes, Payloads, Kinds, Handles, Flags
    <2>2. SlotInv'
      BY <1>6 DEF BeginShim, Begin, MayCall, GoOn, TokenTypes, SlotInv, RegistryInv, SettleInv
    <2>3. RegistryInv'
      BY <1>6 DEF BeginShim, Begin, MayCall, GoOn, TokenTypes, SlotInv, RegistryInv, ShimInv, QueueInv, SettleInv
    <2>4. ShimInv'
      BY <1>6 DEF BeginShim, Begin, MayCall, GoOn, TokenTypes, RegistryInv, ShimInv, QueueInv, SettleInv
    <2>5. QueueInv'
      BY <1>6 DEF BeginShim, Begin, MayCall, GoOn, TokenTypes, SlotInv, RegistryInv, ShimInv, QueueInv, SettleInv, Payload
    <2>6. SettleInv'
      BY <1>6 DEF BeginShim, Begin, MayCall, GoOn, TokenTypes, SlotInv, RegistryInv, ShimInv, QueueInv, SettleInv
    <2>7. QED
      BY <2>1, <2>2, <2>3, <2>4, <2>5, <2>6
  <1>7. ASSUME NEW a \in Threads, BeginAttach(a) PROVE AsyncInv'
    <2>1. TokenTypes'
      BY <1>7 DEF BeginAttach, Begin, MayCall, GoOn, TokenTypes, Payloads, Kinds, Handles, Flags
    <2>2. SlotInv'
      BY <1>7 DEF BeginAttach, Begin, MayCall, GoOn, TokenTypes, SlotInv, RegistryInv, SettleInv
    <2>3. RegistryInv'
      BY <1>7 DEF BeginAttach, Begin, MayCall, GoOn, TokenTypes, SlotInv, RegistryInv, ShimInv, QueueInv, SettleInv
    <2>4. ShimInv'
      BY <1>7 DEF BeginAttach, Begin, MayCall, GoOn, TokenTypes, RegistryInv, ShimInv, QueueInv, SettleInv
    <2>5. QueueInv'
      BY <1>7 DEF BeginAttach, Begin, MayCall, GoOn, TokenTypes, SlotInv, RegistryInv, ShimInv, QueueInv, SettleInv, Payload
    <2>6. SettleInv'
      BY <1>7 DEF BeginAttach, Begin, MayCall, GoOn, TokenTypes, SlotInv, RegistryInv, ShimInv, QueueInv, SettleInv
    <2>7. QED
      BY <2>1, <2>2, <2>3, <2>4, <2>5, <2>6
  <1>8. ASSUME NEW a \in Threads, Lookup(a) PROVE AsyncInv'
    <2>1. TokenTypes'
      BY <1>8 DEF Lookup, GoOn, TokenTypes, Payloads, Kinds, Handles, Flags
    <2>2. SlotInv'
      BY <1>8 DEF Lookup, GoOn, TokenTypes, SlotInv, RegistryInv, SettleInv
    <2>3. RegistryInv'
      BY <1>8 DEF Lookup, GoOn, TokenTypes, SlotInv, RegistryInv, ShimInv, QueueInv, SettleInv
    <2>4. ShimInv'
      BY <1>8 DEF Lookup, GoOn, TokenTypes, RegistryInv, ShimInv, QueueInv, SettleInv
    <2>5. QueueInv'
      BY <1>8 DEF Lookup, GoOn, TokenTypes, SlotInv, RegistryInv, ShimInv, QueueInv, SettleInv, Payload
    <2>6. SettleInv'
      BY <1>8 DEF Lookup, GoOn, TokenTypes, SlotInv, RegistryInv, ShimInv, QueueInv, SettleInv
    <2>7. QED
      BY <2>1, <2>2, <2>3, <2>4, <2>5, <2>6
  <1>9. ASSUME NEW a \in Threads, Make(a) PROVE AsyncInv'
    <2>1. TokenTypes'
      BY <1>9 DEF Make, Register, GoOn, TokenTypes, Payloads, Kinds, Handles, Flags
    <2>2. SlotInv'
      BY <1>9 DEF Make, Register, GoOn, TokenTypes, SlotInv, RegistryInv, SettleInv
    <2>3. RegistryInv'
      BY <1>9 DEF Make, Register, GoOn, TokenTypes, SlotInv, RegistryInv, ShimInv, QueueInv, SettleInv
    <2>4. ShimInv'
      BY <1>9 DEF Make, Register, GoOn, TokenTypes, RegistryInv, ShimInv, QueueInv, SettleInv
    <2>5. QueueInv'
      BY <1>9 DEF Make, Register, GoOn, TokenTypes, SlotInv, RegistryInv, ShimInv, QueueInv, SettleInv, Payload
    <2>6. SettleInv'
      BY <1>9 DEF Make, Register, GoOn, TokenTypes, SlotInv, RegistryInv, ShimInv, QueueInv, SettleInv
    <2>7. QED
      BY <2>1, <2>2, <2>3, <2>4, <2>5, <2>6
  <1>10. ASSUME NEW a \in Threads, Claim(a) PROVE AsyncInv'
    <2> DEFINE t == request[a].token
    <2>t. t \in Tokens /\ Payload(a) \in Payloads /\ Payload(a) # Nil
      BY DEF Payload, Payloads, Kinds, TokenTypes
    <2>p. state[t] = "pending" => accepted[t] = {} /\ settled[t] = Nil /\ payload[t] = Nil
              /\ t \notin pending \cup batch \cup settling
      BY <2>t DEF TokenTypes, QueueInv, SettleInv
    <2>q. state[t] = "pending" => accepted' = [accepted EXCEPT ![t] = {Payload(a)}]
      BY <1>10, <2>p DEF Claim, TokenTypes
    <2>1. TokenTypes'
      <3>1. CASE state[t] # "pending"
        BY <1>10, <2>t, <3>1 DEF Claim, GoOn, TokenTypes
      <3>2. CASE state[t] = "pending"
        <4>1. accepted' \in [Tokens -> SUBSET Payloads]
          BY <2>q, <2>t, <3>2 DEF TokenTypes
        <4>2. QED
          BY <1>10, <2>t, <3>2, <4>1 DEF Claim, GoOn, TokenTypes
      <3>3. QED
        BY <3>1, <3>2
    <2>2. SlotInv'
      BY <1>10 DEF Claim, GoOn, TokenTypes, SlotInv, RegistryInv, SettleInv, Payload
    <2>3. RegistryInv'
      BY <1>10 DEF Claim, GoOn, TokenTypes, SlotInv, RegistryInv, ShimInv, QueueInv, SettleInv, Payload
    <2>4. ShimInv'
      <3>1. CASE state[t] # "pending"
        BY <1>10, <2>t, <3>1 DEF Claim, GoOn, TokenTypes, SlotInv, RegistryInv, ShimInv, QueueInv, SettleInv
      <3>2. CASE state[t] = "pending"
        BY <1>10, <2>t, <2>p, <3>2 DEF Claim, GoOn, TokenTypes, SlotInv, RegistryInv, ShimInv, QueueInv, SettleInv
      <3>3. QED
        BY <3>1, <3>2
    <2>5. QueueInv'
      <3>1. CASE state[t] # "pending"
        BY <1>10, <2>t, <3>1 DEF Claim, GoOn, Payload, TokenTypes, QueueInv
      <3>2. CASE state[t] = "pending"
        <4>1. /\ apc' = [apc EXCEPT ![a] = "push"] /\ state' = [state EXCEPT ![t] = "queued"]
              /\ UNCHANGED <<policy, payload, pending, batch, settled, request>>
          BY <1>10, <3>2 DEF Claim, GoOn
        <4>2. ASSUME NEW b \in Threads, apc'[b] = "push"
              PROVE  LET u == request[b].token IN
                     /\ state'[u] = "queued" /\ settled[u] = Nil /\ payload[u] = Nil
                     /\ accepted'[u] = {Payload(b)} /\ u \notin pending \cup batch
          <5>1. CASE b = a
            BY <2>t, <2>p, <2>q, <3>2, <4>1, <5>1 DEF TokenTypes
          <5>2. CASE b # a
            BY <2>t, <2>q, <3>2, <4>1, <4>2, <5>2 DEF TokenTypes, QueueInv
          <5>3. QED
            BY <5>1, <5>2
        <4>3. \A u \in Tokens :
                 /\ u \in pending \cup batch <=> payload[u] # Nil
                 /\ u \in pending \cup batch => /\ state'[u] = "queued" /\ settled[u] = Nil
                                                /\ accepted'[u] = {payload[u]}
                 /\ state'[u] \in {"none", "pending"} => accepted'[u] = {}
                 /\ \A p, q \in accepted'[u] : p = q
          BY <2>t, <2>p, <2>q, <3>2, <4>1 DEF TokenTypes, QueueInv
        <4>4. QED
          BY <4>1, <4>2, <4>3 DEF QueueInv, Payload
      <3>3. QED
        BY <3>1, <3>2
    <2>6. SettleInv'
      <3>1. CASE state[t] # "pending"
        BY <1>10, <2>t, <3>1 DEF Claim, GoOn, TokenTypes, SlotInv, RegistryInv, ShimInv, QueueInv, SettleInv
      <3>2. CASE state[t] = "pending"
        BY <1>10, <2>t, <2>p, <3>2 DEF Claim, GoOn, TokenTypes, SlotInv, RegistryInv, ShimInv, QueueInv, SettleInv
      <3>3. QED
        BY <3>1, <3>2
    <2>7. QED
      BY <2>1, <2>2, <2>3, <2>4, <2>5, <2>6
  <1>11. ASSUME NEW a \in Threads, Push(a) PROVE AsyncInv'
    <2>1. TokenTypes'
      BY <1>11 DEF Push, GoOn, TokenTypes, Payloads, Kinds, Handles, Flags, Payload
    <2>2. SlotInv'
      BY <1>11 DEF Push, GoOn, TokenTypes, SlotInv, RegistryInv, SettleInv, Payload
    <2>3. RegistryInv'
      BY <1>11 DEF Push, GoOn, TokenTypes, SlotInv, RegistryInv, ShimInv, QueueInv, SettleInv, Payload
    <2>4. ShimInv'
      BY <1>11 DEF Push, GoOn, TokenTypes, RegistryInv, ShimInv, QueueInv, SettleInv, Payload
    <2>5. QueueInv'
      BY <1>11 DEF Push, GoOn, TokenTypes, SlotInv, RegistryInv, ShimInv, QueueInv, SettleInv, Payload
    <2>6. SettleInv'
      BY <1>11 DEF Push, GoOn, TokenTypes, SlotInv, RegistryInv, ShimInv, QueueInv, SettleInv, Payload
    <2>7. QED
      BY <2>1, <2>2, <2>3, <2>4, <2>5, <2>6
  <1>12. ASSUME NEW a \in Threads, AttachCheck(a) PROVE AsyncInv'
    <2>1. TokenTypes'
      BY <1>12 DEF AttachCheck, GoOn, TokenTypes, Payloads, Kinds, Handles, Flags
    <2>2. SlotInv'
      BY <1>12 DEF AttachCheck, GoOn, TokenTypes, SlotInv, RegistryInv, SettleInv
    <2>3. RegistryInv'
      BY <1>12 DEF AttachCheck, GoOn, TokenTypes, SlotInv, RegistryInv, ShimInv, QueueInv, SettleInv
    <2>4. ShimInv'
      BY <1>12 DEF AttachCheck, GoOn, TokenTypes, RegistryInv, ShimInv, QueueInv, SettleInv
    <2>5. QueueInv'
      BY <1>12 DEF AttachCheck, GoOn, TokenTypes, SlotInv, RegistryInv, ShimInv, QueueInv, SettleInv, Payload
    <2>6. SettleInv'
      BY <1>12 DEF AttachCheck, GoOn, TokenTypes, SlotInv, RegistryInv, ShimInv, QueueInv, SettleInv
    <2>7. QED
      BY <2>1, <2>2, <2>3, <2>4, <2>5, <2>6
  <1>13. ASSUME NEW a \in Threads, AttachLock(a) PROVE AsyncInv'
    <2>1. TokenTypes'
      <3>1. apc' \in [Threads -> {"idle", "lookup", "make", "claim", "push",
                                 "check", "lock", "attach"}]
        <4>1. GoOn(a, "attach") \/ GoOn(a, "idle")
          BY <1>13 DEF AttachLock
        <4>2. QED
          BY <4>1 DEF GoOn, TokenTypes
      <3>2. slotLock' \in [Tokens -> Threads \cup {Nil}]
        BY <1>13 DEF AttachLock, TokenTypes
      <3>3. QED
        BY <1>13, <3>1, <3>2 DEF AttachLock, TokenTypes, threadVars
    <2> DEFINE t == request[a].token
    <2>2. SlotInv'
      <3>1. CASE state[t] # "pending"
        BY <1>13, <3>1 DEF AttachLock, GoOn, TokenTypes, SlotInv
      <3>2. CASE state[t] = "pending"
        <4>1. settled[t] = Nil /\ t \in Tokens
          BY <3>2 DEF TokenTypes, SettleInv
        <4>2. QED
          BY <1>13, <3>2, <4>1 DEF AttachLock, GoOn, TokenTypes, SlotInv
      <3>3. QED
        BY <3>1, <3>2
    <2>3. RegistryInv'
      BY <1>13 DEF AttachLock, GoOn, TokenTypes, SlotInv, RegistryInv, ShimInv, QueueInv, SettleInv
    <2>4. ShimInv'
      <3>1. \A b \in Threads : apc'[b] \in {"lookup", "make", "claim", "push"} => apc'[b] = apc[b]
        BY <1>13 DEF AttachLock, GoOn, TokenTypes
      <3>2. UNCHANGED <<route, state, promise, consumed, request>>
        BY <1>13 DEF AttachLock
      <3>3. QED
        BY <3>1, <3>2 DEF ShimInv
    <2>5. QueueInv'
      <3>1. \A b \in Threads : apc'[b] = "push" => apc[b] = "push"
        BY <1>13 DEF AttachLock, GoOn, TokenTypes
      <3>2. UNCHANGED <<policy, state, payload, pending, batch, settled, request, accepted>>
        BY <1>13 DEF AttachLock, regVars, heapVars
      <3>3. QED
        BY <3>1, <3>2 DEF QueueInv, Payload
    <2>6. SettleInv'
      BY <1>13 DEF AttachLock, GoOn, TokenTypes, SlotInv, RegistryInv, ShimInv, QueueInv, SettleInv
    <2>7. QED
      BY <2>1, <2>2, <2>3, <2>4, <2>5, <2>6
  <1>14. ASSUME NEW a \in Threads, AttachPush(a) PROVE AsyncInv'
    <2>1. TokenTypes'
      BY <1>14 DEF AttachPush, GoOn, TokenTypes, Payloads, Kinds, Handles, Flags
    <2>2. SlotInv'
      BY <1>14 DEF AttachPush, GoOn, TokenTypes, SlotInv, RegistryInv, SettleInv
    <2>3. RegistryInv'
      BY <1>14 DEF AttachPush, GoOn, TokenTypes, SlotInv, RegistryInv, ShimInv, QueueInv, SettleInv
    <2>4. ShimInv'
      BY <1>14 DEF AttachPush, GoOn, TokenTypes, RegistryInv, ShimInv, QueueInv, SettleInv
    <2>5. QueueInv'
      BY <1>14 DEF AttachPush, GoOn, TokenTypes, SlotInv, RegistryInv, ShimInv, QueueInv, SettleInv, Payload
    <2>a. request[a].token \in Tokens /\ settled[request[a].token] = Nil
      BY <1>14 DEF AttachPush, TokenTypes, SlotInv
    <2>b. /\ \A u \in Tokens : u # request[a].token =>
                 handles'[u] = handles[u] /\ attached'[u] = attached[u]
          /\ handles'[request[a].token] = attached'[request[a].token]
      <3> DEFINE h == [by |-> a, flags |-> request[a].flags]
      <3>1. /\ handles' = [handles EXCEPT ![request[a].token] = @ \cup {h}]
            /\ attached' = [attached EXCEPT ![request[a].token] = @ \cup {h}]
        BY <1>14 DEF AttachPush
      <3>2. handles[request[a].token] = attached[request[a].token]
        BY <2>a DEF SettleInv
      <3> HIDE DEF h
      <3>3. QED
        BY <2>a, <3>1, <3>2 DEF TokenTypes
    <2>c. UNCHANGED <<state, settling, promise, settled, disposed, accepted>>
      BY <1>14 DEF AttachPush
    <2>6. SettleInv'
      BY <2>a, <2>b, <2>c DEF SettleInv
    <2>7. QED
      BY <2>1, <2>2, <2>3, <2>4, <2>5, <2>6
  <1>15. CASE Drain
    <2>1. TokenTypes'
      BY <1>15 DEF Drain, MainIdle, TokenTypes, Payloads, Kinds, Handles, Flags
    <2>2. SlotInv'
      BY <1>15 DEF Drain, MainIdle, TokenTypes, SlotInv, RegistryInv, SettleInv
    <2>3. RegistryInv'
      BY <1>15 DEF Drain, MainIdle, TokenTypes, SlotInv, RegistryInv, ShimInv, QueueInv, SettleInv
    <2>4. ShimInv'
      BY <1>15 DEF Drain, MainIdle, TokenTypes, RegistryInv, ShimInv, QueueInv, SettleInv
    <2>5. QueueInv'
      BY <1>15 DEF Drain, MainIdle, TokenTypes, SlotInv, RegistryInv, ShimInv, QueueInv, SettleInv, Payload
    <2>6. SettleInv'
      BY <1>15 DEF Drain, MainIdle, TokenTypes, SlotInv, RegistryInv, ShimInv, QueueInv, SettleInv
    <2>7. QED
      BY <2>1, <2>2, <2>3, <2>4, <2>5, <2>6
  <1>16. ASSUME NEW t \in Tokens, SettleToken(t) PROVE AsyncInv'
    <2>a. payload[t] # Nil /\ payload[t] \in Payloads /\ settled[t] = Nil /\ state[t] = "queued"
          /\ accepted[t] = {payload[t]} /\ promise[t] = "pending"
      BY <1>16 DEF SettleToken, TokenTypes, RegistryInv, QueueInv, SettleInv
    <2>b. {h \in handles[t] : payload[t] # Nil /\ CleanupMask(payload[t].kind) \in h.flags}
              \subseteq Handles
      BY DEF TokenTypes
    <2>1. TokenTypes'
      BY <1>16, <2>a, <2>b DEF SettleToken, TokenTypes
    <2>2. SlotInv'
      BY <1>16 DEF SettleToken, TokenTypes, SlotInv, RegistryInv, SettleInv
    <2>3. RegistryInv'
      BY <1>16 DEF SettleToken, TokenTypes, SlotInv, RegistryInv, ShimInv, QueueInv, SettleInv
    <2>4. ShimInv'
      BY <1>16 DEF SettleToken, TokenTypes, RegistryInv, ShimInv, QueueInv, SettleInv
    <2>5. QueueInv'
      BY <1>16 DEF SettleToken, TokenTypes, SlotInv, RegistryInv, ShimInv, QueueInv, SettleInv, Payload
    <2>6. SettleInv'
      BY <1>16 DEF SettleToken, TokenTypes, SlotInv, RegistryInv, ShimInv, QueueInv, SettleInv
    <2>7. QED
      BY <2>1, <2>2, <2>3, <2>4, <2>5, <2>6
  <1>17. ASSUME NEW t \in Tokens, Release(t) PROVE AsyncInv'
    <2>1. TokenTypes'
      BY <1>17 DEF Release, TokenTypes, Payloads, Kinds, Handles, Flags
    <2>2. SlotInv'
      BY <1>17 DEF Release, TokenTypes, SlotInv, RegistryInv, SettleInv
    <2>a. settled[t] # Nil /\ promise[t] \in {"settled", "freed"} /\ state[t] = "queued"
      BY <1>17 DEF Release, SettleInv
    <2>3. RegistryInv'
      BY <1>17, <2>a DEF Release, TokenTypes, RegistryInv
    <2>4. ShimInv'
      BY <1>17 DEF Release, TokenTypes, RegistryInv, ShimInv, QueueInv, SettleInv
    <2>5. QueueInv'
      BY <1>17 DEF Release, TokenTypes, SlotInv, RegistryInv, ShimInv, QueueInv, SettleInv, Payload
    <2>6. SettleInv'
      BY <1>17 DEF Release, TokenTypes, SlotInv, RegistryInv, ShimInv, QueueInv, SettleInv
    <2>7. QED
      BY <2>1, <2>2, <2>3, <2>4, <2>5, <2>6
  <1>18. CASE UNCHANGED asyncvars
    BY <1>18 DEF asyncvars, TokenTypes, SlotInv, RegistryInv, ShimInv, QueueInv, SettleInv, Payload
  <1>19. QED
    BY <1>1, <1>2, <1>3, <1>4, <1>5, <1>6, <1>7, <1>8, <1>9, <1>10, <1>11, <1>12, <1>13, <1>14, <1>15, <1>16, <1>17, <1>18 DEF TokenNext, CallStep, MainStep, Quiet

(* The inductive invariant of the tokens, for any number of tokens and threads. *)
THEOREM AsyncInvariant == TokenSpec => []AsyncInv
  BY AsyncInit, AsyncStep, PTL DEF TokenSpec

(* However many threads race to complete a token, one call is accepted and the
   promise is settled with its payload. *)
THEOREM CompletedExactlyOnce == TokenSpec => []ExactlyOnce
  <1>1. AsyncInv => ExactlyOnce
    <2> SUFFICES ASSUME QueueInv, SettleInv, NEW t \in Tokens
                 PROVE /\ \A p, q \in accepted[t] : p = q
                       /\ settled[t] # Nil => settled[t] \in accepted[t]
      BY DEF AsyncInv, ExactlyOnce
    <2>1. \A p, q \in accepted[t] : p = q
      BY DEF QueueInv
    <2>2. settled[t] # Nil => accepted[t] = {settled[t]}
      BY DEF SettleInv
    <2>3. QED
      BY <2>1, <2>2
  <1>2. QED
    BY <1>1, AsyncInvariant, PTL

(* The handles of a completed token were disposed as their flags say. *)
THEOREM HandlesAreDisposed == TokenSpec => []HandlesFollowSettlement
  <1>1. AsyncInv => HandlesFollowSettlement
    BY AsyncAssumption DEF AsyncInv, TokenTypes, SettleInv, HandlesFollowSettlement
  <1>2. QED
    BY <1>1, AsyncInvariant, PTL

(* No promise is freed while native code or the queue holds its address. *)
THEOREM PromiseOutlivesToken == TokenSpec => []NeverFreedEarly
  <1>1. AsyncInv => NeverFreedEarly
    BY DEF AsyncInv, QueueInv, SettleInv, NeverFreedEarly
  <1>2. QED
    BY <1>1, AsyncInvariant, PTL
============================================================================
