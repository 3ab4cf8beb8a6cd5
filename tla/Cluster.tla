------------------------------ MODULE Cluster ------------------------------
(***************************************************************************)
(* node:cluster under SCHED_RR, for one shared address.  The primary owns  *)
(* the listening socket: its accept thread passes each connection to the   *)
(* next worker of the rotation over that worker's IPC socketpair, its main *)
(* thread answers the workers' queryServer messages and turns the events   *)
(* of the child reactor into disconnect and exit.  In a worker a reader    *)
(* thread sorts the frames, a bridge thread per listening server pulls the *)
(* connections and the server's async loop serves them.                    *)
(***************************************************************************)
EXTENDS Naturals, Sequences, FiniteSets, SequencesExt, FiniteSetsExt

CONSTANTS Workers,
          MaxConns,    \* bound: connections clients open
          MaxListens,  \* bound: listen() calls of a worker
          BufCap,      \* the capacity of the bridge's channel, 256 in the code
          MaxSlow,     \* bound: queries the primary answers after 10 seconds
          MaxKills,    \* bound: workers that die by themselves
          MayClose,    \* servers may be closed
          MayLeave,    \* channels may be disconnected
          MayFail      \* the primary's bind may fail

(* What the constants are. *)
ASSUME ClusterAssumption ==
  /\ IsFiniteSet(Workers)
  /\ {MaxConns, MaxSlow, MaxKills} \subseteq Nat /\ {MaxListens, BufCap} \subseteq Nat \ {0}
  /\ {MayClose, MayLeave, MayFail} \subseteq BOOLEAN

VARIABLES proc,     \* worker -> none, live or dead
          kid,      \* worker -> its LiveChild and ChildProcess fields
          down,     \* worker -> frames written to it and not read yet
          up,       \* worker -> queries written by it and not read yet
          shut,     \* worker -> its socketpair is shut down
          readerP,  \* worker -> the primary's reader thread runs
          reaped,   \* worker -> the primary's wait thread has seen it end
          evq, batch, pump, fin, \* the child reactor of the primary
          imm,      \* the primary's immediates
          log,      \* history: worker -> the events the program has seen
          bound, rot, idx, next, \* PrimaryKey and the accept thread
          lis, query, gen,       \* worker -> its listen() in progress
          left,     \* worker -> it has disconnected itself
          inbox, closed, \* FdInbox
          srv, buf, bridge, \* <<worker, listen>> -> server, channel, thread
          served, gone, leaked, \* what became of the connections
          slow, kills,
          since     \* history: worker -> connections passed to others since its
                    \* last one, it joined or some worker was removed

reactor == <<kid, readerP, reaped, evq, batch, pump, fin, imm, log>>
key     == <<bound, rot, idx, next, since>>
wire    == <<down, up, shut>>
listens == <<lis, query, gen, left>>
serving == <<inbox, closed, srv, buf, bridge, served, gone, leaked>>
bounds  == <<slow, kills>>
clustervars == <<proc, reactor, key, wire, listens, serving, bounds>>

Conns   == 1 .. MaxConns
Servers == Workers \X (1 .. MaxListens)
Fd(c)   == [type |-> "fd", val |-> c]
Reply(ok) == [type |-> "reply", val |-> IF ok THEN 1 ELSE 0]
Frames  == [type : {"fd"}, val : Conns] \cup [type : {"reply"}, val : {0, 1}]
Fds(s)  == {s[i].val : i \in {j \in DOMAIN s : s[j].type = "fd"}}

NewKid == [map |-> TRUE, spawned |-> FALSE, connected |-> TRUE, send |-> TRUE,
           exited |-> FALSE, exitEmitted |-> FALSE, marked |-> FALSE]
NoKid  == [NewKid EXCEPT !.map = FALSE, !.connected = FALSE, !.send = FALSE]
Idle   == [pc |-> "none", fd |-> 0]

ClusterInit ==
  /\ proc = [w \in Workers |-> "none"] /\ kid = [w \in Workers |-> NoKid]
  /\ down = [w \in Workers |-> <<>>] /\ up = [w \in Workers |-> 0]
  /\ shut = [w \in Workers |-> FALSE]
  /\ readerP = [w \in Workers |-> FALSE] /\ reaped = [w \in Workers |-> FALSE]
  /\ evq = <<>> /\ batch = <<>> /\ pump = "idle" /\ fin = {} /\ imm = <<>>
  /\ log = [w \in Workers |-> <<>>]
  /\ bound = FALSE /\ rot = <<>> /\ idx = 0 /\ next = 1
  /\ lis = [w \in Workers |-> "idle"] /\ query = [w \in Workers |-> "none"]
  /\ gen = [w \in Workers |-> 0] /\ left = [w \in Workers |-> FALSE]
  /\ inbox = [w \in Workers |-> <<>>] /\ closed = [w \in Workers |-> FALSE]
  /\ srv = [s \in Servers |-> "none"] /\ buf = [s \in Servers |-> <<>>]
  /\ bridge = [s \in Servers |-> Idle]
  /\ served = {} /\ gone = {} /\ leaked = [w \in Workers |-> {}]
  /\ slow = 0 /\ kills = 0
  /\ since = [w \in Workers |-> 0]

-----------------------------------------------------------------------------
(* The primary's main thread: fork, the reactor's pump, immediates. *)

Fork(w) ==
  /\ pump = "idle" /\ proc[w] = "none"
  /\ proc' = [proc EXCEPT ![w] = "live"]
  /\ kid' = [kid EXCEPT ![w] = NewKid]
  /\ readerP' = [readerP EXCEPT ![w] = TRUE]
  /\ UNCHANGED <<reaped, evq, batch, pump, fin, imm, log, key, wire, listens, serving, bounds>>

(* cp_ipc_send_fd and the reply's write succeed. *)
Sendable(w) == kid[w].map /\ kid[w].send /\ proc[w] = "live" /\ ~shut[w]

(* worker.disconnect() in the primary; `disconnect` on the worker object *)
(* follows in an immediate.  A call whose channel is gone only emits      *)
(* `disconnect` once more, which Mark makes void for the cluster; it is   *)
(* left out.                                                              *)
Disconnect(w) ==
  /\ MayLeave /\ pump = "idle" /\ kid[w].map /\ kid[w].send
  /\ shut' = [shut EXCEPT ![w] = TRUE]
  /\ kid' = [kid EXCEPT ![w].send = FALSE, ![w].connected = FALSE]
  /\ imm' = Append(imm, <<"left", w>>)
  /\ UNCHANGED <<proc, readerP, reaped, evq, batch, pump, fin, log, key, down, up, listens,
                 serving, bounds>>

(* The IPC reader thread of worker w: its queries in order, then the close. *)
ReaderP(w) ==
  /\ readerP[w]
  /\ \/ /\ up[w] > 0
        /\ up' = [up EXCEPT ![w] = @ - 1]
        /\ evq' = Append(evq, <<"query", w>>) /\ UNCHANGED readerP
     \/ /\ up[w] = 0 /\ (shut[w] \/ proc[w] = "dead")
        /\ readerP' = [readerP EXCEPT ![w] = FALSE]
        /\ evq' = Append(evq, <<"closed", w>>) /\ UNCHANGED up
  /\ UNCHANGED <<proc, kid, reaped, batch, pump, fin, imm, log, key, down, shut, listens, serving,
                 bounds>>

(* The thread that waits for the child process. *)
Waiter(w) ==
  /\ proc[w] = "dead" /\ ~reaped[w]
  /\ reaped' = [reaped EXCEPT ![w] = TRUE]
  /\ evq' = Append(evq, <<"exited", w>>)
  /\ UNCHANGED <<proc, kid, readerP, batch, pump, fin, imm, log, key, wire, listens, serving, bounds>>

Unspawned == {w \in Workers : kid[w].map /\ ~kid[w].spawned}

(* Phase 0: a pump that emits `spawn` delivers nothing else. *)
PumpSpawn ==
  /\ pump = "idle" /\ Unspawned # {}
  /\ kid' = [w \in Workers |-> [kid[w] EXCEPT !.spawned = @ \/ w \in Unspawned]]
  /\ UNCHANGED <<proc, readerP, reaped, evq, batch, pump, fin, imm, log, key, wire, listens,
                 serving, bounds>>

(* Phase A takes what is queued; later events wait for the next pump. *)
PumpStart ==
  /\ pump = "idle" /\ Unspawned = {}
  /\ evq # <<>> \/ \E w \in Workers : kid[w].map /\ kid[w].exited
  /\ batch' = evq /\ evq' = <<>> /\ pump' = "drain"
  /\ UNCHANGED <<proc, kid, readerP, reaped, fin, imm, log, key, wire, listens, serving, bounds>>

(* mark_worker_disconnected: the cluster's `disconnect`, once, in an immediate *)
Mark(i, w) == IF kid[w].marked THEN i ELSE Append(i, <<"disconnect", w>>)

(* Mutant, a mistaken PumpClosed: the channel's end drops the child from the registry. *)
PumpClosedForgets(w) ==
  /\ IF kid[w].map /\ kid[w].connected
     THEN /\ kid' = [kid EXCEPT ![w].connected = FALSE, ![w].send = FALSE, ![w].marked = TRUE,
                                ![w].map = FALSE]
          /\ log' = [log EXCEPT ![w] = Append(@, "worker disconnect")]
          /\ imm' = Mark(imm, w)
     ELSE UNCHANGED <<kid, log, imm>>
  /\ UNCHANGED <<pump, key, down>>

(* CpEvent::IpcClosed *)
PumpClosed(w) ==
  /\ IF kid[w].map /\ kid[w].connected
     THEN /\ kid' = [kid EXCEPT ![w].connected = FALSE, ![w].send = FALSE, ![w].marked = TRUE]
          /\ log' = [log EXCEPT ![w] = Append(@, "worker disconnect")]
          /\ imm' = Mark(imm, w)
     ELSE UNCHANGED <<kid, log, imm>>
  /\ UNCHANGED <<pump, key, down>>

(* CpEvent::Exited *)
PumpExited(w) ==
  /\ kid' = [kid EXCEPT ![w].exited = @ \/ kid[w].map]
  /\ UNCHANGED <<log, imm, pump, key, down>>

(* primary_handle_query: the first query binds and starts the accept thread, *)
(* every query adds its worker once.  The reply is a step of its own. *)
PumpQuery(w) ==
  /\ IF ~kid[w].map THEN UNCHANGED <<bound, rot, idx, since, pump>>
     ELSE \/ /\ bound' = TRUE /\ pump' = "yes"
             /\ rot' = IF w \in Range(rot) THEN rot ELSE Append(rot, w)
             /\ since' = IF w \in Range(rot) THEN since ELSE [since EXCEPT ![w] = 0]
             /\ UNCHANGED idx
          \/ /\ ~bound /\ MayFail
             /\ pump' = "no" /\ UNCHANGED <<bound, rot, idx, since>>
  /\ UNCHANGED <<kid, log, imm, down, next>>

PumpEvent ==
  /\ pump = "drain" /\ batch # <<>>
  /\ LET w == Head(batch)[2]
     IN CASE Head(batch)[1] = "query" -> /\ PumpQuery(w)
                                         /\ batch' = IF kid[w].map THEN batch ELSE Tail(batch)
          [] Head(batch)[1] = "closed" -> PumpClosed(w) /\ batch' = Tail(batch)
          [] OTHER -> PumpExited(w) /\ batch' = Tail(batch)
  /\ UNCHANGED <<proc, readerP, reaped, evq, fin, up, shut, listens, serving, bounds>>

(* primary_handle_query_server writes the reply. *)
PumpReply ==
  /\ pump \in {"yes", "no"}
  /\ LET w == Head(batch)[2]
     IN down' = IF Sendable(w) THEN [down EXCEPT ![w] = Append(@, Reply(pump = "yes"))] ELSE down
  /\ batch' = Tail(batch) /\ pump' = "drain"
  /\ UNCHANGED <<proc, kid, readerP, reaped, evq, fin, imm, log, key, up, shut, listens, serving,
                 bounds>>

(* Phase B: `exit` once a child has exited, `close` at the next pump.     *)
(* Workers inherit the primary's stdio (`silent` is false), so no stream  *)
(* of theirs is waited for.                                               *)
PumpCollect ==
  /\ pump = "drain" /\ batch = <<>>
  /\ fin' = {w \in Workers : kid[w].map /\ kid[w].spawned /\ kid[w].exited}
  /\ pump' = "finish"
  /\ UNCHANGED <<proc, kid, readerP, reaped, evq, batch, imm, log, key, wire, listens, serving,
                 bounds>>

(* primary_remove_worker *)
RemoveWorker(w) ==
  LET r == RemoveFirst(rot, w)
  IN /\ rot' = r
     /\ idx' = IF w \in Range(rot) /\ idx >= (IF r = <<>> THEN 1 ELSE Len(r)) THEN 0 ELSE idx
     /\ since' = IF w \in Range(rot) THEN [v \in Workers |-> 0] ELSE since
     /\ UNCHANGED <<bound, next>>

(* Mutant, a mistaken ExitImmediates: without the fallback for a close still unread. *)
ExitImmediatesBare(w) == Append(imm, <<"exit", w>>)

(* cluster_internal_exit: the fallback disconnect, then the exit *)
ExitImmediates(w) == Append(Mark(imm, w), <<"exit", w>>)

(* cluster_internal_exit, on the worker's `exit` *)
PumpExit(w) ==
  /\ pump = "finish" /\ w \in fin /\ ~kid[w].exitEmitted
  /\ fin' = fin \ {w}
  /\ kid' = [kid EXCEPT ![w].exitEmitted = TRUE, ![w].marked = TRUE]
  /\ log' = [log EXCEPT ![w] = Append(@, "worker exit")]
  /\ imm' = ExitImmediates(w)
  /\ RemoveWorker(w)
  /\ UNCHANGED <<proc, readerP, reaped, evq, batch, pump, wire, listens, serving, bounds>>

(* `close`: the child leaves the registry *)
PumpClose(w) ==
  /\ pump = "finish" /\ w \in fin /\ kid[w].exitEmitted
  /\ fin' = fin \ {w}
  /\ kid' = [kid EXCEPT ![w].map = FALSE]
  /\ UNCHANGED <<proc, readerP, reaped, evq, batch, pump, imm, log, key, wire, listens, serving,
                 bounds>>

PumpDone ==
  /\ pump = "finish" /\ fin = {} /\ pump' = "idle"
  /\ UNCHANGED <<proc, kid, readerP, reaped, evq, batch, fin, imm, log, key, wire, listens, serving,
                 bounds>>

(* One immediate: the emit thunks of cluster.rs and of disconnect(). *)
Immediate ==
  /\ pump = "idle" /\ imm # <<>>
  /\ LET e == Head(imm)[1]
         w == Head(imm)[2]
     IN IF e = "left"
        THEN /\ log' = [log EXCEPT ![w] = Append(@, "worker disconnect")]
             /\ kid' = [kid EXCEPT ![w].marked = TRUE]
             /\ imm' = Mark(Tail(imm), w)
        ELSE /\ log' = [log EXCEPT ![w] = Append(@, e)]
             /\ imm' = Tail(imm) /\ UNCHANGED kid
  /\ UNCHANGED <<proc, readerP, reaped, evq, batch, pump, fin, key, wire, listens, serving, bounds>>

-----------------------------------------------------------------------------
(* The primary's accept thread. *)

(* Mutants, mistaken NextIndexes: the rotation does not advance; it does not wrap. *)
NextIndexSame(k) == k
NextIndexUnwrapped(k) == k + 1

(* The rotation goes on behind the worker at place k (from 0). *)
NextIndex(k) == (k + 1) % Len(rot)

(* accept, then dispatch_fd_round_robin: the first worker from rr_index on *)
(* whose channel takes the connection; it is closed when there is none. *)
Accept ==
  /\ bound /\ next <= MaxConns
  /\ next' = next + 1
  /\ LET n     == Len(rot)
         at(o) == (idx + o) % n
         takes == {o \in 0 .. n - 1 : Sendable(rot[at(o) + 1])}
     IN IF takes = {}
        THEN gone' = gone \cup {next} /\ UNCHANGED <<down, idx, since>>
        ELSE LET k == at(Min(takes))
                 w == rot[k + 1]
             IN /\ down' = [down EXCEPT ![w] = Append(@, Fd(next))]
                /\ idx' = NextIndex(k)
                /\ since' = [v \in Workers |-> IF v \in Range(rot) \ {w} THEN since[v] + 1 ELSE 0]
                /\ UNCHANGED gone
  /\ UNCHANGED <<proc, reactor, bound, rot, up, shut, listens, inbox, closed, srv, buf, bridge,
                 served, leaked, bounds>>

-----------------------------------------------------------------------------
(* A worker's main thread. *)

(* server.listen(): worker_query_listen sends the query, or fails at once and *)
(* the server binds for itself. *)
Listen(w) ==
  /\ proc[w] = "live" /\ lis[w] = "idle" /\ gen[w] < MaxListens
  /\ \A g \in 1 .. MaxListens : srv[<<w, g>>] # "open"
  /\ gen' = [gen EXCEPT ![w] = @ + 1]
  /\ IF left[w] \/ shut[w]
     THEN /\ srv' = [srv EXCEPT ![<<w, gen[w] + 1>>] = "own"]
          /\ UNCHANGED <<lis, query, up>>
     ELSE /\ query' = [query EXCEPT ![w] = "pending"]
          /\ lis' = [lis EXCEPT ![w] = "asking"]
          /\ up' = [up EXCEPT ![w] = @ + 1]
          /\ UNCHANGED srv
  /\ UNCHANGED <<proc, reactor, key, down, shut, left, inbox, closed, buf, bridge, served, gone,
                 leaked, bounds>>

(* The reply is there: spawn_rr_inject_loop, or the server's own bind. *)
Answer(w) ==
  LET s == <<w, gen[w]>>
  IN /\ proc[w] = "live" /\ lis[w] = "asking" /\ query[w] \in {"yes", "no"}
     /\ lis' = [lis EXCEPT ![w] = "idle"] /\ query' = [query EXCEPT ![w] = "none"]
     /\ srv' = [srv EXCEPT ![s] = IF query[w] = "yes" THEN "open" ELSE "own"]
     /\ bridge' = [bridge EXCEPT ![s].pc = IF query[w] = "yes" THEN "check" ELSE @]
     /\ UNCHANGED <<proc, reactor, key, wire, gen, left, inbox, closed, buf, served, gone, leaked,
                    bounds>>

(* Ten seconds without a reply: the server binds for itself. *)
Timeout(w) ==
  /\ proc[w] = "live" /\ lis[w] = "asking" /\ query[w] = "pending"
  /\ closed[w] \/ slow < MaxSlow
  /\ slow' = IF closed[w] THEN slow ELSE slow + 1
  /\ lis' = [lis EXCEPT ![w] = "idle"] /\ query' = [query EXCEPT ![w] = "none"]
  /\ srv' = [srv EXCEPT ![<<w, gen[w]>>] = "own"]
  /\ UNCHANGED <<proc, reactor, key, wire, gen, left, inbox, closed, buf, bridge, served, gone,
                 leaked, kills>>

(* server.close() drops shutdown_tx. *)
ServerClose(s) ==
  /\ MayClose /\ proc[s[1]] = "live" /\ lis[s[1]] = "idle" /\ srv[s] = "open"
  /\ srv' = [srv EXCEPT ![s] = "closing"]
  /\ UNCHANGED <<proc, reactor, key, wire, listens, inbox, closed, buf, bridge, served, gone,
                 leaked, bounds>>

(* process.disconnect() in the worker *)
SelfDisconnect(w) ==
  /\ MayLeave /\ proc[w] = "live" /\ lis[w] = "idle" /\ ~left[w]
  /\ left' = [left EXCEPT ![w] = TRUE] /\ shut' = [shut EXCEPT ![w] = TRUE]
  /\ UNCHANGED <<proc, reactor, key, down, up, lis, query, gen, serving, bounds>>

(* The process ends: the kernel closes the connections it holds. *)
End(w) ==
  LET s == {t \in Servers : t[1] = w}
      mine == Fds(down[w]) \cup Range(inbox[w]) \cup leaked[w]
              \cup (UNION {Range(buf[t]) : t \in s})
              \cup {bridge[t].fd : t \in {u \in s : bridge[u].pc = "send"}}
  IN /\ proc' = [proc EXCEPT ![w] = "dead"]
     /\ gone' = gone \cup mine
     /\ down' = [down EXCEPT ![w] = <<>>] /\ inbox' = [inbox EXCEPT ![w] = <<>>]
     /\ leaked' = [leaked EXCEPT ![w] = {}]
     /\ buf' = [t \in Servers |-> IF t \in s THEN <<>> ELSE buf[t]]
     /\ bridge' = [t \in Servers |-> IF t \in s THEN Idle ELSE bridge[t]]
     /\ srv' = [t \in Servers |-> IF t \in s THEN "none" ELSE srv[t]]
     /\ lis' = [lis EXCEPT ![w] = "idle"] /\ query' = [query EXCEPT ![w] = "none"]
     /\ UNCHANGED <<reactor, key, up, shut, gen, left, closed, served, slow>>

(* js_process_ipc_drain: the channel closed and the worker did not close it. *)
Quit(w) ==
  /\ proc[w] = "live" /\ lis[w] = "idle" /\ closed[w] /\ ~left[w]
  /\ End(w) /\ UNCHANGED kills

WorkerDies(w) ==
  /\ proc[w] = "live" /\ kills < MaxKills
  /\ kills' = kills + 1
  /\ End(w)

-----------------------------------------------------------------------------
(* A worker's reader thread, bridge threads and async loops. *)

(* fd_cv.notify_all *)
Notify(w) ==
  bridge' = [s \in Servers |-> IF s[1] = w /\ bridge[s].pc = "parked"
                               THEN [bridge[s] EXCEPT !.pc = "check"] ELSE bridge[s]]

(* Mutant, a mistaken Route: a connection is queued and nobody is told. *)
RouteSilent(w) ==
  /\ IF Head(down[w]).type = "fd"
     THEN inbox' = [inbox EXCEPT ![w] = Append(@, Head(down[w]).val)] /\ UNCHANGED query
     ELSE /\ query' = [query EXCEPT ![w] = IF @ = "none" THEN @
                                           ELSE IF Head(down[w]).val = 1 THEN "yes" ELSE "no"]
          /\ UNCHANGED inbox
  /\ UNCHANGED bridge

(* drain_json_frames: a connection goes to the inbox, a reply to its query *)
(* if that is still asked. *)
Route(w) ==
  IF Head(down[w]).type = "fd"
  THEN inbox' = [inbox EXCEPT ![w] = Append(@, Head(down[w]).val)] /\ Notify(w) /\ UNCHANGED query
  ELSE /\ query' = [query EXCEPT ![w] = IF @ = "none" THEN @
                                        ELSE IF Head(down[w]).val = 1 THEN "yes" ELSE "no"]
       /\ UNCHANGED <<inbox, bridge>>

ReaderW(w) ==
  /\ proc[w] = "live" /\ ~closed[w] /\ down[w] # <<>>
  /\ Route(w)
  /\ down' = [down EXCEPT ![w] = Tail(@)]
  /\ UNCHANGED <<proc, reactor, key, up, shut, lis, gen, left, closed, srv, buf, served, gone,
                 leaked, bounds>>

(* Mutants, mistaken Drains: the connections of the inbox are forgotten; the bridges *)
(* are not woken. *)
DrainForgets(w) == UNCHANGED gone /\ Notify(w)
DrainSilent(w)  == gone' = gone \cup Range(inbox[w]) /\ UNCHANGED bridge

(* The end of worker_recv_loop closes what nobody has pulled, and wakes all. *)
Drain(w) == gone' = gone \cup Range(inbox[w]) /\ Notify(w)

ReaderWEnd(w) ==
  /\ proc[w] = "live" /\ ~closed[w] /\ down[w] = <<>> /\ shut[w]
  /\ closed' = [closed EXCEPT ![w] = TRUE]
  /\ Drain(w)
  /\ inbox' = [inbox EXCEPT ![w] = <<>>]
  /\ UNCHANGED <<proc, reactor, key, wire, listens, srv, buf, served, leaked, bounds>>

(* worker_recv_fd of a bridge thread: one pass under the inbox lock. *)
BridgeRecv(s) ==
  LET w == s[1]
  IN /\ proc[w] = "live" /\ bridge[s].pc = "check"
     /\ IF inbox[w] # <<>>
        THEN /\ bridge' = [bridge EXCEPT ![s] = [pc |-> "send", fd |-> Head(inbox[w])]]
             /\ inbox' = [inbox EXCEPT ![w] = Tail(@)]
        ELSE /\ bridge' = [bridge EXCEPT ![s].pc = IF closed[w] THEN "ended" ELSE "parked"]
             /\ UNCHANGED inbox
     /\ UNCHANGED <<proc, reactor, key, wire, listens, closed, srv, buf, served, gone, leaked,
                    bounds>>

(* blocking_send; once the loop has gone the number of the descriptor is *)
(* dropped, and the connection stays open. *)
BridgeSend(s) ==
  /\ proc[s[1]] = "live" /\ bridge[s].pc = "send"
  /\ \/ /\ srv[s] \in {"open", "closing"} /\ Len(buf[s]) < BufCap
        /\ buf' = [buf EXCEPT ![s] = Append(@, bridge[s].fd)]
        /\ bridge' = [bridge EXCEPT ![s] = [pc |-> "check", fd |-> 0]] /\ UNCHANGED leaked
     \/ /\ srv[s] = "closed"
        /\ leaked' = [leaked EXCEPT ![s[1]] = @ \cup {bridge[s].fd}]
        /\ bridge' = [bridge EXCEPT ![s] = [pc |-> "ended", fd |-> 0]] /\ UNCHANGED buf
  /\ UNCHANGED <<proc, reactor, key, wire, listens, inbox, closed, srv, served, gone, bounds>>

(* The async loop of spawn_rr_inject_loop takes a connection. *)
Serve(s) ==
  /\ srv[s] \in {"open", "closing"} /\ buf[s] # <<>>
  /\ served' = served \cup {Head(buf[s])}
  /\ buf' = [buf EXCEPT ![s] = Tail(@)]
  /\ UNCHANGED <<proc, reactor, key, wire, listens, inbox, closed, srv, bridge, gone, leaked, bounds>>

(* The loop ends: at close(), with what is buffered dropped, or after the *)
(* bridge has. *)
LoopEnd(s) ==
  /\ \/ srv[s] = "closing"
     \/ srv[s] = "open" /\ bridge[s].pc = "ended" /\ buf[s] = <<>>
  /\ srv' = [srv EXCEPT ![s] = "closed"]
  /\ leaked' = [leaked EXCEPT ![s[1]] = @ \cup Range(buf[s])]
  /\ buf' = [buf EXCEPT ![s] = <<>>]
  /\ UNCHANGED <<proc, reactor, key, wire, listens, inbox, closed, bridge, served, gone, bounds>>

-----------------------------------------------------------------------------
Primary ==
  \/ PumpSpawn \/ PumpStart \/ PumpEvent \/ PumpReply \/ PumpCollect \/ PumpDone \/ Immediate
  \/ \E w \in Workers : PumpExit(w) \/ PumpClose(w)

Worker(w) ==
  \/ Answer(w) \/ Timeout(w) \/ ReaderW(w) \/ ReaderWEnd(w) \/ Quit(w)

Server(s) == BridgeRecv(s) \/ BridgeSend(s) \/ Serve(s) \/ LoopEnd(s)

ClusterNext ==
  \/ Primary \/ Accept
  \/ \E w \in Workers : \/ Fork(w) \/ Disconnect(w) \/ ReaderP(w) \/ Waiter(w) \/ Worker(w)
                        \/ Listen(w) \/ SelfDisconnect(w) \/ WorkerDies(w)
  \/ \E s \in Servers : Server(s) \/ ServerClose(s)

(* Every thread keeps running and the loops of both processes keep turning; *)
(* the program and its clients need not do anything. *)
ClusterFairness ==
  /\ WF_clustervars(Primary)
  /\ \A w \in Workers : /\ WF_clustervars(ReaderP(w)) /\ WF_clustervars(Waiter(w))
                        /\ WF_clustervars(ReaderW(w) \/ ReaderWEnd(w))
                        /\ WF_clustervars(Answer(w) \/ Timeout(w) \/ Quit(w))
  /\ \A s \in Servers : /\ WF_clustervars(BridgeRecv(s) \/ BridgeSend(s))
                        /\ WF_clustervars(Serve(s) \/ LoopEnd(s))

ClusterSpec == ClusterInit /\ [][ClusterNext]_clustervars
ClusterFairSpec == ClusterSpec /\ ClusterFairness

-----------------------------------------------------------------------------
(* The state of the two processes keeps its types; a bridge's channel keeps *)
(* its bound. *)
ClusterTypes ==
  /\ proc \in [Workers -> {"none", "live", "dead"}]
  /\ \A w \in Workers : down[w] \in Seq(Frames) /\ inbox[w] \in Seq(Conns)
  /\ pump \in {"idle", "drain", "yes", "no", "finish"} /\ fin \subseteq Workers
  /\ idx \in 0 .. Cardinality(Workers) /\ (rot # <<>> => idx < Len(rot))
  /\ Range(rot) \subseteq Workers /\ IsInjective(rot)
  /\ query \in [Workers -> {"none", "pending", "yes", "no"}]
  /\ srv \in [Servers -> {"none", "own", "open", "closing", "closed"}]
  /\ \A s \in Servers : Len(buf[s]) <= BufCap

Places(c) ==
  {<<"down", w>> : w \in {v \in Workers : c \in Fds(down[v])}}
    \cup {<<"inbox", w>> : w \in {v \in Workers : c \in Range(inbox[v])}}
    \cup {<<"leaked", w>> : w \in {v \in Workers : c \in leaked[v]}}
    \cup {<<"buf", s>> : s \in {t \in Servers : c \in Range(buf[t])}}
    \cup {<<"bridge", s>> : s \in {t \in Servers : bridge[t].pc = "send" /\ bridge[t].fd = c}}
    \cup (IF c \in served THEN {<<"served", c>>} ELSE {})
    \cup (IF c \in gone THEN {<<"gone", c>>} ELSE {})

(* The descriptor of an accepted connection is in one place: never handed to *)
(* two workers or servers, never forgotten by a queue that is emptied *)
(* (dispatch_fd_round_robin, worker_recv_loop). *)
OneOwner == \A c \in Conns : c < next => Cardinality(Places(c)) = 1

(* Round robin (dispatch_fd_round_robin): while no worker is removed, one that *)
(* can take connections is passed over by at most one for each other worker. *)
RotationFair ==
  \A w \in Workers : w \in Range(rot) /\ Sendable(w) => since[w] < Cardinality(Workers)

Ordered(s, d, e) ==
  /\ Cardinality({i \in DOMAIN s : s[i] = d}) <= 1 /\ Cardinality({i \in DOMAIN s : s[i] = e}) <= 1
  /\ \A i \in DOMAIN s : s[i] = e => \E j \in 1 .. i - 1 : s[j] = d

(* The cluster's events of a worker (mark_worker_disconnected and *)
(* cluster_internal_exit): `disconnect` once, before `exit`, even when the *)
(* channel's end is read after the process's. *)
ClusterOrder == \A w \in Workers : Ordered(log[w], "disconnect", "exit")

(* The cluster: a connection has one owner, the events of a worker come in *)
(* their order, the rotation passes nobody over.                           *)
ClusterIsSafe == ClusterTypes /\ OneOwner /\ ClusterOrder /\ RotationFair

(* Connections and workers are bounded, so what must happen to each of them *)
(* is stated as: again and again, it has happened to all. *)

(* A connection that is passed to a worker is served there or closed *)
(* (worker_recv_fd, spawn_rr_inject_loop), also when it came before the reply. *)
Delivered == []<>(\A c \in Conns : c < next => c \in served \cup gone)

(* The close of the channel reaches every bridge thread (worker_recv_fd). *)
BridgesEnd ==
  []<>(\A s \in Servers : closed[s[1]] => \/ bridge[s].pc \in {"none", "ended"}
                                         \/ proc[s[1]] = "dead")

(* The death of a worker reaches the program as `exit` (cp_reactor_pump). *)
ExitSeen == []<>(\A w \in Workers : proc[w] = "dead" => "exit" \in Range(log[w]))

-----------------------------------------------------------------------------
(* What texts of the repository claim and the code does not keep: no run     *)
(* checks these, README section 7 tells how each of them fails.              *)

(* What mark_worker_disconnected says of both: once "on both the worker object *)
(* and the cluster", in "the Node-mandated disconnect->exit order". *)
WorkerOrder == \A w \in Workers : Ordered(log[w], "worker disconnect", "worker exit")

(* primary_remove_worker says it drops "a dead worker from every key's *)
(* rotation so the accept loop stops targeting it". *)
DeadLeave == \A w \in Workers : kid[w].exitEmitted => w \notin Range(rot)

(* spawn_rr_inject_loop says its thread parks "for the server's lifetime": no *)
(* thread of a closed server takes a connection from the one that listens now. *)
ServerKeeps ==
  [][\A w \in Workers : leaked'[w] # leaked[w] /\ proc'[w] = "live"
        => \A g \in 1 .. MaxListens : srv[<<w, g>>] # "open"]_clustervars
=============================================================================
