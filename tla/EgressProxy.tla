---------------------------- MODULE EgressProxy ----------------------------
(***************************************************************************)
(* egress_proxy.EgressProxy: the accept loop with its semaphore, and one   *)
(* handler thread per connection that reads a request, decides, logs and   *)
(* relays.  A step is one socket operation, one log write or one semaphore *)
(* operation, so the threads interleave wherever the code can be preempted.*)
(*                                                                         *)
(* External: the peers (client and upstream), which may close at any time  *)
(* and read at their own pace, and the kernel's send buffers.              *)
(***************************************************************************)
EXTENDS Integers, Sequences, FiniteSets

CONSTANTS Conns,          \* the connections clients open
          Hosts,          \* the destinations requests name
          Allowed,        \* the hosts for which host_allowed(host, allowlist) is true
          Modes,          \* the modes it may be started in; all but "observe" enforce
          MaxConcurrent,  \* MAX_CONCURRENT
          BufCap,         \* chunks a kernel send buffer takes before it would block
          MaxChunks       \* bound: chunks each side of a connection ever sends

ASSUME ProxyAssumption ==
          /\ Allowed \subseteq Hosts
          /\ MaxConcurrent \in Nat \ {0}
          /\ BufCap \in Nat \ {0}
          /\ MaxChunks \in Nat
          /\ "?" \notin Hosts
          /\ IsFiniteSet(Conns)

Sides == {"client", "upstream"}

VARIABLES pc,        \* pc[c]: where the handler of c is
          req,       \* req[c]: the request it read, [kind, host]
          up,        \* up[c]: the upstream socket: "none", "open" or "closed"
          log,       \* log[c]: the lines written for c, [decision, host], in order
          gone,      \* gone[c]: the sides that closed or reset
          pending,   \* pending[c][s]: chunks side s may still send
          buf,       \* buf[c][s]: chunks in the send buffer towards side s
          sent,      \* sent[c]: chunks handed to the upstream socket
          sem,       \* self._sem
          stopped,   \* self._stop
          mode       \* self.mode

proxyVars == <<pc, req, up, log, gone, pending, buf, sent, sem, stopped, mode>>
peers == <<gone, pending, buf>>
sockets == <<gone, pending, buf, sent>>

NoReq == [kind |-> "none", host |-> "?"]

\* decide: observe forwards everything, every other mode what is allowed.
Decide(host) ==
    IF mode = "observe" THEN "forward"
    ELSE IF host \in Allowed THEN "forward" ELSE "block"

Verdict == IF mode = "observe" THEN "observe-forward" ELSE "allow"

VerdictClose == IF mode = "observe" THEN "observe-forward-close" ELSE "allow-close"

Line(decision, host) == [decision |-> decision, host |-> host]

\* Threads that hold a permit of the semaphore.
Handling == {c \in Conns : pc[c] \notin {"new", "done", "shed"}}

-----------------------------------------------------------------------------
(* serve_forever *)

\* Mutant of Accept: the result of the non-blocking acquire is ignored.
AcceptUncapped(c) ==
    /\ ~stopped
    /\ pc[c] = "new"
    /\ sem' = sem - 1
    /\ pc' = [pc EXCEPT ![c] = "reading"]
    /\ UNCHANGED <<req, up, log, sockets, stopped, mode>>

Accept(c) ==
    /\ ~stopped
    /\ pc[c] = "new"
    /\ sem > 0
    /\ sem' = sem - 1
    /\ pc' = [pc EXCEPT ![c] = "reading"]
    /\ UNCHANGED <<req, up, log, sockets, stopped, mode>>

\* The cap is reached: 503 and close, on the accept thread.
Shed(c) ==
    /\ ~stopped
    /\ pc[c] = "new"
    /\ sem = 0
    /\ pc' = [pc EXCEPT ![c] = "shed"]
    /\ UNCHANGED <<req, up, log, sockets, sem, stopped, mode>>

\* shutdown closes the listener; handlers under way run on.
Shutdown ==
    /\ ~stopped
    /\ stopped' = TRUE
    /\ UNCHANGED <<pc, req, up, log, sockets, sem, mode>>

-----------------------------------------------------------------------------
(* _handle: the handler leaves through "closing", where conn is closed     *)
(* and the permit released, on every path.                                 *)

\* _log, and on to pc q.
LogAndGo(c, decision, host, q) ==
    /\ log' = [log EXCEPT ![c] = Append(@, Line(decision, host))]
    /\ pc' = [pc EXCEPT ![c] = q]
    /\ UNCHANGED <<req, up, sockets, sem, stopped, mode>>

\* _read_headers: a timeout, an error or more than MAX_HEADER_BYTES is None; a
\* client that closes first yields nothing at all.
ReadNothing(c) ==
    /\ pc[c] = "reading"
    /\ pc' = [pc EXCEPT ![c] = "closing"]
    /\ UNCHANGED <<req, up, log, sockets, sem, stopped, mode>>

ReadOversize(c) ==
    /\ pc[c] = "reading"
    /\ LogAndGo(c, "reject-oversize", "?", "closing")

\* A request line came in; no host where its target does not parse.
ReadRequest(c, kind, host) ==
    /\ pc[c] = "reading"
    /\ req' = [req EXCEPT ![c] = [kind |-> kind, host |-> host]]
    /\ pc' = [pc EXCEPT ![c] = "decide"]
    /\ UNCHANGED <<up, log, sockets, sem, stopped, mode>>

RejectParse(c) ==
    /\ pc[c] = "decide"
    /\ req[c].host = "?"
    /\ LogAndGo(c, "reject-parse", "?", "closing")

Block(c) ==
    /\ pc[c] = "decide"
    /\ req[c].host # "?"
    /\ Decide(req[c].host) = "block"
    /\ LogAndGo(c, "block", req[c].host, "closing")

-----------------------------------------------------------------------------
(* _handle_connect *)

ConnectUpstream(c) ==
    /\ pc[c] = "decide"
    /\ req[c].kind = "CONNECT" /\ req[c].host # "?"
    /\ Decide(req[c].host) = "forward"
    /\ up' = [up EXCEPT ![c] = "open"]
    /\ pc' = [pc EXCEPT ![c] = "established"]
    /\ UNCHANGED <<req, log, sockets, sem, stopped, mode>>

\* 502, logged as a forward all the same.
ConnectFails(c) ==
    /\ pc[c] = "decide"
    /\ req[c].kind = "CONNECT" /\ req[c].host # "?"
    /\ Decide(req[c].host) = "forward"
    /\ LogAndGo(c, Verdict, req[c].host, "closing")

\* The "200 Connection Established" reaches a client that is still there.
SendEstablished(c) ==
    /\ pc[c] = "established"
    /\ "client" \notin gone[c]
    /\ pc' = [pc EXCEPT ![c] = "commit"]
    /\ UNCHANGED <<req, up, log, sockets, sem, stopped, mode>>

\* ... or fails: the upstream socket is closed and the handler returns.
EstablishedFails(c) ==
    /\ pc[c] = "established"
    /\ "client" \in gone[c]
    /\ up' = [up EXCEPT ![c] = "closed"]
    /\ pc' = [pc EXCEPT ![c] = "closing"]
    /\ UNCHANGED <<req, log, sockets, sem, stopped, mode>>

\* Mutant of Commit: the destination is left to the tally to log.
CommitUnlogged(c) ==
    /\ pc[c] = "commit"
    /\ pc' = [pc EXCEPT ![c] = "tunnel"]
    /\ UNCHANGED <<req, up, log, sockets, sem, stopped, mode>>

Commit(c) ==
    /\ pc[c] = "commit"
    /\ LogAndGo(c, Verdict, req[c].host, "tunnel")

-----------------------------------------------------------------------------
(* _tunnel: both sockets are non-blocking, so a send that does not fit the *)
(* buffer raises BlockingIOError, an OSError like a reset.                 *)

Other(s) == IF s = "client" THEN "upstream" ELSE "client"

Readable(c, s) == pending[c][s] > 0 /\ s \notin gone[c]

CanSend(c, s) == s \notin gone[c] /\ buf[c][s] < BufCap

\* A chunk read from s is sent on to the other side.
Relay(c, s) ==
    /\ pc[c] = "tunnel"
    /\ Readable(c, s)
    /\ pending' = [pending EXCEPT ![c][s] = @ - 1]
    /\ CanSend(c, Other(s))
    /\ buf' = [buf EXCEPT ![c][Other(s)] = @ + 1]
    /\ sent' = [sent EXCEPT ![c] = IF s = "client" THEN @ + 1 ELSE @]
    /\ UNCHANGED <<pc, req, up, log, gone, sem, stopped, mode>>

EndTunnel(c) ==
    /\ up' = [up EXCEPT ![c] = "closed"]
    /\ pc' = [pc EXCEPT ![c] = "tally"]
    /\ UNCHANGED <<req, log, gone, buf, sent, sem, stopped, mode>>

\* The send raises: the chunk is lost and the tunnel ends.
RelayFails(c, s) ==
    /\ pc[c] = "tunnel"
    /\ Readable(c, s)
    /\ ~CanSend(c, Other(s))
    /\ pending' = [pending EXCEPT ![c][s] = @ - 1]
    /\ EndTunnel(c)

\* Mutant of TunnelCloses: select has no timeout, so only a close ends it.
TunnelClosesNoIdle(c) ==
    /\ pc[c] = "tunnel"
    /\ gone[c] # {}
    /\ EndTunnel(c)
    /\ UNCHANGED pending

\* A side closed or reset, or neither sent for IDLE_TUNNEL_TIMEOUT.
TunnelCloses(c) ==
    /\ pc[c] = "tunnel"
    /\ EndTunnel(c)
    /\ UNCHANGED pending

Tally(c) ==
    /\ pc[c] = "tally"
    /\ LogAndGo(c, VerdictClose, req[c].host, "closing")

-----------------------------------------------------------------------------
(* _handle_plain and _relay_plain *)

CommitPlain(c) ==
    /\ pc[c] = "decide"
    /\ req[c].kind = "plain" /\ req[c].host # "?"
    /\ Decide(req[c].host) = "forward"
    /\ LogAndGo(c, Verdict, req[c].host, "dial")

Dial(c) ==
    /\ pc[c] = "dial"
    /\ up' = [up EXCEPT ![c] = "open"]
    /\ pc' = [pc EXCEPT ![c] = "send"]
    /\ UNCHANGED <<req, log, sockets, sem, stopped, mode>>

DialFails(c) ==
    /\ pc[c] = "dial"
    /\ pc' = [pc EXCEPT ![c] = "tally"]
    /\ UNCHANGED <<req, up, log, sockets, sem, stopped, mode>>

\* The rebuilt request goes out in one piece, or raises through the finally.
SendPlain(c) ==
    /\ pc[c] = "send"
    /\ \/ /\ "upstream" \notin gone[c]
          /\ sent' = [sent EXCEPT ![c] = @ + 1]
          /\ pc' = [pc EXCEPT ![c] = "relay"]
          /\ UNCHANGED up
       \/ /\ "upstream" \in gone[c]
          /\ up' = [up EXCEPT ![c] = "closed"]
          /\ pc' = [pc EXCEPT ![c] = "tally"]
          /\ UNCHANGED sent
    /\ UNCHANGED <<req, log, peers, sem, stopped, mode>>

\* The client socket blocks here, so a full buffer waits for its reader.
RelayPlain(c) ==
    /\ pc[c] = "relay"
    /\ Readable(c, "upstream")
    /\ CanSend(c, "client")
    /\ pending' = [pending EXCEPT ![c]["upstream"] = @ - 1]
    /\ buf' = [buf EXCEPT ![c]["client"] = @ + 1]
    /\ UNCHANGED <<pc, req, up, log, gone, sent, sem, stopped, mode>>

\* The response ended, a side closed, or a read or a send timed out.
RelayPlainEnds(c) ==
    /\ pc[c] = "relay"
    /\ up' = [up EXCEPT ![c] = "closed"]
    /\ pc' = [pc EXCEPT ![c] = "tally"]
    /\ UNCHANGED <<req, log, sockets, sem, stopped, mode>>

\* Mutant of Release: the permit is not given back.
ReleaseForgotten(c) ==
    /\ pc[c] = "closing"
    /\ pc' = [pc EXCEPT ![c] = "done"]
    /\ UNCHANGED <<req, up, log, sockets, sem, stopped, mode>>

\* _handle's finally closes conn, _handle_wrapped's releases the permit.
Release(c) ==
    /\ pc[c] = "closing"
    /\ sem' = sem + 1
    /\ pc' = [pc EXCEPT ![c] = "done"]
    /\ UNCHANGED <<req, up, log, sockets, stopped, mode>>

-----------------------------------------------------------------------------
(* The peers (external) *)

PeerCloses(c, s) ==
    /\ pc[c] \in {"reading", "decide", "established", "commit", "tunnel", "dial", "send", "relay"}
    /\ s = "upstream" => up[c] = "open"
    /\ s \notin gone[c]
    /\ gone' = [gone EXCEPT ![c] = @ \cup {s}]
    /\ UNCHANGED <<pc, req, up, log, pending, buf, sent, sem, stopped, mode>>

PeerReads(c, s) ==
    /\ pc[c] \in {"tunnel", "relay"}
    /\ s \notin gone[c]
    /\ buf[c][s] > 0
    /\ buf' = [buf EXCEPT ![c][s] = @ - 1]
    /\ UNCHANGED <<pc, req, up, log, gone, pending, sent, sem, stopped, mode>>

-----------------------------------------------------------------------------

ProxyInit ==
    /\ pc = [c \in Conns |-> "new"]
    /\ req = [c \in Conns |-> NoReq]
    /\ up = [c \in Conns |-> "none"]
    /\ log = [c \in Conns |-> <<>>]
    /\ gone = [c \in Conns |-> {}]
    /\ pending = [c \in Conns |-> [s \in Sides |-> MaxChunks]]
    /\ buf = [c \in Conns |-> [s \in Sides |-> 0]]
    /\ sent = [c \in Conns |-> 0]
    /\ sem = MaxConcurrent
    /\ stopped = FALSE
    /\ mode \in Modes

Serve(c) ==
    \/ Accept(c) \/ Shed(c)

Handle(c) ==
    \/ ReadNothing(c) \/ ReadOversize(c)
    \/ \E kind \in {"CONNECT", "plain"}, host \in Hosts \cup {"?"} : ReadRequest(c, kind, host)
    \/ RejectParse(c) \/ Block(c)
    \/ ConnectUpstream(c) \/ ConnectFails(c)
    \/ SendEstablished(c) \/ EstablishedFails(c) \/ Commit(c)
    \/ \E s \in Sides : Relay(c, s) \/ RelayFails(c, s)
    \/ TunnelCloses(c) \/ Tally(c)
    \/ CommitPlain(c) \/ Dial(c) \/ DialFails(c) \/ SendPlain(c)
    \/ RelayPlain(c) \/ RelayPlainEnds(c)
    \/ Release(c)

Peer(c) == \E s \in Sides : PeerCloses(c, s) \/ PeerReads(c, s)

ProxyNext == \/ \E c \in Conns : Serve(c) \/ Handle(c) \/ Peer(c)
        \/ Shutdown

ProxySpec == ProxyInit /\ [][ProxyNext]_proxyVars

\* Every blocking call of a handler carries a timeout, so its thread moves on
\* whatever the peers do; nothing is assumed of the peers or of the accept loop.
ProxyFairSpec == ProxySpec /\ \A c \in Conns : WF_proxyVars(Handle(c))

-----------------------------------------------------------------------------
(* Properties *)

ProxyPcs == {"new", "reading", "decide", "established", "commit", "tunnel", "dial", "send",
        "relay", "tally", "closing", "done", "shed"}

Decisions == {"reject-oversize", "reject-parse", "block", Verdict, VerdictClose}

\* Every variable holds a value of its kind.
ProxyTypeOK ==
    /\ pc \in [Conns -> ProxyPcs]
    /\ req \in [Conns -> [kind : {"none", "CONNECT", "plain"}, host : Hosts \cup {"?"}]]
    /\ up \in [Conns -> {"none", "open", "closed"}]
    /\ log \in [Conns -> Seq([decision : Decisions, host : Hosts \cup {"?"}])]
    /\ gone \in [Conns -> SUBSET Sides]
    /\ pending \in [Conns -> [Sides -> 0..MaxChunks]]
    /\ buf \in [Conns -> [Sides -> 0..BufCap]]
    /\ sent \in [Conns -> Nat]
    /\ sem \in 0..MaxConcurrent
    /\ stopped \in BOOLEAN
    /\ mode \in Modes

\* The semaphore and the handlers account for each other on every path out of
\* a handler, so the proxy neither exceeds its cap nor loses a slot for good.
PermitsConserved == sem + Cardinality(Handling) = MaxConcurrent

Logged(c, decision) == \E k \in 1..Len(log[c]) : log[c][k] = Line(decision, req[c].host)

\* "no silent egress": a byte goes to a destination only when the mode lets it
\* through and only after the line that names the destination is written; not
\* even a connection is made to a host that enforce mode blocks.
EgressAccounted ==
    \A c \in Conns :
       /\ up[c] # "none" => mode = "observe" \/ req[c].host \in Allowed
       /\ sent[c] > 0 => Logged(c, Verdict)

\* When the slot is free again no upstream socket is left open behind it, and
\* a connection that carried bytes has exactly its opening and closing lines.
HandlerCleansUp ==
    \A c \in Conns : pc[c] = "done" =>
       /\ up[c] # "open"
       /\ sent[c] > 0 => log[c] = <<Line(Verdict, req[c].host), Line(VerdictClose, req[c].host)>>

\* A slot is taken by a handler and by nothing else, and given back clean: neither the
\* semaphore nor an upstream socket is lost on any path out of a handler.
SlotsSound == PermitsConserved /\ HandlerCleansUp

\* Whatever the peers do, stalling included, a handler ends and its slot is
\* free again.
HandlerEnds == \A c \in Conns : c \in Handling ~> pc[c] = "done"
=============================================================================
