----------------------------- MODULE DashServer -----------------------------
(***************************************************************************)
(* DashServerEndpoint (dash/dash_server.cc): the server's side of one      *)
(* connection.  One step is one system call, so the client and the network *)
(* run between any two reads or writes of a callback.                      *)
(*                                                                         *)
(* spc says where the endpoint's thread is: in the epoll loop ("idle"), in *)
(* the loop of OnReadEvent ("read") or in the loop of Responce             *)
(* ("responce"), which OnReadEvent and OnCanWrite (caller) both run.       *)
(***************************************************************************)
EXTENDS Tcp

VARIABLES
  spc,             (* where the endpoint's thread is                        *)
  caller,          (* who called Responce                                   *)
  outEvent,        (* the event being handled also has EPOLLOUT             *)
  mask,            (* the epoll events fd_ is registered for                *)
  registered,      (* fd_ is known to the epoll server                      *)
  open,            (* fd_ > 0                                               *)
  request_bytes_,  (* requested lengths not yet answered                    *)
  sent_bytes_,     (* bytes already written for the first of them           *)
  destroyed_       (* DeleteSelf has posted the task that deletes it        *)

serverVars == <<spc, caller, outEvent, mask, registered, open, request_bytes_,
                sent_bytes_, destroyed_>>

ServerTypeOK ==
  /\ spc \in {"none", "idle", "read", "responce", "deleted", "exited"}
  /\ caller \in {"OnReadEvent", "OnCanWrite"}
  /\ outEvent \in BOOLEAN
  /\ mask \subseteq {"EPOLLIN", "EPOLLOUT", "EPOLLET"}
  /\ registered \in BOOLEAN
  /\ open \in BOOLEAN
  /\ request_bytes_ \in Seq(Nat)
  /\ sent_bytes_ \in Nat
  /\ destroyed_ \in BOOLEAN

ServerInit ==
  /\ spc = "none"
  /\ caller = "OnCanWrite"
  /\ outEvent = FALSE
  /\ mask = {}
  /\ registered = FALSE
  /\ open = FALSE
  /\ request_bytes_ = <<>>
  /\ sent_bytes_ = 0
  /\ destroyed_ = FALSE

(* The listening socket accepts: the constructor registers the descriptor, *)
(* and what has already arrived counts as an edge.                         *)
CreateEndpoint ==
  /\ spc = "none"
  /\ conn = "established"
  /\ serverEdge' = TRUE
  /\ spc' = "idle"
  /\ open' = TRUE
  /\ registered' = TRUE
  /\ mask' = {"EPOLLIN", "EPOLLET"}
  /\ UNCHANGED <<conn, up, wire, rcvbuf, clientFin, serverFin, clientEdge, reset, caller,
                 outEvent, request_bytes_, sent_bytes_, destroyed_>>

(* Close, which OnUnregistration and OnShutdown call.                      *)
EndpointClose ==
  /\ open' = FALSE
  /\ serverFin' = IF open THEN "sent" ELSE serverFin

(* Whether epoll_wait returns EPOLLIN, and EPOLLOUT.                        *)
EndpointReadable ==
  /\ "EPOLLIN" \in mask
  /\ up # <<>> \/ clientFin
  /\ "EPOLLET" \in mask => serverEdge

EndpointWritable == "EPOLLOUT" \in mask /\ (Free > 0 \/ reset # "none")

(* epoll_wait returns an event: OnReadEvent runs first, OnCanWrite second. *)
EndpointOnEvent ==
  /\ spc = "idle"
  /\ registered
  /\ EndpointReadable \/ EndpointWritable
  /\ spc' = IF EndpointReadable THEN "read" ELSE "responce"
  /\ caller' = "OnCanWrite"
  /\ outEvent' = (EndpointReadable /\ EndpointWritable)
  /\ serverEdge' = FALSE
  /\ UNCHANGED <<conn, up, wire, rcvbuf, clientFin, serverFin, clientEdge, reset, mask,
                 registered, open, request_bytes_, sent_bytes_, destroyed_>>

(* read() returns every request that has arrived; only the first one in    *)
(* the buffer is parsed, the others go with the buffer.                    *)
ReadRequest ==
  /\ spc = "read"
  /\ open
  /\ \E n \in 1 .. Len(up) : up' = SubSeq(up, n + 1, Len(up))
  /\ request_bytes_' = Append(request_bytes_, Head(up))
  /\ mask' = {"EPOLLIN", "EPOLLOUT"}
  /\ spc' = "responce"
  /\ caller' = "OnReadEvent"
  /\ UNCHANGED <<conn, wire, rcvbuf, clientFin, serverFin, clientEdge, serverEdge, reset,
                 outEvent, registered, open, sent_bytes_, destroyed_>>

(* Mutant: the endpoint is deleted without UnregisterFD.                   *)
ReadEndStaysRegistered ==
  /\ spc = "read"
  /\ open
  /\ up = <<>>
  /\ clientFin
  /\ reset # "error"
  /\ EndpointClose
  /\ destroyed_' = TRUE
  /\ UNCHANGED <<conn, up, wire, rcvbuf, clientFin, clientEdge, serverEdge, reset, spc,
                 caller, outEvent, mask, registered, request_bytes_, sent_bytes_>>

(* Mutant: OnUnregistration closes, but does not call DeleteSelf.          *)
ReadEndNoDelete ==
  /\ spc = "read"
  /\ open
  /\ up = <<>>
  /\ clientFin
  /\ reset # "error"
  /\ registered' = FALSE
  /\ EndpointClose
  /\ UNCHANGED <<conn, up, wire, rcvbuf, clientFin, clientEdge, serverEdge, reset, spc,
                 caller, outEvent, mask, request_bytes_, sent_bytes_, destroyed_>>

(* read() returns 0: UnregisterFD calls OnUnregistration, which closes the *)
(* descriptor and posts the deletion; the loop goes on.                    *)
ReadEnd ==
  /\ spc = "read"
  /\ open
  /\ up = <<>>
  /\ clientFin
  /\ reset # "error"
  /\ registered' = FALSE
  /\ EndpointClose
  /\ destroyed_' = TRUE
  /\ UNCHANGED <<conn, up, wire, rcvbuf, clientFin, clientEdge, serverEdge, reset, spc,
                 caller, outEvent, mask, request_bytes_, sent_bytes_>>

(* Mutant: OnReadEvent returns before the socket is drained.               *)
ReadNothingEarly ==
  /\ spc = "read"
  /\ spc' = IF outEvent THEN "responce" ELSE "idle"
  /\ caller' = "OnCanWrite"
  /\ outEvent' = FALSE
  /\ UNCHANGED <<tcpVars, mask, registered, open, request_bytes_, sent_bytes_, destroyed_>>

(* read() returns -1, no data, an error or a closed descriptor:            *)
(* OnReadEvent returns, whatever the error is, and OnEvent goes on to      *)
(* OnCanWrite when the event has EPOLLOUT.                                 *)
ReadNothing ==
  /\ spc = "read"
  /\ ~open \/ (up = <<>> /\ (~clientFin \/ reset = "error"))
  /\ ErrorReported
  /\ spc' = IF outEvent THEN "responce" ELSE "idle"
  /\ caller' = "OnCanWrite"
  /\ outEvent' = FALSE
  /\ UNCHANGED <<conn, up, wire, rcvbuf, clientFin, serverFin, clientEdge, serverEdge, mask,
                 registered, open, request_bytes_, sent_bytes_, destroyed_>>

(* Responce returns: nothing is left, or the socket is full.               *)
ResponceReturn ==
  /\ spc' = IF caller = "OnReadEvent" THEN "read" ELSE "idle"
  /\ UNCHANGED <<conn, up, wire, rcvbuf, clientFin, serverFin, clientEdge, serverEdge, caller,
                 outEvent, mask, registered, open, request_bytes_, sent_bytes_, destroyed_>>

(* Mutant: sent_bytes_ is not reset for the next request.                  *)
AnsweredNoReset(sent) ==
  IF sent = Head(request_bytes_)
  THEN /\ request_bytes_' = Tail(request_bytes_)
       /\ sent_bytes_' = sent
       /\ mask' = IF Tail(request_bytes_) = <<>> THEN {"EPOLLIN"} ELSE mask
  ELSE /\ sent_bytes_' = sent
       /\ UNCHANGED <<request_bytes_, mask>>

(* The first request has had "sent" bytes: it leaves the queue when that   *)
(* is all of it, and the last one to leave gives up EPOLLOUT.              *)
Answered(sent) ==
  IF sent = Head(request_bytes_)
  THEN /\ request_bytes_' = Tail(request_bytes_)
       /\ sent_bytes_' = 0
       /\ mask' = IF Tail(request_bytes_) = <<>> THEN {"EPOLLIN"} ELSE mask
  ELSE /\ sent_bytes_' = sent
       /\ UNCHANGED <<request_bytes_, mask>>

ResponceLeft == Head(request_bytes_) - sent_bytes_

(* write() takes some of the bytes, none for a request of length 0.        *)
ResponceWrite ==
  /\ spc = "responce"
  /\ request_bytes_ # <<>>
  /\ \/ /\ ResponceLeft = 0
        /\ Answered(sent_bytes_)
        /\ UNCHANGED wire
     \/ /\ open
        /\ reset = "none"
        /\ \E n \in 1 .. Least(Least(BufferSize, ResponceLeft), Free) :
             /\ wire' = wire + n
             /\ Answered(sent_bytes_ + n)
  /\ UNCHANGED <<conn, up, rcvbuf, clientFin, serverFin, clientEdge, serverEdge, reset,
                 spc, caller, outEvent, registered, open, destroyed_>>

(* write() returns -1: no room, an error or a closed descriptor.           *)
ResponceFull ==
  /\ spc = "responce"
  /\ request_bytes_ # <<>>
  /\ ResponceLeft > 0
  /\ ~open \/ reset = "error" \/ (reset = "none" /\ Free = 0)
  /\ ErrorReported
  /\ ResponceReturn

(* write() raises SIGPIPE, which nothing handles: the program ends here,   *)
(* with this endpoint and all the others, and no destructor runs.          *)
ResponceBroken ==
  /\ spc = "responce"
  /\ request_bytes_ # <<>>
  /\ ResponceLeft > 0
  /\ open
  /\ reset = "broken"
  /\ spc' = "exited"
  /\ registered' = FALSE
  /\ open' = FALSE
  /\ UNCHANGED <<tcpVars, caller, outEvent, mask, request_bytes_, sent_bytes_, destroyed_>>

ResponceDone ==
  /\ spc = "responce"
  /\ request_bytes_ = <<>>
  /\ UNCHANGED reset
  /\ ResponceReturn

(* The task posted by DeleteSelf runs once the callback has returned.      *)
DeleteTask ==
  /\ spc = "idle"
  /\ destroyed_
  /\ spc' = "deleted"
  /\ UNCHANGED <<tcpVars, caller, outEvent, mask, registered, open, request_bytes_,
                 sent_bytes_, destroyed_>>

(* SIGTERM ends the loop of dash_server_test.cc; the server's destruction  *)
(* shuts its epoll server down, which calls OnShutdown.  A connection that *)
(* was never accepted goes with the listening socket.  A server that is    *)
(* gone before the client connects is the fault "refuse".                  *)
ServerExit ==
  /\ "server exit" \in Faults
  /\ spc \in {"none", "idle"}
  /\ conn # "none"
  /\ spc' = "exited"
  /\ registered' = FALSE
  /\ open' = FALSE
  /\ serverFin' = IF open \/ (spc = "none" /\ conn = "established")
                  THEN "sent" ELSE serverFin
  /\ destroyed_' = (destroyed_ \/ open)
  /\ conn' = IF conn = "syn" THEN "refused" ELSE conn
  /\ clientEdge' = (clientEdge \/ conn = "syn")
  /\ UNCHANGED <<up, wire, rcvbuf, clientFin, serverEdge, reset, caller, outEvent, mask,
                 request_bytes_, sent_bytes_>>

ServerStep ==
  \/ CreateEndpoint
  \/ EndpointOnEvent
  \/ ReadRequest
  \/ ReadEnd
  \/ ReadNothing
  \/ ResponceWrite
  \/ ResponceFull
  \/ ResponceBroken
  \/ ResponceDone
  \/ DeleteTask

-----------------------------------------------------------------------------
(* Between two callbacks, the endpoint waits for EPOLLOUT exactly while a  *)
(* request is unanswered: without it the rest of a response would never be *)
(* sent, with it in vain the level-triggered loop would spin (the          *)
(* ModifyCallback calls of OnReadEvent and Responce).                      *)
WritableWanted ==
  spc = "idle" /\ registered => (request_bytes_ # <<>> <=> "EPOLLOUT" \in mask)

(* The endpoint is deleted only when nothing can call it any more: its     *)
(* descriptor is closed and unknown to the epoll server (OnUnregistration, *)
(* Close and DeleteSelf together).                                         *)
DeletedIsUnreachable ==
  spc = "deleted" => ~registered /\ ~open /\ destroyed_

(* A request or an end of stream that has arrived is never left without an *)
(* event to come, although the descriptor is edge-triggered at first:      *)
(* OnReadEvent drains the socket before it returns.                        *)
RequestNoticed ==
  spc = "idle" /\ registered /\ "EPOLLET" \in mask /\ (up # <<>> \/ clientFin)
    => serverEdge
============================================================================
