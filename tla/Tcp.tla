-------------------------------- MODULE Tcp --------------------------------
(***************************************************************************)
(* One TCP connection between a DashClient and the DashServerEndpoint that *)
(* serves it, as dash_client.cc and dash_server.cc use it through socket,  *)
(* connect, read, write, close and the epoll server.  The kernel and the   *)
(* base/ library are not part of the repository: this module is external.  *)
(*                                                                         *)
(* The content of a response is never looked at, so the direction to the   *)
(* client is a number of bytes; the direction to the server is a queue of  *)
(* requests, each standing for the five bytes that one SendRequest writes. *)
(***************************************************************************)
EXTENDS Integers, Sequences

CONSTANTS
  Capacity,    (* response bytes that both socket buffers and the link hold *)
  BufferSize,  (* kBufferSize, the most bytes one read or write moves       *)
  Faults       (* the failures the environment may show                     *)

ASSUME TcpAssumption ==
  /\ Capacity \in Nat \ {0}
  /\ BufferSize \in Nat \ {0}
  /\ Faults \subseteq {"connect", "refuse", "server exit", "interrupt"}

VARIABLES
  conn,        (* how far the connection got                                *)
  up,          (* requests written by the client, not yet read              *)
  wire,        (* response bytes written, not yet in the client's buffer    *)
  rcvbuf,      (* response bytes in the client's receive buffer             *)
  clientFin,   (* the client has closed its descriptor                      *)
  serverFin,   (* how far the server's close got                            *)
  clientEdge,  (* an edge-triggered event is due to the client              *)
  serverEdge,  (* an edge-triggered event is due to the endpoint            *)
  reset        (* what the client's RST did to the server's socket          *)

tcpVars == <<conn, up, wire, rcvbuf, clientFin, serverFin, clientEdge, serverEdge, reset>>

TcpTypeOK ==
  /\ conn \in {"none", "syn", "established", "refused"}
  /\ up \in Seq(Nat)
  /\ wire \in Nat
  /\ rcvbuf \in Nat
  /\ clientFin \in BOOLEAN
  /\ serverFin \in {"none", "sent", "arrived"}
  /\ clientEdge \in BOOLEAN
  /\ serverEdge \in BOOLEAN
  /\ reset \in {"none", "error", "broken"}

TcpInit ==
  /\ conn = "none"
  /\ up = <<>>
  /\ wire = 0
  /\ rcvbuf = 0
  /\ clientFin = FALSE
  /\ serverFin = "none"
  /\ clientEdge = FALSE
  /\ serverEdge = FALSE
  /\ reset = "none"

Least(a, b) == IF a <= b THEN a ELSE b

(* Room left for the server's write; a write into no room returns -1.      *)
Free == Capacity - wire - rcvbuf

(* The client's close(): the endpoint sees FIN; when bytes are unread they *)
(* are gone, and the endpoint sees RST, an error that one call reports.    *)
ClientSocketClosed(unread) ==
  /\ clientFin' = TRUE
  /\ rcvbuf' = 0
  /\ serverEdge' = TRUE
  /\ reset' = IF unread > 0 THEN "error" ELSE reset

(* A call reports the error once: after it, as after an RST that follows a *)
(* FIN, the end of the stream is read, and a write raises SIGPIPE.  On a   *)
(* descriptor that the server has closed it does not matter.               *)
ErrorReported == reset' = IF reset = "error" THEN "broken" ELSE reset

(* Some of the bytes under way arrive.  A closed socket drops them, and    *)
(* answers with RST.                                                       *)
Deliver ==
  \E n \in 1 .. wire :
    /\ wire' = wire - n
    /\ rcvbuf' = IF clientFin THEN 0 ELSE rcvbuf + n
    /\ reset' = IF clientFin /\ reset = "none" THEN "broken" ELSE reset
    /\ clientEdge' = TRUE
    /\ UNCHANGED <<conn, up, clientFin, serverFin, serverEdge>>

(* The server's FIN arrives after every byte that was written before it.   *)
DeliverFin ==
  /\ serverFin = "sent"
  /\ wire = 0
  /\ serverFin' = "arrived"
  /\ clientEdge' = TRUE
  /\ UNCHANGED <<conn, up, wire, rcvbuf, clientFin, serverEdge, reset>>

(* The kernel of the server completes the handshake, before any accept.    *)
Establish ==
  /\ conn = "syn"
  /\ conn' = "established"
  /\ clientEdge' = TRUE
  /\ UNCHANGED <<up, wire, rcvbuf, clientFin, serverFin, serverEdge, reset>>

(* Nobody listens at the address: epoll reports EPOLLERR and EPOLLHUP.     *)
Refuse ==
  /\ "refuse" \in Faults
  /\ conn = "syn"
  /\ conn' = "refused"
  /\ clientEdge' = TRUE
  /\ UNCHANGED <<up, wire, rcvbuf, clientFin, serverFin, serverEdge, reset>>

Network == Establish \/ Refuse \/ Deliver \/ DeliverFin
============================================================================
