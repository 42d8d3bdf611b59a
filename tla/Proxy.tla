-------------------------------- MODULE Proxy --------------------------------
(***************************************************************************)
(* One connection to the egress proxy (proxy.py): the request head, the      *)
(* resolution of its target, the connection to it, and then either one       *)
(* request and its response (absolute-form http) or two pipes that carry     *)
(* bytes until one of the peers ends (CONNECT).                              *)
(*                                                                         *)
(* A peer is "up", has ended its own direction ("half": EOF), or is "gone"   *)
(* (reset); it may stop reading for as long as it likes.  The transports to   *)
(* the client and to the server are closed whole.                            *)
(***************************************************************************)
EXTENDS Naturals

CONSTANTS
    Public,     \* addresses _addr_is_public accepts
    Private,    \* and the others
    MaxData,    \* pieces the server sends
    None

ASSUME ProxyAssumption == Public \cap Private = {} /\ None \notin Public /\ MaxData \in Nat

VARIABLES
    method,     \* "connect" or "http"
    allowed,    \* does the head carry the right Proxy-Authorization
    dns,        \* what the target's name resolves to now
    pinned,     \* the address resolve_public returned
    at,         \* where the handler is
    down,       \* the transport to the client
    up,         \* the transport to the server
    peer,       \* the address `up` was opened to
    client,
    server,
    c2u, u2c,   \* the two pipes of a tunnel
    unread,     \* pieces the server sent that nobody has read
    sent,       \* how many it has sent
    slow,       \* the peers that do not read now
    heads       \* status lines written to the client

peers   == <<client, server, unread, sent, slow>>
request == <<method, allowed, dns>>
proxyVars == <<request, pinned, at, down, up, peer, peers, c2u, u2c, heads>>

Sides == {"up", "half", "gone"}
Pipe  == {"off", "run", "full", "ended"}     \* full: in drain(), until the peer reads

ProxyTypeOK ==
    /\ method \in {"connect", "http"} /\ allowed \in BOOLEAN
    /\ dns \in SUBSET (Public \cup Private)
    /\ {pinned, peer} \subseteq Public \cup Private \cup {None}
    /\ at \in {"head", "resolve", "connecting", "confirm", "sending", "relay", "tunnel", "done",
              "crashed"}
    /\ down \in {"open", "closed"} /\ up \in {"none", "open", "closed"}
    /\ {client, server} \subseteq Sides /\ {c2u, u2c} \subseteq Pipe
    /\ unread \in 0..MaxData /\ sent \in 0..MaxData /\ heads \in 0..2
    /\ slow \subseteq {"client", "server"}

ProxyInit ==
    /\ method \in {"connect", "http"} /\ allowed \in BOOLEAN
    /\ dns \in SUBSET (Public \cup Private)
    /\ pinned = None /\ peer = None
    /\ at = "head" /\ down = "open" /\ up = "none"
    /\ client = "up" /\ server = "up"
    /\ c2u = "off" /\ u2c = "off"
    /\ unread = 0 /\ sent = 0 /\ heads = 0 /\ slow = {}

------------------------------------------------------------------------------
(* The two peers, and the name service. *)
Rebind ==
    /\ dns' \in SUBSET (Public \cup Private)
    /\ at \in {"head", "resolve", "connecting"}
    /\ UNCHANGED <<method, allowed, pinned, at, down, up, peer, peers, c2u, u2c, heads>>

ClientEnds ==
    /\ \/ client = "up" /\ client' \in {"half", "gone"}
       \/ client = "half" /\ client' = "gone"
    /\ slow' = IF client' = "gone" THEN slow \ {"client"} ELSE slow
    /\ UNCHANGED <<request, pinned, at, down, up, peer, server, unread, sent, c2u, u2c, heads>>

ServerSends ==
    /\ up = "open" /\ server = "up" /\ sent < MaxData
    /\ sent' = sent + 1 /\ unread' = unread + 1
    /\ UNCHANGED <<request, pinned, at, down, up, peer, client, server, slow, c2u, u2c, heads>>

ServerEnds ==
    /\ up = "open"
    /\ \/ server = "up" /\ server' \in {"half", "gone"}
       \/ server = "half" /\ server' = "gone"
    /\ slow' = IF server' = "gone" THEN slow \ {"server"} ELSE slow
    /\ UNCHANGED <<request, pinned, at, down, up, peer, client, unread, sent, c2u, u2c, heads>>

(* A peer of a tunnel stops reading, its window fills, and it may read on later. *)
Stalls ==
    /\ at = "tunnel"
    /\ \/ client # "gone" /\ slow' = slow \cup {"client"}
       \/ server # "gone" /\ slow' = slow \cup {"server"}
    /\ UNCHANGED <<request, pinned, at, down, up, peer, client, server, unread, sent, c2u, u2c, heads>>

ReadsOn ==
    /\ \E s \in slow : slow' = slow \ {s}
    /\ UNCHANGED <<request, pinned, at, down, up, peer, client, server, unread, sent, c2u, u2c, heads>>

------------------------------------------------------------------------------
Plus1(n) == IF n < 2 THEN n + 1 ELSE n

(* _fail: a status line, and the client's transport is closed.  The server's is not. *)
Fail ==
    /\ heads' = Plus1(heads)
    /\ down' = "closed" /\ at' = "done"

(* The head does not come in 30 s, is too long or cannot be parsed; or the password is
   wrong (407). *)
RefuseHead ==
    /\ at = "head"
    /\ Fail
    /\ UNCHANGED <<request, pinned, up, peer, peers, c2u, u2c>>

AcceptHead ==
    /\ at = "head" /\ client # "gone" /\ allowed
    /\ at' = "resolve"
    /\ UNCHANGED <<request, pinned, down, up, peer, peers, c2u, u2c, heads>>

(* An exception that handle() does not expect: a content-length that is no number, a
   body that ends early.  The task ends; since Python 3.12 its transport is closed. *)
Crash ==
    /\ at' = "crashed"
    /\ down' \in {down, "closed"}
    /\ UNCHANGED heads

(* resolve_public: every address is looked at, the first one is kept. *)
ResolveTarget ==
    /\ at = "resolve"
    /\ \/ dns # {} /\ dns \subseteq Public
          /\ pinned' \in dns
          /\ at' = "connecting" /\ UNCHANGED <<down, heads>>
       \/ ~ (dns # {} /\ dns \subseteq Public) /\ Fail /\ UNCHANGED pinned
       \/ method = "http" /\ Crash /\ UNCHANGED pinned
    /\ UNCHANGED <<request, up, peer, peers, c2u, u2c>>

(* Fault of Opened: the name is given to open_connection, which resolves it again. *)
OpenedByName == dns # {} /\ peer' \in dns /\ up' = "open"
Opened       == peer' = pinned /\ up' = "open"

(* open_connection, or an upstream error or timeout. *)
Connect ==
    /\ at = "connecting"
    /\ \/ /\ Opened
          /\ at' = (IF method = "connect" THEN "confirm" ELSE "sending")
          /\ UNCHANGED <<heads, down>>
       \/ Fail /\ UNCHANGED <<up, peer>>
    /\ UNCHANGED <<request, pinned, peers, c2u, u2c>>

(* The client is told, which never fills its window, and the tunnel is spliced. *)
Confirm ==
    /\ at = "confirm"
    /\ heads' = Plus1(heads) /\ at' = "tunnel"
    /\ c2u' = "run" /\ u2c' = "run"
    /\ UNCHANGED <<request, pinned, down, up, peer, peers>>

(* ... or drain() raises, for the client was lost meanwhile: _fail, and nobody closes the
   writer to the server. *)
ConfirmFails ==
    /\ at = "confirm" /\ client = "gone"
    /\ Fail
    /\ UNCHANGED <<request, pinned, up, peer, peers, c2u, u2c>>

(* _forward: head and body to the server. *)
SendRequest ==
    /\ at = "sending"
    /\ \/ server # "gone" /\ at' = "relay" /\ UNCHANGED <<down, heads>>
       \/ client # "up" /\ Crash
       \/ server = "gone" /\ Fail
    /\ UNCHANGED <<request, pinned, up, peer, peers, c2u, u2c>>

(* One piece of the response to the client, the first one with its status line. *)
RelayPiece ==
    /\ at = "relay" /\ unread > 0 /\ server # "gone"
    /\ unread' = unread - 1
    /\ IF client = "gone" THEN Fail
       ELSE heads' = (IF heads = 0 THEN 1 ELSE heads) /\ UNCHANGED <<at, down>>
    /\ UNCHANGED <<request, pinned, up, peer, client, server, sent, slow, c2u, u2c>>

(* The server is done: its transport is closed, the client's is left as it is. *)
RelayEnds ==
    /\ at = "relay" /\ unread = 0 /\ server = "half"
    /\ up' = "closed" /\ at' = "done"
    /\ UNCHANGED <<request, pinned, down, peer, peers, c2u, u2c, heads>>

(* The server is lost in the middle: an error status follows what was relayed. *)
RelayBreaks ==
    /\ at = "relay" /\ server = "gone"
    /\ Fail
    /\ UNCHANGED <<request, pinned, up, peer, peers, c2u, u2c>>

------------------------------------------------------------------------------
(* The pipes of a tunnel. *)
Joined(a, b) == IF a = "ended" /\ b = "ended" THEN "done" ELSE at

(* read and write of a piece, then drain(): it waits, without a timeout, for a client whose
   window is full.  What was read before the transport was closed is still passed on. *)
PipePiece ==
    /\ u2c = "run" /\ unread > 0 /\ server # "gone"
    /\ unread' = unread - 1
    /\ \/ UNCHANGED u2c
       \/ "client" \in slow /\ u2c' = "full"
    /\ UNCHANGED <<request, pinned, at, down, up, peer, client, server, sent, slow, c2u, heads>>

(* The same for what the client sends, of which only the waiting matters here. *)
ClientPiece ==
    /\ c2u = "run" /\ client # "gone" /\ "server" \in slow
    /\ c2u' = "full"
    /\ UNCHANGED <<request, pinned, at, down, up, peer, peers, u2c, heads>>

(* drain() returns. *)
ClientDrained ==
    /\ u2c = "full" /\ client # "gone" /\ "client" \notin slow
    /\ u2c' = "run"
    /\ UNCHANGED <<request, pinned, at, down, up, peer, peers, c2u, heads>>

ServerDrained ==
    /\ c2u = "full" /\ server # "gone" /\ "server" \notin slow
    /\ c2u' = "run"
    /\ UNCHANGED <<request, pinned, at, down, up, peer, peers, u2c, heads>>

(* Client to server: reading ends, or drain() raises, and the server's transport is closed
   whole. *)
ClientPipeEnds ==
    /\ \/ c2u = "run" /\ (client # "up" \/ down = "closed")
       \/ c2u = "full" /\ server = "gone"
    /\ c2u' = "ended" /\ up' = "closed"
    /\ at' = Joined("ended", u2c)
    /\ UNCHANGED <<request, pinned, down, peer, peers, u2c, heads>>

(* ... or what the client sends cannot be written. *)
ClientWriteFails ==
    /\ c2u = "run" /\ server = "gone"
    /\ c2u' = "ended" /\ up' = "closed"
    /\ at' = Joined("ended", u2c)
    /\ UNCHANGED <<request, pinned, down, peer, peers, u2c, heads>>

(* What ends the other pipe: the end of what the server sent, an error of either peer, or
   its reader's end after the transport was closed from here. *)
ServerPipeOver ==
    \/ /\ u2c = "run"
       /\ \/ server = "half" /\ unread = 0
          \/ server = "gone" \/ up = "closed"
          \/ client = "gone" /\ unread > 0
    \/ u2c = "full" /\ client = "gone"

(* Fault of ServerPipeEnds: the pipe's last pieces are given up with the connection. *)
ServerPipeEndsEarly ==
    /\ u2c = "run" /\ (server # "up" \/ up = "closed")
    /\ u2c' = "ended" /\ down' = "closed"
    /\ at' = Joined(c2u, "ended")
    /\ UNCHANGED <<request, pinned, up, peer, peers, c2u, heads>>

(* Fault of ServerPipeEnds: the writer is left to the other pipe. *)
ServerPipeEndsOpen ==
    /\ ServerPipeOver
    /\ u2c' = "ended"
    /\ at' = Joined(c2u, "ended")
    /\ UNCHANGED <<request, pinned, down, up, peer, peers, c2u, heads>>

ServerPipeEnds ==
    /\ ServerPipeOver
    /\ u2c' = "ended" /\ down' = "closed"
    /\ at' = Joined(c2u, "ended")
    /\ UNCHANGED <<request, pinned, up, peer, peers, c2u, heads>>

Handler ==
    \/ RefuseHead \/ AcceptHead \/ ResolveTarget \/ Connect \/ Confirm \/ ConfirmFails
    \/ SendRequest \/ RelayPiece \/ RelayEnds \/ RelayBreaks
ProxyNext ==
    \/ Rebind \/ ClientEnds \/ ServerSends \/ ServerEnds \/ Stalls \/ ReadsOn
    \/ Handler \/ PipePiece \/ ClientPiece \/ ClientDrained \/ ServerDrained
    \/ ClientPipeEnds \/ ClientWriteFails \/ ServerPipeEnds
ProxySpec == ProxyInit /\ [][ProxyNext]_proxyVars

(* The event loop comes to every pipe that can go on.  That a peer reads is not assumed; and
   a transport that was closed ends its reader only when what it still holds has been read. *)
ProxyFair ==
    /\ WF_proxyVars(PipePiece) /\ WF_proxyVars(ClientDrained) /\ WF_proxyVars(ServerDrained)
    /\ WF_proxyVars(ClientPipeEnds /\ "client" \notin slow)
    /\ WF_proxyVars(ServerPipeEnds /\ "server" \notin slow)

------------------------------------------------------------------------------
(* A connection goes out only for a request that carried the password, and to an address
   that was checked, whatever the name resolves to by then. *)
OnlyPublic == up # "none" => allowed /\ peer \in Public

(* A tunnel whose client stays gets everything the server sent before it ended. *)
NothingCutOff ==
    method = "connect" /\ down = "closed" /\ up # "none" /\ client = "up" /\ server = "half"
        => unread = 0

(* When either peer of a tunnel ends, both transports are closed: neither the tunnel nor one
   of its sockets stays behind, whatever was under way.  Only if from some time on the peers
   that are left do not stop reading: drain() has no timeout (_pipe), so a peer that never
   reads keeps both sockets for ever. *)
TunnelEnds ==
    <>[](slow = {}) =>
        (at = "tunnel" /\ (client # "up" \/ server # "up")
            ~> at = "done" /\ down = "closed" /\ up = "closed")
==============================================================================
