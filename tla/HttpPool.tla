------------------------------- MODULE HttpPool -------------------------------
(***************************************************************************)
(* http_connection.cpp: HttpConnectionPool lends keep-alive connections to *)
(* requests of many fibers, and HttpConnection::DoRequest makes one        *)
(* connection per request.  Two faces of a connection matter: the object,  *)
(* which is pooled, lent or deleted, and the stream of bytes, in which the *)
(* answer to an earlier request may still lie.                             *)
(*                                                                         *)
(* A peer reads or does not, answers in order and in as many pieces as it  *)
(* likes, or is silent, or closes; an answer the parser rejects ends       *)
(* recvResponse without a close, and one that is longer than the buffer    *)
(* leaves a rest unread.                                                   *)
(***************************************************************************)
EXTENDS Integers, Sequences, FiniteSets, SequencesExt

CONSTANTS
  MaxConn,     \* bound on the HttpConnection objects at a time
  PoolUser,    \* fibers that call HttpConnectionPool::doRequest
  DirectUser,  \* fibers that call HttpConnection::DoRequest
  Parties,     \* the sets of fibers that make requests together
  MaxRequest,  \* m_maxRequest
  MaxSent      \* bound on the requests made

ASSUME HttpPoolAssumption ==
  /\ MaxConn \in Nat /\ IsFiniteSet(PoolUser) /\ IsFiniteSet(DirectUser)
  /\ PoolUser \cap DirectUser = {} /\ Parties \subseteq SUBSET (PoolUser \cup DirectUser)
  /\ MaxRequest \in Nat /\ MaxSent \in Nat

Conn == 1..MaxConn
User == PoolUser \cup DirectUser
NoConn == 0
Answers == [req : 1..MaxSent, kind : {"part", "ok", "bad", "long"}]

VARIABLES
  conn,    \* the objects there are: a function on a subset of Conn
  conns,   \* m_conns
  total,   \* m_total
  sent,    \* requests made so far
  pc,      \* where each fiber is in its request
  held,    \* the connection of each fiber, or NoConn
  invalid, \* invalid_conns of getConnection
  mine,    \* the request each fiber makes; 0 if none
  got      \* the request that the response it received is an answer to

vars == <<conn, conns, total, sent, pc, held, invalid, mine, got>>

ConnRecord ==
  [connected : BOOLEAN,         \* Socket::m_isConnected
   timed     : BOOLEAN,         \* a receive timeout was set
   request   : Nat,             \* m_request
   closed    : BOOLEAN,         \* the peer closed, or the socket is closed
   out       : Seq(1..MaxSent), \* requests an open peer has not answered
   in        : Seq(Answers),    \* answers, and parts of them, not read yet
   failed    : BOOLEAN]         \* an exchange failed and left it connected

Alive == DOMAIN conn

(* The next object new gives: which one makes no difference. *)
Unused == {c \in Conn \ Alive : \A d \in Conn \ Alive : c <= d}

(* Types of the state. *)
TypeOK ==
  /\ Alive \subseteq Conn /\ conn \in [Alive -> ConnRecord]
  /\ conns \in Seq(Conn) /\ total \in Nat
  /\ sent \in 0..MaxSent
  /\ pc \in [User -> {"absent", "out", "clean", "connect", "send", "blocked", "recv",
                      "release"}]
  /\ held \in [User -> Conn \cup {NoConn}]
  /\ invalid \in [User -> SUBSET Conn]
  /\ mine \in [User -> 0..MaxSent] /\ got \in [User -> 0..MaxSent]

Init ==
  /\ conn = <<>> /\ conns = <<>> /\ total = 0
  /\ sent = 0
  /\ \E P \in Parties : pc = [u \in User |-> IF u \in P THEN "out" ELSE "absent"]
  /\ held = [u \in User |-> NoConn]
  /\ invalid = [u \in User |-> {}]
  /\ mine = [u \in User |-> 0] /\ got = [u \in User |-> 0]

Fresh(timed) ==
  [connected |-> TRUE, timed |-> timed, request |-> 0, closed |-> FALSE,
   out |-> <<>>, in |-> <<>>, failed |-> FALSE]

Go(u, to) == pc' = [pc EXCEPT ![u] = to]

(* The request ends. *)
Leave(u) ==
  /\ Go(u, "out")
  /\ held' = [held EXCEPT ![u] = NoConn]
  /\ mine' = [mine EXCEPT ![u] = 0] /\ got' = [got EXCEPT ![u] = 0]

(* The caller brings a request of its own. *)
NewRequest(u) ==
  /\ sent < MaxSent
  /\ sent' = sent + 1
  /\ mine' = [mine EXCEPT ![u] = sent + 1]

-----------------------------------------------------------------------------
(* getConnection under m_mutex: the first connected one of m_conns, those before
   it being invalid.  m_createTime is never set, so that no other test drops a
   connection. *)
GetConnection(u) ==
  /\ u \in PoolUser /\ pc[u] = "out"
  /\ LET good == SelectInSeq(conns, LAMBDA c : conn[c].connected)
     IN /\ held' = [held EXCEPT ![u] = IF good = 0 THEN NoConn ELSE conns[good]]
        /\ invalid' = [invalid EXCEPT ![u] = IF good = 0 THEN ToSet(conns)
                                              ELSE ToSet(SubSeq(conns, 1, good - 1))]
        /\ conns' = IF good = 0 THEN <<>> ELSE SubSeq(conns, good + 1, Len(conns))
  /\ Go(u, "clean") /\ NewRequest(u)
  /\ UNCHANGED <<conn, total, got>>

(* The deletes and m_total -= after the unlock. *)
Clean(u) ==
  /\ pc[u] = "clean"
  /\ conn' = Restrict(conn, Alive \ invalid[u])
  /\ total' = total - Cardinality(invalid[u])
  /\ invalid' = [invalid EXCEPT ![u] = {}]
  /\ Go(u, IF held[u] = NoConn THEN "connect" ELSE "send")
  /\ UNCHANGED <<conns, sent, held, mine, got>>

(* The rest of getConnection: POOL_GET_CONNECT, or a new connection, which is
   given no receive timeout. *)
Connect(u) ==
  /\ pc[u] = "connect"
  /\ \/ Leave(u) /\ UNCHANGED <<conn, total>>
     \/ \E c \in Unused :
          /\ conn' = conn @@ (c :> Fresh(FALSE))
          /\ held' = [held EXCEPT ![u] = c]
          /\ total' = total + 1
          /\ Go(u, "send")
          /\ UNCHANGED <<mine, got>>
  /\ UNCHANGED <<conns, sent, invalid>>

(* Mutant: the timeout is forgotten. *)
DirectConnectUntimed(u) ==
  /\ u \in DirectUser /\ pc[u] = "out"
  /\ \E c \in Unused :
       /\ conn' = conn @@ (c :> Fresh(FALSE))
       /\ held' = [held EXCEPT ![u] = c]
  /\ Go(u, "send") /\ NewRequest(u)
  /\ UNCHANGED <<conns, total, invalid, got>>

(* HttpConnection::DoRequest up to the send: setRecvTimeout(timeout_ms).  When
   there is no address, no socket or no connection the call returns, and nothing
   has changed. *)
DirectConnect(u) ==
  /\ u \in DirectUser /\ pc[u] = "out"
  /\ \E c \in Unused :
       /\ conn' = conn @@ (c :> Fresh(TRUE))
       /\ held' = [held EXCEPT ![u] = c]
  /\ Go(u, "send") /\ NewRequest(u)
  /\ UNCHANGED <<conns, total, invalid, got>>

(* writeFixSize has written everything; a peer that has closed drops it. *)
Written(u) ==
  /\ conn' = [conn EXCEPT ![held[u]].out = IF conn[held[u]].closed THEN @ ELSE Append(@, mine[u])]
  /\ Go(u, "recv")
  /\ UNCHANGED <<conns, total, sent, held, invalid, mine, got>>

(* A write fails; the connection is not closed. *)
SendFails(u) ==
  /\ pc[u] \in {"send", "blocked"} /\ conn[held[u]].closed
  /\ conn' = [conn EXCEPT ![held[u]].failed = TRUE]
  /\ Go(u, "release")
  /\ UNCHANGED <<conns, total, sent, held, invalid, mine, got>>

(* sendRequest.  A write to a connection the peer has closed may still succeed.  No
   send timeout is set: a write that does not fit waits for the peer to read. *)
Send(u) ==
  /\ pc[u] = "send"
  /\ \/ Written(u)
     \/ /\ ~conn[held[u]].closed
        /\ Go(u, "blocked")
        /\ UNCHANGED <<conn, conns, total, sent, held, invalid, mine, got>>

PartToRead(u) ==
  pc[u] = "recv" /\ conn[held[u]].in # <<>> /\ Head(conn[held[u]].in).kind = "part"

(* A read of recvResponse that does not complete the answer: it reads again, and the
   receive timeout starts anew. *)
RecvPart(u) ==
  /\ PartToRead(u)
  /\ conn' = [conn EXCEPT ![held[u]].in = Tail(@)]
  /\ UNCHANGED <<conns, total, sent, pc, held, invalid, mine, got>>

(* recvResponse has all of an answer to read.  One that the parser rejects, or that does
   not fit, is an error but the connection stays open; the rest of a long one
   stays in the stream. *)
RecvResponse(u) ==
  /\ pc[u] = "recv"
  /\ LET c == held[u]
         answer == Head(conn[c].in)
     IN /\ conn[c].in # <<>>
        /\ \/ /\ answer.kind = "ok"
              /\ got' = [got EXCEPT ![u] = answer.req]
              /\ conn' = [conn EXCEPT ![c].in = Tail(@)]
           \/ /\ answer.kind = "bad"
              /\ conn' = [conn EXCEPT ![c].in = Tail(@), ![c].failed = TRUE]
              /\ UNCHANGED got
           \/ /\ answer.kind = "long"
              /\ conn' = [conn EXCEPT ![c].in = <<[answer EXCEPT !.kind = "bad"]>> \o Tail(@),
                                      ![c].failed = TRUE]
              /\ UNCHANGED got
  /\ Go(u, "release")
  /\ UNCHANGED <<conns, total, sent, held, invalid, mine>>

(* Mutant: a read that fails leaves the connection open. *)
RecvFailsOpen(u) ==
  /\ pc[u] = "recv"
  /\ conn[held[u]].in = <<>>
  /\ conn[held[u]].closed \/ conn[held[u]].timed
  /\ Go(u, "release")
  /\ UNCHANGED <<conn, conns, total, sent, held, invalid, mine, got>>

(* read returns 0 (closed by the peer) or -1 (the receive timeout): close(). *)
RecvFails(u) ==
  /\ pc[u] = "recv"
  /\ conn[held[u]].in = <<>>
  /\ conn[held[u]].closed \/ conn[held[u]].timed
  /\ conn' = [conn EXCEPT ![held[u]].connected = FALSE, ![held[u]].closed = TRUE,
                          ![held[u]].out = <<>>]
  /\ Go(u, "release")
  /\ UNCHANGED <<conns, total, sent, held, invalid, mine, got>>

-----------------------------------------------------------------------------
(* The test of ReleasePtr after ++m_request; the one on the time is never true,
   as m_createTime is 0. *)
Spent(c) == ~conn[c].connected \/ conn[c].request + 1 > MaxRequest

(* Mutant: m_total is not told. *)
ReleasePtrUncounted(u) ==
  /\ u \in PoolUser /\ pc[u] = "release"
  /\ LET c == held[u] IN
     \/ /\ Spent(c)
        /\ conn' = Restrict(conn, Alive \ {c})
        /\ UNCHANGED <<conns, total>>
     \/ /\ ~Spent(c)
        /\ conn' = [conn EXCEPT ![c].request = @ + 1]
        /\ conns' = Append(conns, c)
        /\ UNCHANGED total
  /\ Leave(u)
  /\ UNCHANGED <<sent, invalid>>

(* HttpConnectionPool::ReleasePtr, when the last reference goes. *)
ReleasePtr(u) ==
  /\ u \in PoolUser /\ pc[u] = "release"
  /\ LET c == held[u] IN
     \/ /\ Spent(c)
        /\ conn' = Restrict(conn, Alive \ {c})
        /\ total' = total - 1
        /\ UNCHANGED conns
     \/ /\ ~Spent(c)
        /\ conn' = [conn EXCEPT ![c].request = @ + 1]
        /\ conns' = Append(conns, c)
        /\ UNCHANGED total
  /\ Leave(u)
  /\ UNCHANGED <<sent, invalid>>

(* The end of DoRequest deletes its connection. *)
DirectRelease(u) ==
  /\ u \in DirectUser /\ pc[u] = "release"
  /\ conn' = Restrict(conn, Alive \ {held[u]})
  /\ Leave(u)
  /\ UNCHANGED <<conns, total, sent, invalid>>

-----------------------------------------------------------------------------
(* The peer reads what a write waits for. *)
PeerReads(u) == pc[u] = "blocked" /\ ~conn[held[u]].closed /\ Written(u)

(* The peer sends a piece of the answer to the oldest request. *)
AnswerPart(c) ==
  /\ c \in Alive /\ ~conn[c].closed /\ conn[c].out # <<>>
  /\ conn[c].in # <<>> => Last(conn[c].in).kind # "part"
  /\ conn' = [conn EXCEPT ![c].in = Append(@, [req |-> Head(conn[c].out), kind |-> "part"])]
  /\ UNCHANGED <<conns, total, sent, pc, held, invalid, mine, got>>

(* The peer answers the oldest request, or sends the last piece of the answer. *)
Answer(c) ==
  /\ c \in Alive /\ ~conn[c].closed /\ conn[c].out # <<>>
  /\ \E kind \in {"ok", "bad", "long"} :
       conn' = [conn EXCEPT ![c].out = Tail(@),
                            ![c].in = Append(@, [req |-> Head(conn[c].out), kind |-> kind])]
  /\ UNCHANGED <<conns, total, sent, pc, held, invalid, mine, got>>

(* The peer closes, at any time; what it sent before can still be read. *)
PeerClose(c) ==
  /\ c \in Alive /\ ~conn[c].closed
  /\ conn' = [conn EXCEPT ![c].closed = TRUE, ![c].out = <<>>]
  /\ UNCHANGED <<conns, total, sent, pc, held, invalid, mine, got>>

Step(u) ==
  \/ Clean(u) \/ Connect(u) \/ Send(u) \/ SendFails(u)
  \/ RecvPart(u) \/ RecvResponse(u) \/ RecvFails(u)
  \/ ReleasePtr(u) \/ DirectRelease(u)

Next ==
  \/ \E u \in User : GetConnection(u) \/ DirectConnect(u) \/ Step(u) \/ PeerReads(u)
  \/ \E c \in Conn : AnswerPart(c) \/ Answer(c) \/ PeerClose(c)

Spec == Init /\ [][Next]_vars

(* A fiber goes on when it can: the scheduler runs it, and a receive timeout that
   was set expires.  Nothing is assumed of the peer. *)
FairSpec == Spec /\ \A u \in User : WF_vars(Step(u))

-----------------------------------------------------------------------------
(* getConnection and ReleasePtr, with the deletes outside the lock: a connection
   is in the pool once, or lent to one fiber, or about to be deleted by one, and
   no deleted connection is any of these. *)
OneHolder ==
  \A c \in Conn :
    Cardinality({i \in DOMAIN conns : conns[i] = c})
      + Cardinality({u \in User : held[u] = c})
      + Cardinality({u \in User : c \in invalid[u]}) = (IF c \in Alive THEN 1 ELSE 0)

(* m_total, adjusted outside the lock by three pieces of code, is the number of
   the pool's connections. *)
TotalCounts ==
  total = Cardinality(Alive) - Cardinality({u \in DirectUser : held[u] # NoConn})

(* m_maxSize is never looked at: what keeps the pool small is that a connection is
   made only when none is idle, so that there are never more of them than fibers
   that use the pool. *)
NoMoreThanUsers == total <= Cardinality(PoolUser)

(* ReleasePtr compares with > after the increment, however the exchange ended: a
   connection goes back to the pool m_maxRequest times and serves one request
   more, never two. *)
RequestBound ==
  \A c \in Alive : conn[c].request <= MaxRequest

(* ReleasePtr keeps closed connections out of the pool, so that the next fiber
   gets one it can send on; the search of getConnection never drops one. *)
PoolConnected == \A i \in DOMAIN conns : conn[conns[i]].connected

(* A response is the one to the fiber's own request, on every connection on which
   all exchanges ended well or with a close.  Where a response was rejected, or
   was too long, recvResponse left the connection open, and ReleasePtr puts it
   back: then the property does not hold. *)
OwnResponse ==
  \A u \in User : pc[u] = "release" /\ conn[held[u]].connected /\ ~conn[held[u]].failed =>
                 got[u] = mine[u]

Busy(u) == pc[u] \notin {"absent", "out"}

(* HttpConnection::DoRequest ends, by its receive timeout when the peer is silent,
   in two cases not: while its write waits for a peer that does not read, as no send
   timeout is set, and when the peer sends its answer piece by piece without end, as
   each read has the whole timeout again. *)
DirectRequestEnds ==
  \A u \in DirectUser :
    (Busy(u) ~> pc[u] \in {"out", "blocked"}) \/ []<>PartToRead(u)

(* HttpConnectionPool::doRequest(req, timeout_ms) ends, whatever the peer does. *)
PoolRequestEnds == \A u \in PoolUser : Busy(u) ~> pc[u] = "out"

(* Types, and the books of the pool: who has which connection, how many there are,
   and in which condition they wait in m_conns. *)
PoolInv == TypeOK /\ OneHolder /\ TotalCounts /\ NoMoreThanUsers /\ RequestBound /\ PoolConnected
===============================================================================
