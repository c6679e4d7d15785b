---------------------------- MODULE RequestStream ----------------------------
(***************************************************************************)
(* RTSPRequestStream: cuts what arrives on a connection into requests.     *)
(*                                                                         *)
(* Bytes are known by their place in what the client means to say: Script  *)
(* gives the lengths of its messages, and a byte is a number counted from  *)
(* the start of the first.  A tunnelled connection is base64 encoded, so   *)
(* that Group bytes of it carry Plain.  The reader of a request takes its  *)
(* body with Read, from the bytes the stream has put back and then from    *)
(* the socket.  A POST connection may take the place of the one before it; *)
(* its client begins with the message that was not complete.               *)
(***************************************************************************)
EXTENDS Naturals, Sequences, FiniteSetsExt, SequencesExt

CONSTANTS
    Script,       \* the messages: [head, body], their lengths
    BufferSize,   \* kRequestBufferSizeInBytes
    Group, Plain, \* lengths of encoded and decoded units
    MaxPosts      \* POST connections that are bound, one after the other

ASSUME StreamAssumption ==
    /\ Script \in Seq([head : Nat \ {0}, body : Nat])
    /\ {BufferSize, Group, Plain} \subseteq Nat \ {0} /\ MaxPosts \in Nat

VARIABLES
    start,        \* the byte at fRequest.Ptr[0]
    len,          \* fRequest.Len
    complete,     \* fRequestPtr is set
    retreat,      \* fRetreatBytes
    retreatRead,  \* fRetreatBytesRead
    cur,          \* fCurOffset
    encoded,      \* fEncodedBytesRemaining
    taken,        \* bytes of the present connection taken off its socket
    origin,       \* the byte that connection began with
    posts,        \* POST connections bound so far; the first turns fDecode on
    message,      \* the message being read or served
    unread,       \* fRequestBodyLen: what is left of its body
    busy,         \* the request is being served, with the read mutex
    gone,         \* the request was too long and the connection is closed
    raw,          \* history: an encoded body was read off the socket
    rebound       \* history: a POST was bound while put back bytes of a body had been read

requestVars == <<start, len, complete, retreat, retreatRead, cur, encoded, taken, origin,
                 posts, message, unread, busy, gone, raw, rebound>>

\* Where the k-th message begins.
Begin(k) ==
    LET sum[i \in 0..Len(Script)] ==
            IF i = 0 THEN 0 ELSE sum[i - 1] + Script[i].head + Script[i].body
    IN  sum[k - 1]

End      == Begin(Len(Script) + 1)
Decode   == posts > 0
Decoded(n) == IF Decode THEN (n \div Group) * Plain ELSE n
Arriving   == (IF Decode THEN ((End - origin) \div Plain) * Group ELSE End) - taken

\* The first byte that is not in the buffer yet.
Frontier == origin + Decoded(taken)

RequestInit ==
    /\ start = 0 /\ len = 0 /\ complete = FALSE /\ retreat = 0 /\ retreatRead = 0
    /\ cur = 0 /\ encoded = 0 /\ taken = 0 /\ origin = 0 /\ posts = 0
    /\ message = 1 /\ unread = 0 /\ busy = FALSE
    /\ gone = FALSE /\ raw = FALSE /\ rebound = FALSE

RequestTypeOK ==
    /\ {start, len, retreat, retreatRead, cur, encoded, taken, origin, unread} \subseteq Nat
    /\ posts \in 0..MaxPosts /\ message \in 1..(Len(Script) + 1)
    /\ {complete, busy, gone, raw, rebound} \subseteq BOOLEAN

Open == ~gone /\ ~raw

\* The end of an iteration of ReadRequest: n bytes are in fRequest.Ptr, room bytes of the
\* buffer are used, and a message is whole when its header is there.  What follows the
\* header is put back.
Parse(n, room) ==
    IF message <= Len(Script) /\ n >= Script[message].head
    THEN /\ complete' = TRUE /\ busy' = TRUE
         /\ len' = Script[message].head
         /\ retreat' = n - len'
         /\ unread' = Script[message].body
         /\ UNCHANGED gone
    ELSE /\ len' = n /\ retreat' = 0
         /\ gone' = (room = BufferSize - 1) /\ complete' = gone'
         /\ UNCHANGED <<busy, unread>>

\* The bytes of the body that were read are not skipped.
PutBackForgotten(n) == start + n

\* Where the bytes put back begin, behind those Read has taken.
PutBack(n) == start + n + retreatRead

\* The next call after a request: what was put back is moved to the front.
Advance ==
    /\ Open /\ complete /\ ~busy
    /\ start' = IF retreat > 0 /\ len > 0 THEN PutBack(len) ELSE start
    /\ cur' = retreat + encoded /\ retreatRead' = 0
    /\ IF retreat > 0 THEN Parse(retreat, cur')
       ELSE complete' = FALSE /\ len' = 0 /\ UNCHANGED <<retreat, unread, busy, gone>>
    /\ UNCHANGED <<encoded, taken, origin, posts, message, raw, rebound>>

\* New bytes, those of a bound POST first.
Fill(n) ==
    /\ Open /\ ~complete /\ n <= Arriving
    /\ IF retreat > 0 THEN n = retreat ELSE n \in 1..(BufferSize - cur - 1)
    /\ taken' = taken + n /\ cur' = cur + n
    /\ encoded' = IF Decode THEN (encoded + n) % Group ELSE encoded
    /\ start' = IF len = 0 THEN Frontier ELSE start
    /\ Parse(len + Decoded(encoded + n), cur')
    /\ UNCHANGED <<retreatRead, origin, posts, message, raw, rebound>>

\* Read of at most want bytes of the body, of which m come off the socket; these are not decoded.
ReadBody(want, m) ==
    LET back == Min({retreat, want}) IN
    /\ Open /\ busy /\ want <= unread
    /\ m <= Min({want - back, Arriving})
    /\ retreat' = retreat - back /\ retreatRead' = retreatRead + back
    /\ taken' = taken + m /\ unread' = unread - (back + m)
    /\ raw' = (Decode /\ m > 0)
    /\ UNCHANGED <<start, len, complete, cur, encoded, origin, posts, message, busy, gone, rebound>>

\* The request has been answered and its body dumped (CleanupRequest).
CleanUp ==
    /\ Open /\ busy /\ unread = 0
    /\ busy' = FALSE /\ message' = message + 1
    /\ UNCHANGED <<start, len, complete, retreat, retreatRead, cur, encoded, taken, origin,
                   posts, unread, gone, raw, rebound>>

\* SnarfInputSocket: n bytes behind the POST's header were put back by its own stream.  The
\* first POST is bound to a connection that has read its GET and waits.
SnarfRetreat(n) ==
    /\ Open /\ ~busy /\ posts < MaxPosts
    /\ posts = 0 => complete /\ message = 2
    /\ posts' = posts + 1
    /\ origin' = Begin(message) /\ taken' = 0
    /\ n < BufferSize /\ n <= ((End - origin') \div Plain) * Group
    /\ retreat' = n
    /\ complete' = FALSE /\ encoded' = 0 /\ cur' = 0 /\ len' = 0
    /\ rebound' = (rebound \/ retreatRead > 0)
    /\ UNCHANGED <<start, retreatRead, message, unread, busy, gone, raw>>

RequestNext ==
    \/ Advance \/ CleanUp
    \/ \E n \in 1..BufferSize : Fill(n)
    \/ \E want \in 1..Max({1, unread}), m \in 0..BufferSize : ReadBody(want, m)
    \/ \E n \in 0..BufferSize : SnarfRetreat(n)

RequestSpec == RequestInit /\ [][RequestNext]_requestVars

-----------------------------------------------------------------------------

\* Where the next unread byte must be.
Expected ==
    IF busy THEN Begin(message) + Script[message].head + (Script[message].body - unread)
    ELSE Begin(message)

\* The buffer holds the bytes that come next, without a gap up to those on the socket.
InOrder ==
    IF complete THEN /\ retreat > 0 => start + len + retreatRead = Expected
                  /\ Expected + retreat = Frontier
    ELSE len > 0 => start = Expected /\ start + len = Frontier

\* "It handles RTSP pipelining (request headers are produced serially even if multiple
\* headers arrive simultaneously), & RTSP request data" (RTSPRequestStream.h): no byte of
\* a request or body is lost or read twice, as long as no POST is bound after the
\* put back bytes of a body were read.
RequestsInOrder == Open /\ ~rebound => InOrder

\* "completely blow away everything in this current stream, and replace it with the
\* retreat bytes from the other stream" (SnarfRetreat): the same without that condition.
SnarfReplacesAll == Open => InOrder
=============================================================================
