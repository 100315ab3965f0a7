------------------------------ MODULE JsonLines ------------------------------
(***************************************************************************)
(* A conversation over spark's local socket: JSON documents, one per line  *)
(* (common/src/net/mod.rs), commands one way and responses the other       *)
(* (spark-protocol/src/client.rs and server.rs).  Each direction is a pipe *)
(* read by recv_raw through a BufReader, the client's like the server's.   *)
(*                                                                         *)
(* recv_raw looks for a newline in what a BufReader holds.  A BufReader    *)
(* only reads again when it holds nothing, so a line that does not fit, or *)
(* that arrives in parts, comes in pieces that recv_raw collects.  A line  *)
(* is a sequence of blocks that all carry its number in its direction;     *)
(* lengths count blocks.                                                   *)
(***************************************************************************)
EXTENDS Naturals, Sequences, SequencesExt

CONSTANTS
  Commands,   \* bound: commands the client sends
  MaxLength,  \* bound: length of a line, without its newline
  Capacity    \* capacity of a BufReader

ASSUME JsonLinesAssumption ==
  /\ Commands \in Nat \ {0}
  /\ MaxLength \in Nat \ {0}
  /\ Capacity \in Nat \ {0}

Newline == 0
Empty   == 0              \* recv returns an error: the line is no document
NoLen   == Capacity + 1   \* recv_raw's last_len is None
Lengths == 1 .. MaxLength

VARIABLES
  commands,   \* the pipe from the client to the server
  responses,  \* the pipe from the server to the client
  closed      \* the client closed the connection

vars == <<commands, responses, closed>>

\* One direction of the connection, with the recv_raw that reads it.
Pipe ==
  [wire     : Seq(Nat),               \* what was written and not read
   held     : Seq(Nat),               \* what the BufReader holds
   last_len : 0 .. NoLen,             \* recv_raw's last_len, from Some(0)
   buffer   : Seq(Nat \ {Newline}),   \* what recv_raw collected of its line
   lengths  : Seq(Lengths),           \* history: the lengths of the lines written
   taken    : Seq(Nat),               \* history: what each recv returned, the number of a
                                      \* line or Empty
   cut      : SUBSET (Nat \ {0})]     \* history: the recvs whose line came in pieces

TypeOK ==
  /\ commands \in Pipe /\ Len(commands.held) <= Capacity
  /\ responses \in Pipe /\ Len(responses.held) <= Capacity
  /\ closed \in BOOLEAN

NewPipe ==
  [wire |-> <<>>, held |-> <<>>, last_len |-> 0, buffer |-> <<>>,
   lengths |-> <<>>, taken |-> <<>>, cut |-> {}]

Init ==
  /\ commands  = NewPipe
  /\ responses = NewPipe
  /\ closed    = FALSE

-----------------------------------------------------------------------------
(***************************************************************************)
(* A pipe.  The operators with two pipes are steps from p to q.            *)
(***************************************************************************)

\* The document on the i-th line of a pipe, n blocks long.
Document(i, n) == [j \in 1 .. n |-> i]

\* send writes a line of n blocks and flushes it.
Write(p, q, n) ==
  q = [p EXCEPT !.wire    = @ \o Append(Document(Len(p.lengths) + 1, n), Newline),
                !.lengths = Append(@, n)]

\* Where the newline is in s, or 0.
Position(s) == SelectInSeq(s, LAMBDA b : b = Newline)

\* What follows the first n blocks of s.
Consume(s, n) == SubSeq(s, n + 1, Len(s))

\* recv deserializes the line: it is a document that was sent, or an error.
Parse(p, line) ==
  IF \E i \in DOMAIN p.lengths : line = Document(i, p.lengths[i])
  THEN CHOOSE i \in DOMAIN p.lengths : line = Document(i, p.lengths[i])
  ELSE Empty

\* recv_raw returns a line and its guard is dropped: n blocks of what is held are
\* consumed.  The next recv_raw starts afresh.
Return(p, line, n) ==
  [p EXCEPT !.held = Consume(@, n), !.last_len = 0, !.buffer = <<>>,
            !.taken = Append(@, Parse(p, line))]

\* It returns a line that came in pieces.
ReturnCut(p, line, n) ==
  [Return(p, line, n) EXCEPT !.cut = @ \cup {Len(p.taken) + 1}]

-----------------------------------------------------------------------------
(***************************************************************************)
(* Faulty variants of the steps below, each a mistake the code avoids.  No *)
(* specification uses them: they show that the properties at the end of    *)
(* this module can fail.                                                   *)
(***************************************************************************)

\* The last piece of a long line is taken for the line.
CollectLastOnly(p, q) ==
  /\ p.held # <<>>
  /\ ~(p.last_len < Len(p.held))
  /\ Position(p.held) # 0
  /\ LET len == Position(p.held) - 1
     IN q = ReturnCut(p, SubSeq(p.held, 1, len), len)

\* The guard of a line in the BufReader does not consume the newline either.
TakeLineOnly(p, q) ==
  /\ p.held # <<>>
  /\ p.last_len < Len(p.held)
  /\ Position(p.held) # 0
  /\ LET len == Position(p.held) - 1
     IN q = Return(p, SubSeq(p.held, 1, len), len)

\* A line longer than the BufReader is waited for, in the BufReader.
CollectNothing(p, q) ==
  /\ p.held # <<>>
  /\ ~(p.last_len < Len(p.held))
  /\ Position(p.held) # 0
  /\ q = p

-----------------------------------------------------------------------------
(***************************************************************************)
(* recv_raw, one iteration of its loop at a time.                          *)
(***************************************************************************)

\* fill_buf on an empty BufReader reads once: some of what has come, at most its
\* capacity.
FillBuf(p, q) ==
  /\ p.held = <<>>
  /\ \E n \in 1 .. Capacity :
       /\ n <= Len(p.wire)
       /\ q = [p EXCEPT !.held = SubSeq(p.wire, 1, n), !.wire = Consume(@, n)]

\* The line is in the BufReader: the guard borrows it from there, and consumes
\* it with its newline when it is dropped.
TakeLine(p, q) ==
  /\ p.held # <<>>
  /\ p.last_len < Len(p.held)
  /\ Position(p.held) # 0
  /\ LET len == Position(p.held) - 1
     IN q = Return(p, SubSeq(p.held, 1, len), len + 1)

\* No newline yet: remember how much there was.
NoteLength(p, q) ==
  /\ p.held # <<>>
  /\ p.last_len < Len(p.held)
  /\ Position(p.held) = 0
  /\ q = [p EXCEPT !.last_len = Len(p.held)]

\* Nothing new since the last look, and no newline: move it to the buffer.
Collect(p, q) ==
  /\ p.held # <<>>
  /\ ~(p.last_len < Len(p.held))
  /\ Position(p.held) = 0
  /\ q = [p EXCEPT !.buffer = @ \o p.held, !.held = <<>>, !.last_len = NoLen]

\* The rest of a line whose beginning is in the buffer.  The newline itself
\* is not consumed.
CollectLine(p, q) ==
  /\ p.held # <<>>
  /\ ~(p.last_len < Len(p.held))
  /\ Position(p.held) # 0
  /\ LET len == Position(p.held) - 1
     IN q = ReturnCut(p, p.buffer \o SubSeq(p.held, 1, len), len)

Recv(p, q) ==
  \/ FillBuf(p, q)
  \/ TakeLine(p, q)
  \/ NoteLength(p, q)
  \/ Collect(p, q)
  \/ CollectLine(p, q)

-----------------------------------------------------------------------------
(***************************************************************************)
(* The client: one command at a time.                                      *)
(***************************************************************************)

\* client.send writes the line, once it has returned from the one before.
Send(n) ==
  /\ ~closed
  /\ Len(commands.lengths) = Len(responses.taken)
  /\ Len(commands.lengths) < Commands
  /\ Write(commands, commands', n)
  /\ UNCHANGED <<responses, closed>>

\* Then it waits in recv, and returns what recv returns.
ClientRecv ==
  /\ ~closed
  /\ Len(responses.taken) < Len(commands.lengths)
  /\ Recv(responses, responses')
  /\ UNCHANGED <<commands, closed>>

\* The client is dropped, at any time.
Close ==
  /\ ~closed
  /\ closed' = TRUE
  /\ UNCHANGED <<commands, responses>>

-----------------------------------------------------------------------------
(***************************************************************************)
(* The server: it answers what it received before it receives again.       *)
(***************************************************************************)

ServerRecv ==
  /\ Len(commands.taken) = Len(responses.lengths)
  /\ Recv(commands, commands')
  /\ UNCHANGED <<responses, closed>>

\* The i-th response answers the i-th line it took: with the handler's response,
\* or with an error if the line is not the document of a command.
Respond(n) ==
  /\ Len(responses.lengths) < Len(commands.taken)
  /\ Write(responses, responses', n)
  /\ UNCHANGED <<commands, closed>>

-----------------------------------------------------------------------------
Next == \/ \E n \in Lengths : Send(n) \/ Respond(n)
        \/ ClientRecv
        \/ Close
        \/ ServerRecv

Spec == Init /\ [][Next]_vars

\* Either task runs while it has something to read, and the handler returns.
FairSpec ==
  /\ Spec
  /\ WF_vars(ServerRecv)
  /\ WF_vars(ClientRecv)
  /\ WF_vars(\E n \in Lengths : Respond(n))

-----------------------------------------------------------------------------
(***************************************************************************)
(* Properties.                                                             *)
(***************************************************************************)

\* Each line comes out of its pipe once, whole and behind those written before
\* it, whatever its length and wherever the reads cut it: the lines that came
\* out before line i are those from 1 to i - 1.
Intact(p) ==
  \A k \in DOMAIN p.taken :
    p.taken[k] # Empty => {p.taken[j] : j \in 1 .. k - 1} \ {Empty} = 1 .. p.taken[k] - 1

\* So each command is executed once and in order, and no response is lost.
LinesIntact == Intact(commands) /\ Intact(responses)

\* The command that the k-th client.send got the response of, or Empty.
Answered(k) ==
  IF responses.taken[k] = Empty THEN Empty ELSE commands.taken[responses.taken[k]]

\* A command gets its own response if no line before it, either way, came in
\* pieces; it and its response may.  The first on a connection always does, which
\* is all that spark's own client asks.
OwnResponse ==
  \A k \in DOMAIN responses.taken :
    (\A j \in 1 .. k - 1 : j \notin commands.cut /\ j \notin responses.cut) => Answered(k) = k

\* A command gets some response, unless the client leaves first.
EveryCommandAnswered ==
  \A i \in 1 .. Commands :
    Len(commands.lengths) = i ~> Len(responses.taken) >= i \/ closed

\* What the test multiple_commands_get_multiple_responses expects of a
\* connection: each command sent on it gets its own response.
MultipleCommandsGetMultipleResponses == \A k \in DOMAIN responses.taken : Answered(k) = k
=============================================================================
