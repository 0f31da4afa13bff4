---------------------------- MODULE FrameReader ----------------------------
(***************************************************************************)
(* Frames on a connection, and the three loops that take them out of a     *)
(* receive buffer: of a service reading from a client (handle_recv), of a  *)
(* service reading from the other one (handle_message) and of a client     *)
(* (process_client::handle_recv).  A frame is a header of three shorts and *)
(* its data (serialize_message).  The loops keep a pointer into the buffer *)
(* and, separately, an unsigned count of the bytes left to process; they   *)
(* end when the count is exactly zero.                                     *)
(*                                                                         *)
(* What is sent, and read, is modelled by its size.  Once a loop reads a   *)
(* header where none starts, or data that was not received, what it does   *)
(* depends on the bytes it finds there (read_char ends the program when    *)
(* they hold no zero) and is not followed.                                 *)
(***************************************************************************)
EXTENDS Integers, Sequences

CONSTANTS BUFFER,     \* sizeof(recv_buffer), BUFFER_SIZE
          WORD,       \* 2^w for the w bits of unsigned int
          HALF,       \* a short is in -HALF..(HALF - 1)
          TextSizes,  \* sizes of text data, with the terminating zero
          MaxFrames   \* bound: frames sent on the connection

ASSUME ReaderAssumption ==
  /\ BUFFER \in Nat \ {0} /\ MaxFrames \in Nat
  /\ TextSizes \subseteq Nat \ {0}
  /\ WORD \in Nat /\ BUFFER < WORD
  /\ HALF \in Nat /\ BUFFER < HALF

Readers == {"server", "service", "client"}

\* sizeof on Windows.
SHORT == 2
HEADER == 3 * SHORT
SizeOf == [int |-> 4, float |-> 4, double |-> 8, short |-> SHORT, bool |-> 1]

Texts(commands) == [command : commands, type : {"char"}, text : TextSizes]
Plain(commands, types) == [command : commands, type : types, text : {0}]
Messages(command) ==
  Texts({command}) \cup Plain({command}, {"int", "float", "double", "short"})

\* What the other end of the connection sends to each reader.
Frames(reader) ==
  CASE reader = "server" ->
         Messages("ctos_send_message")
         \cup Texts({"ctos_connect_to_queue", "ctos_queue_client_exists"})
    [] reader = "service" ->
         Messages("stos_send_message")
         \cup Plain({"stos_client_connected_to_queue", "stos_client_disconnected_from_queue"},
                    {"short"})
    [] reader = "client" ->
         Messages("stoc_send_message")
         \cup Plain({"stoc_connect_to_queue", "stoc_queue_client_exists"}, {"bool"})

\* serialize_message: the size of the data, and the bytes it writes in all.
DataWritten(f) == IF f.type = "char" THEN f.text ELSE SizeOf[f.type]
Written(f) == HEADER + DataWritten(f)

\* (short)n, for a count n.
AsShort(n) == ((n + HALF) % (2 * HALF)) - HALF

\* A variant of the length in the header that leaves out the terminating zero.
LengthNoZero(f) ==
  CASE f.type = "int" -> SizeOf["float"]
    [] f.type = "float" -> SizeOf["int"]
    [] f.type = "char" -> f.text - 1
    [] OTHER -> SizeOf[f.type]

\* The length it writes into the header, as the readers take it from there: a
\* short, which the size of a long text does not fit into.
LengthField(f) ==
  CASE f.type = "int" -> SizeOf["float"]
    [] f.type = "float" -> SizeOf["int"]
    [] f.type = "char" -> AsShort(f.text)
    [] OTHER -> SizeOf[f.type]

\* A variant of DataRead that takes an answer for a short.
DataReadShort(f) ==
  CASE f.command \in {"stos_client_connected_to_queue", "stos_client_disconnected_from_queue",
                      "stoc_connect_to_queue", "stoc_queue_client_exists"} -> SHORT
    [] f.command \in {"ctos_connect_to_queue", "ctos_queue_client_exists"} -> LengthField(f)
    [] OTHER -> IF f.type = "char" THEN LengthField(f) ELSE SizeOf[f.type]

\* The bytes of data a loop reads for the command and the type in a header.
DataRead(f) ==
  CASE f.command \in {"stos_client_connected_to_queue", "stos_client_disconnected_from_queue"}
         -> SHORT
    [] f.command \in {"stoc_connect_to_queue", "stoc_queue_client_exists"} -> SizeOf["bool"]
    [] f.command \in {"ctos_connect_to_queue", "ctos_queue_client_exists"} -> LengthField(f)
    [] OTHER -> IF f.type = "char" THEN LengthField(f) ELSE SizeOf[f.type]

VARIABLES
  reader,    \* which of the three loops this is
  sent,      \* frames put on the connection
  received,  \* bytes recv has returned in all
  filled,    \* t_length, bytes_received: what it returned last
  pos,       \* the loop's pointer, from the start of the buffer
  left,      \* to_process
  mode,      \* "waiting" in recv, "reading", or "astray": no frame at pos
  done,      \* history: frames the loop has dealt with, in this order
  skipped    \* history: a message was refused with more behind it

vars == <<reader, sent, received, filled, pos, left, mode, done, skipped>>

TypeOK ==
  /\ reader \in Readers
  /\ sent \in Seq(Frames(reader))
  /\ received \in Nat
  /\ filled \in 0..BUFFER
  /\ pos \in Nat
  /\ left \in 0..(WORD - 1)
  /\ mode \in {"waiting", "reading", "astray"}
  /\ done \in Seq(Frames(reader))
  /\ skipped \in BOOLEAN

Init ==
  /\ reader \in Readers
  /\ sent = <<>> /\ received = 0
  /\ filled = 0 /\ pos = 0 /\ left = 0
  /\ mode = "waiting"
  /\ done = <<>> /\ skipped = FALSE

\* Where frame i starts in the stream of bytes.
Start[i \in Nat] == IF i <= 1 THEN 0 ELSE Start[i - 1] + Written(sent[i - 1])
Available == Start[Len(sent) + 1] - received

\* The place in the stream the pointer stands for, and the frame that starts there.
Here == (received - filled) + pos
FramesHere == {i \in DOMAIN sent : Start[i] = Here}

\* send writes a whole frame.
Send(f) ==
  /\ Len(sent) < MaxFrames
  /\ sent' = Append(sent, f)
  /\ UNCHANGED <<reader, received, filled, pos, left, mode, done, skipped>>

\* recv returns some of what was sent, at most a buffer, and need not end where
\* a frame does.
Recv ==
  /\ mode = "waiting"
  /\ \E n \in 1..BUFFER :
       /\ n <= Available
       /\ filled' = n /\ received' = received + n /\ left' = n
  /\ pos' = 0
  /\ mode' = "reading"
  /\ UNCHANGED <<reader, sent, done, skipped>>

\* All of frame i is there.
Whole(i) == Written(sent[i]) <= left

\* What a loop counts for frame i.
Counted(i) == HEADER + DataRead(sent[i])

\* Variant of ReadFrame: what one recv returns is taken for one message.
ReadFirstFrame(i) ==
  /\ mode = "reading" /\ left # 0 /\ Whole(i)
  /\ pos' = pos + Counted(i)
  /\ left' = 0
  /\ done' = Append(done, sent[i])
  /\ UNCHANGED <<reader, sent, received, filled, mode, skipped>>

\* The header and the data of frame i are read and the frame is dealt with.
ReadFrame(i) ==
  /\ mode = "reading" /\ left # 0 /\ Whole(i)
  /\ pos' = pos + Counted(i)
  /\ left' = (left - Counted(i)) % WORD
  /\ done' = Append(done, sent[i])
  /\ UNCHANGED <<reader, sent, received, filled, mode, skipped>>

\* handle_recv: the client is not connected to the queue of the message.  Its
\* data is counted, but the pointer stays behind the header.
RefuseMessage(i) ==
  /\ mode = "reading" /\ left # 0 /\ Whole(i)
  /\ sent[i].command = "ctos_send_message"
  /\ pos' = pos + HEADER
  /\ left' = (left - Counted(i)) % WORD
  /\ done' = Append(done, sent[i])
  /\ skipped' = (skipped \/ left' # 0)
  /\ UNCHANGED <<reader, sent, received, filled, mode>>

\* A variant that counts with a sign.
ReadCutSigned(i) ==
  /\ mode = "reading" /\ left # 0 /\ ~Whole(i)
  /\ left' = left - Counted(i)
  /\ mode' = "astray"
  /\ UNCHANGED <<reader, sent, received, filled, pos, done, skipped>>

\* recv has cut frame i: the rest is read from behind what was received, where
\* the pointer is not followed, and the count, taken below zero, wraps around.
\* (The sizes in a header that is itself cut are whatever lies there; they are
\* not modelled, as the count is of no use any more.)
ReadCutFrame(i) ==
  /\ mode = "reading" /\ left # 0 /\ ~Whole(i)
  /\ left' = (left - Counted(i)) % WORD
  /\ mode' = "astray"
  /\ UNCHANGED <<reader, sent, received, filled, pos, done, skipped>>

\* The bytes read as a header are not one.
ReadNoHeader ==
  /\ mode = "reading" /\ left # 0
  /\ FramesHere = {}
  /\ mode' = "astray"
  /\ UNCHANGED <<reader, sent, received, filled, pos, left, done, skipped>>

\* The count is zero: back to recv.
EndOfBuffer ==
  /\ mode = "reading" /\ left = 0
  /\ mode' = "waiting"
  /\ UNCHANGED <<reader, sent, received, filled, pos, left, done, skipped>>

Turn ==
  \/ \E i \in FramesHere : ReadFrame(i) \/ RefuseMessage(i) \/ ReadCutFrame(i)
  \/ ReadNoHeader

Next ==
  \/ \E f \in Frames(reader) : Send(f)
  \/ Recv \/ Turn \/ EndOfBuffer

Spec == Init /\ [][Next]_vars

(***************************************************************************)
(* The receive thread, or a worker, keeps reading; senders are not fair.   *)
(***************************************************************************)
FairSpec == Spec /\ WF_vars(Recv \/ Turn \/ EndOfBuffer)

-----------------------------------------------------------------------------
(***************************************************************************)
(* The writer and the three readers agree about every frame, whatever is   *)
(* sent behind what and however it is grouped by recv: frames are dealt    *)
(* with once and in order, the pointer stands where the next one starts,   *)
(* and it agrees with the count, which is kept apart from it in a dozen    *)
(* branches of each loop.                                                  *)
(***************************************************************************)
InStep ==
  /\ Len(done) <= Len(sent) /\ done = SubSeq(sent, 1, Len(done))
  /\ mode = "reading" /\ ~skipped /\ left # 0 =>
       /\ pos + left = filled
       /\ Here = Start[Len(done) + 1]
  /\ mode = "waiting" => received = Start[Len(done) + 1]

(***************************************************************************)
(* A loop loses its place for two reasons only: recv ended inside a frame, *)
(* and nothing keeps the part that is there until the rest comes; or a     *)
(* client's message was refused and something followed it in the same      *)
(* buffer.  As long as recv ends where frames do, the other sizes, queues  *)
(* and groupings do no harm, nor does a refused message that comes last.   *)
(***************************************************************************)
CutInside == \A n \in 0..Len(sent) : received # Start[n + 1]

AstrayOnlyIf == mode = "astray" => CutInside \/ (reader = "server" /\ skipped)

(***************************************************************************)
(* "keep going untill you process all messages": every frame sent is dealt *)
(* with, unless the loop goes astray before.                               *)
(***************************************************************************)
AllProcessed ==
  \A i \in 1..MaxFrames : (Len(sent) >= i) ~> (Len(done) >= i \/ mode = "astray")
=============================================================================
