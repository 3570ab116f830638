------------------------------ MODULE Framing ------------------------------
(***************************************************************************)
(* One direction of one connection, byte by byte: protocol.c.  The sender   *)
(* is the server, which queues and flushes (queue_line); the terminal       *)
(* client, which writes directly (send_line); or a program of another make, *)
(* which writes what it likes, telnet's \r\n and lines of any length.       *)
(* The receiver takes chunks into a buffer and pops lines from it           *)
(* (read_into_player_buffer, pop_line), on both sides with the same code.   *)
(***************************************************************************)
EXTENDS Naturals, Sequences, SequencesExt

CONSTANTS
    Lines,     \* texts: sequences of bytes without a newline
    MaxLine,   \* MAX_LINE
    Chunk,     \* the most that one recv takes
    InSize,    \* INBUF_SIZE
    OutSize,   \* OUTBUF_SIZE
    MaxSent    \* bound: lines in one behaviour

NL == "\n"
CR == "\r"

(* common.h:26-28 and the buffers of protocol.c; the last conjunct is what
   keeps a program that keeps to MaxLine from overflowing the other. *)
ASSUME FramingAssumption ==
    /\ \A l \in Lines : l \in Seq(STRING) /\ \A k \in DOMAIN l : l[k] # NL
    /\ MaxLine \in Nat /\ Chunk \in Nat \ {0} /\ InSize \in Nat /\ OutSize \in Nat
    /\ MaxSent \in Nat
    /\ MaxLine > 3 /\ MaxLine + Chunk <= InSize + 2

VARIABLES
    sender,     \* who writes; it does not change
    outbuf,     \* queued by the server, not yet sent
    wire,       \* in the two kernels
    inbuf,      \* received, not yet popped
    connection, \* "open", "hung up" by the sender, "dropped" or "overflowed" by the receiver
    sent,       \* the lines the sender's calls have taken (history)
    popped      \* the lines the receiver was handed (history)

vars == <<sender, outbuf, wire, inbuf, connection, sent, popped>>

Ended(l) == Append(l, NL)

-----------------------------------------------------------------------------
(* The sender. *)

Sending(who) == sender = who /\ connection = "open" /\ Len(sent) < MaxSent

(* queue_line and send_line refuse a line that leaves no room for two bytes. *)
LineFits(l) == Len(l) < MaxLine - 2

(* Mutant: the newline is not counted. *)
HasRoomForText(l) == Len(outbuf) + Len(l) <= OutSize

HasRoom(l) == Len(outbuf) + Len(Ended(l)) <= OutSize

(* queue_line; refused, it changes nothing. *)
QueueLine(l) ==
    /\ Sending("server")
    /\ LineFits(l) /\ HasRoom(l)
    /\ outbuf' = outbuf \o Ended(l)
    /\ sent' = Append(sent, l)
    /\ UNCHANGED <<sender, wire, inbuf, connection, popped>>

(* Mutant: what send has taken is not counted before it would block. *)
FlushForgetting ==
    /\ connection = "open" /\ outbuf # <<>>
    /\ \E n \in 1 .. Len(outbuf) :
          /\ wire' = wire \o SubSeq(outbuf, 1, n)
          /\ outbuf' = IF n = Len(outbuf) THEN <<>> ELSE outbuf
    /\ UNCHANGED <<sender, inbuf, connection, sent, popped>>

(* flush_player_output: until everything is sent, or send would block. *)
Flush ==
    /\ connection = "open" /\ outbuf # <<>>
    /\ \E n \in 1 .. Len(outbuf) :
          /\ wire' = wire \o SubSeq(outbuf, 1, n)
          /\ outbuf' = SubSeq(outbuf, n + 1, Len(outbuf))
    /\ UNCHANGED <<sender, inbuf, connection, sent, popped>>

Write(l) ==
    /\ wire' = wire \o Ended(l)
    /\ sent' = Append(sent, l)
    /\ UNCHANGED <<sender, outbuf, inbuf, connection, popped>>

(* send_line, on the client's blocking socket *)
SendLine(l) == Sending("client") /\ LineFits(l) /\ Write(l)

WriteAnything(l) == Sending("stranger") /\ Write(l)

(* The sender closes the connection, with data it has queued, or its end resets
   it, with data on the way: a prefix still arrives. *)
HangUp ==
    /\ connection = "open"
    /\ connection' = "hung up"
    /\ outbuf' = <<>>
    /\ \E n \in 0 .. Len(wire) : wire' = SubSeq(wire, 1, n)
    /\ UNCHANGED <<sender, inbuf, sent, popped>>

-----------------------------------------------------------------------------
(* The receiver. *)

HasLine == Contains(inbuf, NL)

FirstNewline == CHOOSE i \in DOMAIN inbuf : inbuf[i] = NL /\ \A k \in 1 .. i - 1 : inbuf[k] # NL

Stripped(l) == IF l # <<>> /\ Last(l) = CR THEN Front(l) ELSE l

(* What pop_line makes of the text before a newline, out_sz being MAX_LINE. *)
Fit(l) ==
    LET s == Stripped(l)
    IN  SubSeq(s, 1, IF Len(s) < MaxLine THEN Len(s) ELSE MaxLine - 1)

(* Mutant: one line is popped for one chunk. *)
MayRead == TRUE

(* Both callers pop until there is no line left. *)
AllPopped == ~HasLine

(* read_into_player_buffer; a chunk that fills the buffer ends the connection. *)
Read ==
    /\ connection \in {"open", "hung up"}
    /\ AllPopped
    /\ \E n \in 1 .. Chunk :
          /\ n <= Len(wire)
          /\ wire' = SubSeq(wire, n + 1, Len(wire))
          /\ IF Len(inbuf) + n >= InSize
             THEN connection' = "overflowed" /\ UNCHANGED inbuf
             ELSE inbuf' = inbuf \o SubSeq(wire, 1, n) /\ UNCHANGED connection
    /\ UNCHANGED <<sender, outbuf, sent, popped>>

(* recv returns 0, or an error: the receiver drops the connection, and what
   is in the buffer with it. *)
ReadEnd ==
    /\ connection = "hung up" /\ wire = <<>> /\ AllPopped
    /\ connection' = "dropped"
    /\ inbuf' = <<>>
    /\ UNCHANGED <<sender, outbuf, wire, sent, popped>>

(* pop_line, and the handler that is given the line. *)
PopLine ==
    /\ connection \in {"open", "hung up"}
    /\ HasLine
    /\ popped' = Append(popped, Fit(SubSeq(inbuf, 1, FirstNewline - 1)))
    /\ inbuf' = SubSeq(inbuf, FirstNewline + 1, Len(inbuf))
    /\ UNCHANGED <<sender, outbuf, wire, connection, sent>>

Init ==
    /\ sender \in {"server", "client", "stranger"}
    /\ outbuf = <<>> /\ wire = <<>> /\ inbuf = <<>>
    /\ connection = "open"
    /\ sent = <<>> /\ popped = <<>>

Next ==
    \/ \E l \in Lines : QueueLine(l) \/ SendLine(l) \/ WriteAnything(l)
    \/ Flush \/ HangUp \/ Read \/ ReadEnd \/ PopLine

Spec == Init /\ [][Next]_vars

(* select tells both loops of a socket that is ready; neither waits for a
   person.  That a receiver's process may stop is MatchServer's subject. *)
FairSpec == Spec /\ WF_vars(Flush) /\ WF_vars(Read) /\ WF_vars(PopLine)

-----------------------------------------------------------------------------
(* Properties. *)

(* The buffers hold what fits in them. *)
BuffersHold ==
    /\ Len(outbuf) <= OutSize
    /\ Len(inbuf) < InSize
    /\ \A k \in DOMAIN popped : Len(popped[k]) < MaxLine

(* A receiver breaks a connection off for its buffer's sake only when the other
   side wrote a line longer than any command or answer: no way of chopping
   short lines into chunks overflows it, however many of them arrive in one
   (protocol.c:145-148, server.c:160-172). *)
OnlyLongLinesOverflow ==
    connection = "overflowed" =>
        /\ sender = "stranger"
        /\ \E k \in DOMAIN sent : Len(sent[k]) + Chunk >= InSize

(* protocol.h:7-13: whatever the chunks, the partial sends and the breaks, the
   receiver is handed the sent lines, once, in order and none in two parts, and
   all of them unless the connection ends. *)
Stream == INSTANCE LineStream WITH got <- popped, broken <- connection # "open"

ImplementsLineStream == Stream!Spec
=============================================================================
