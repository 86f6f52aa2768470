-------------------------------- MODULE Rio ---------------------------------
(***************************************************************************)
(* The robust I/O package (csapp.c) on one connected socket: reads through *)
(* a buffer, writes that go on until everything is written.  Data moves in *)
(* units (the words of Protocol).                                          *)
(***************************************************************************)
EXTENDS Integers, Sequences, SequencesExt

CONSTANTS
  RIO_BUFSIZE,  \* units that one read can bring
  MAXLINE,      \* the size of the caller's buffer, with its terminator
  Newline       \* the unit that ends a line

ASSUME RioAssumption == RIO_BUFSIZE \in Nat \ {0} /\ MAXLINE \in Nat \ {0, 1}

VARIABLES
  wire,      \* what the peer has sent and the kernel holds
  link,      \* the peer: "open", "fin" (closed), "rst" (reset), then "dead"
  rio_buf,   \* the unread part of the internal buffer
  usrbuf,    \* the line that rio_readlineb has read so far
  unsent,    \* what rio_writen has still to write
  received   \* what the peer has been sent

rioVars == <<wire, link, rio_buf, usrbuf, unsent, received>>
readVars == <<wire, rio_buf, usrbuf>>
writeVars == <<unsent, received>>

rio_readinitb ==
  /\ link = "open"
  /\ rio_buf = <<>> /\ usrbuf = <<>>
  /\ unsent = <<>> /\ received = <<>>

Smaller(m, n) == IF m < n THEN m ELSE n

\* read fills the empty buffer with some of what there is.  When it is
\* interrupted (EINTR) rio_read calls it again.
Refill ==
  /\ rio_buf = <<>> /\ wire # <<>>
  /\ \E k \in 1..Smaller(RIO_BUFSIZE, Len(wire)) :
       /\ rio_buf' = SubSeq(wire, 1, k)
       /\ wire' = SubSeq(wire, k + 1, Len(wire))
  /\ UNCHANGED <<link, usrbuf, writeVars>>

\* Mutant: a read at end of file counts as interrupted and is tried again.
AtEof_Spins == FALSE

AtEof == rio_buf = <<>> /\ wire = <<>> /\ link \in {"fin", "dead"}

ReadFails == rio_buf = <<>> /\ wire = <<>> /\ link = "rst"

\* Mutant: the unit that ends a line is looked at and not consumed.
rio_read_KeepsLast ==
  /\ rio_buf # <<>>
  /\ usrbuf' = Append(usrbuf, Head(rio_buf))
  /\ rio_buf' = IF Len(usrbuf') = MAXLINE - 1 THEN rio_buf ELSE Tail(rio_buf)
  /\ UNCHANGED <<wire, link, writeVars>>

\* One unit out of the buffer into the line.
rio_read ==
  /\ rio_buf # <<>>
  /\ usrbuf' = Append(usrbuf, Head(rio_buf))
  /\ rio_buf' = Tail(rio_buf)
  /\ UNCHANGED <<wire, link, writeVars>>

\* rio_readlineb returns at a newline, or when the caller's buffer is full.
LineRead == usrbuf # <<>> /\ (Last(usrbuf) = Newline \/ Len(usrbuf) = MAXLINE - 1)

\* Mutant: writen takes a short write for a complete one.
rio_writen_Once ==
  /\ unsent # <<>> /\ link \in {"open", "fin"}
  /\ \E k \in 1..Len(unsent) :
       /\ received' = received \o SubSeq(unsent, 1, k)
       /\ unsent' = <<>>
  /\ link' = IF link = "fin" THEN "dead" ELSE link
  /\ UNCHANGED readVars

\* write takes some of the rest.  To a peer that has closed, the first write
\* succeeds and is answered with a reset.
rio_writen ==
  /\ unsent # <<>> /\ link \in {"open", "fin"}
  /\ \E k \in 1..Len(unsent) :
       /\ received' = received \o SubSeq(unsent, 1, k)
       /\ unsent' = SubSeq(unsent, k + 1, Len(unsent))
  /\ link' = IF link = "fin" THEN "dead" ELSE link
  /\ UNCHANGED readVars

\* The peer closes its socket or resets the connection.
Disconnect ==
  /\ link = "open"
  /\ link' \in {"fin", "rst"}
  /\ UNCHANGED <<readVars, writeVars>>
=============================================================================
