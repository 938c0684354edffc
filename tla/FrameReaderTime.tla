---------------------------- MODULE FrameReaderTime -----------------------------
(***************************************************************************)
(* FrameReader with the time its bulk reads have.  Each is given what is   *)
(* left of the deadline of its window, which the transports cut to whole   *)
(* milliseconds.  A read that begins with a millisecond or more left is    *)
(* over when that has passed.  One that begins later is given 0, which     *)
(* means no timeout, or, below zero, up to 49 days: it ends when the       *)
(* device sends something or fails, and else not.  Module Pmsnap has the   *)
(* clock and the conversion; here a read is late or not, at any point.     *)
(***************************************************************************)
EXTENDS FrameReader

VARIABLE late   \* the read that comes next is given no timeout

timeVars == <<vars, late>>

TimeInit == Init /\ late = FALSE

\* Where the step leads to a read, that begins in time or late.
ReadBegins == late' \in IF (Reading \/ Scanning)' THEN BOOLEAN ELSE {FALSE}

Calls == Caller /\ ReadBegins

InTime == ~late /\ Progress /\ ReadBegins

\* It ends in any way but a timeout, and a panic is what a timeout makes.
Overtime == late /\ Progress /\ step' # "panicked" /\ ReadBegins

TimeNext == Calls \/ InTime \/ Overtime

TimeSpec == TimeInit /\ [][TimeNext]_timeVars

\* A call in progress goes on, its reads that began in time ending by themselves.
\* The caller owes nothing, nor does the device to a read without a timeout.
FairSpec == TimeSpec /\ WF_timeVars(InTime)

-----------------------------------------------------------------------------
(* Properties.                                                               *)

(* Every call returns, unless it is left in one read that was begun with less than
   a millisecond of its window left and that nothing ends: no number of short
   reads, rejections and re-armed windows keeps Start, Settle, Frame or Snap busy
   for ever (camera.go:453-585; transport_linux.go:169, transport_darwin.go:296). *)
EveryCallReturns ==
    [](call # "none" => <>(call = "none" \/ step = "panicked" \/ []late))
=============================================================================
