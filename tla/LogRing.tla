------------------------------- MODULE LogRing -------------------------------
(***************************************************************************)
(* The log of a window (common/ui/dsh_ui.c, "log ring"): every thread of   *)
(* the program writes lines into one buffer, the window's timer takes them *)
(* out a piece at a time.  Both hold log_ring_lock, so each call is a      *)
(* step.  A byte is its number among those put into the buffer; the rest   *)
(* of a line that is cut is not numbered.  What the window makes of a      *)
(* piece is left out: it shows nothing of one longer than the 4095         *)
(* characters of dsh_ui_wide's buffer.                                     *)
(***************************************************************************)
EXTENDS Integers

CONSTANTS LogCap,    \* LOG_RING_CAP
          LogTake,   \* bytes the window takes at once, less the final zero
          LogLine,   \* longest line
          MaxLogged  \* bound: bytes logged

ASSUME LogAssumption ==
  /\ LogCap \in Nat /\ LogTake \in Nat \ {0} /\ LogLine \in Nat /\ MaxLogged \in Nat

VARIABLES
  log_ring,
  log_write,    \* bytes in it
  log_consume,  \* those taken
  logged,       \* history: number of the last byte put in
  shown         \* history: number of the last byte taken

logVars == <<log_ring, log_write, log_consume, logged, shown>>

Smaller(m, n) == IF m < n THEN m ELSE n

LogTypeOK ==
  /\ log_ring \in [1 .. LogCap -> Nat]
  /\ log_write \in Nat /\ log_consume \in Nat /\ logged \in Nat /\ shown \in Nat

LogInit ==
  /\ log_ring = [i \in 1 .. LogCap |-> 0] /\ log_write = 0 /\ log_consume = 0
  /\ logged = 0 /\ shown = 0

\* Mutant: the oldest half is kept.
KeepOldest(len) ==
  LET unread == log_write - log_consume
  IN  IF log_write + len <= LogCap THEN [from |-> 0, kept |-> log_write]
      ELSE [from |-> log_consume, kept |-> Smaller(unread, LogCap \div 2)]

\* What stays in front of len more bytes: everything while there is room, else what
\* is unread, and of that the newest half of the buffer at most.
Slide(len) ==
  LET kept == Smaller(log_write - log_consume, LogCap \div 2)
  IN  IF log_write + len <= LogCap THEN [from |-> 0, kept |-> log_write]
      ELSE [from |-> log_write - kept, kept |-> kept]

\* log_ring_push.
PushLine(n) ==
  LET len   == Smaller(n, LogCap \div 4)
      slide == Slide(len)
  IN  /\ logged + len <= MaxLogged
      /\ log_ring' = [i \in 1 .. LogCap |->
           IF i <= slide.kept THEN log_ring[i + slide.from]
           ELSE IF i <= slide.kept + len THEN logged + i - slide.kept
           ELSE log_ring[i]]
      /\ log_write' = slide.kept + len
      /\ log_consume' = IF log_write + len <= LogCap THEN log_consume ELSE 0
      /\ logged' = logged + len
      /\ UNCHANGED shown

\* Mutant: what did not fit the piece counts as taken.
TruncationTaken ==
  LET take == Smaller(log_write - log_consume, LogTake)
  IN  /\ shown' = IF take > 0 THEN log_ring[log_consume + take] ELSE shown
      /\ log_consume' = 0 /\ log_write' = 0
      /\ UNCHANGED <<log_ring, logged>>

\* dsh_ui_log_take, which rewinds when everything is delivered.
TakeLog ==
  LET take == Smaller(log_write - log_consume, LogTake)
      all  == log_consume + take >= log_write
  IN  /\ shown' = IF take > 0 THEN log_ring[log_consume + take] ELSE shown
      /\ log_consume' = IF all THEN 0 ELSE log_consume + take
      /\ log_write' = IF all THEN 0 ELSE log_write
      /\ UNCHANGED <<log_ring, logged>>

LogNext == TakeLog \/ \E n \in 1 .. LogLine : PushLine(n)

LogSpec == LogInit /\ [][LogNext]_logVars

-----------------------------------------------------------------------------
\* Properties.

\* The numbers of the unread bytes.
Unread == {log_ring[i] : i \in log_consume + 1 .. log_write}

\* The buffer is never written past its end, and what is unread in it is the end of
\* the log, unbroken, in order and not shown yet (log_ring_push).
LogFits == log_consume <= log_write /\ log_write <= LogCap
UnreadIsTheEnd ==
  \A i \in log_consume + 1 .. log_write :
    log_ring[i] = logged - log_write + i /\ log_ring[i] > shown
LogSound == LogFits /\ UnreadIsTheEnd

\* A byte is lost unseen only while more than half the buffer is unread
\* (log_ring_push, dsh_ui_log_take).
LostOnlyWhenBehind ==
  [][ log_write - log_consume <= LogCap \div 2 =>
        \A b \in Unread : b \in Unread' \/ b <= shown' ]_logVars
=============================================================================
