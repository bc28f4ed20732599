------------------------------ MODULE LogWorker ------------------------------
(***************************************************************************)
(* The logger (logging.h): Logger::init() chooses an appender and a worker *)
(* from the configuration; a synchronous worker writes a log to the        *)
(* appender under its lock, an asynchronous one puts it into the standby   *)
(* half of a DoubleFixedLengthBuffer (lockfree.h), which a thread of its   *)
(* own swaps with the active half and writes out, in blocks first.         *)
(*                                                                         *)
(* A log is one or two bytes, and a byte is the number of its log.  A      *)
(* write() of the appender fails, succeeds, or stores fewer bytes than it  *)
(* was given: the workers take every positive result for the whole.  The   *)
(* lock is one that locks: with kNULL the asynchronous worker is a data    *)
(* race.                                                                   *)
(***************************************************************************)
EXTENDS Naturals, Sequences, SequencesExt

CONSTANTS Loggers,      \* threads that log
          BufferSize,   \* max size of a half of the buffer
          BlockSize,    \* write_block_size
          MaxLogs,      \* bound on the logs pushed
          MaxFailures   \* bound on the writes that fail or are short

LogAssumption == {BufferSize, BlockSize, MaxLogs, MaxFailures} \subseteq Nat \ {0}

VARIABLES kind,       \* the worker: "sync", "async", or "none" if init() fails
          stores,     \* FALSE: a NullLogAppender, whose write() returns 0
          active, standby,   \* the halves of dfbuf_
          flag,       \* timedwait_flag_
          notified,   \* the condition has been notified during the wait
          loggers,    \* per thread: where it is in push()
          worker,     \* where the worker thread is
          state,      \* of the worker thread: "RUNNING", "STOPPING"; and
                      \* "JOINING" once close() has notified it
          written,    \* the bytes in the appender
          accepted,   \* the bytes push() has returned 1 for (history)
          pushed, failures, cut   \* counters, and whether a write was short

dfbuf == <<active, standby>>
history == <<accepted, pushed>>
appender == <<written, failures, cut>>
config == <<kind, stores>>
vars == <<config, dfbuf, flag, notified, loggers, worker, state, appender, history>>

(* Logger::init(): the worker for an appender type, a mode and a callback. *)
Kind(type, mode, callback) ==
  IF type = "null" \/ (type = "callback" /\ ~callback) THEN "sync"
  ELSE IF mode \in {"sync", "async"} THEN mode ELSE "none"

Stores(type, callback) == type # "null" /\ (type = "callback" => callback)

Init == /\ \E type \in {"console", "file", "null", "callback"},
              mode \in {"sync", "async", "other"}, callback \in BOOLEAN :
             /\ kind = Kind(type, mode, callback)
             /\ stores = Stores(type, callback)
        /\ active = << >> /\ standby = << >> /\ flag = FALSE /\ notified = FALSE
        /\ loggers = [t \in Loggers |-> "idle"]
        /\ worker = IF kind = "async" THEN "start" ELSE "none"
        /\ state = "RUNNING"
        /\ written = << >> /\ accepted = << >>
        /\ pushed = 0 /\ failures = 0 /\ cut = FALSE

-----------------------------------------------------------------------------
(* write() of the appender: the bytes it stores are a prefix of its        *)
(* argument, and it returns a positive number unless it fails.             *)
AppenderStores(bytes, returns) ==
  \/ /\ returns /\ stores
     /\ written' = written \o bytes /\ UNCHANGED <<failures, cut>>
  \/ /\ returns /\ stores /\ failures < MaxFailures
     /\ \E n \in 1 .. Len(bytes) - 1 : written' = written \o SubSeq(bytes, 1, n)
     /\ failures' = failures + 1 /\ cut' = TRUE
  \/ /\ ~returns /\ stores /\ failures < MaxFailures
     /\ failures' = failures + 1 /\ UNCHANGED <<written, cut>>
  \/ /\ ~returns /\ ~stores
     /\ UNCHANGED appender

-----------------------------------------------------------------------------
(* log() and push() of a logging thread.                                   *)
Bytes(size) == [i \in 1 .. size |-> pushed + 1]

PushSync(t, size) ==
  /\ kind = "sync" /\ pushed < MaxLogs
  /\ \E stored \in BOOLEAN :
       /\ AppenderStores(Bytes(size), stored)
       /\ accepted' = IF stored THEN accepted \o Bytes(size) ELSE accepted
  /\ pushed' = pushed + 1
  /\ UNCHANGED <<config, dfbuf, flag, notified, loggers, worker, state>>

Fits(size) == BufferSize - Len(standby) >= size

PushAsync(t, size) ==
  /\ kind = "async" /\ loggers[t] = "idle" /\ pushed < MaxLogs
  /\ pushed' = pushed + 1
  /\ IF Fits(size)
     THEN /\ standby' = standby \o Bytes(size)
          /\ accepted' = accepted \o Bytes(size)
          /\ loggers' = [loggers EXCEPT ![t] = "written"]
     ELSE UNCHANGED <<standby, accepted, loggers>>
  /\ UNCHANGED <<config, active, flag, notified, worker, state, appender>>

TestFlag(t) ==
  /\ loggers[t] = "written"
  /\ loggers' = [loggers EXCEPT ![t] = IF flag THEN "notify" ELSE "idle"]
  /\ UNCHANGED <<config, dfbuf, flag, notified, worker, state, appender, history>>

ClearFlag(t) ==
  /\ loggers[t] = "notify"
  /\ loggers' = [loggers EXCEPT ![t] = "signal"]
  /\ flag' = FALSE
  /\ UNCHANGED <<config, dfbuf, notified, worker, state, appender, history>>

(* notify_one() is lost unless the worker waits.                           *)
Notify(t) ==
  /\ loggers[t] = "signal"
  /\ loggers' = [loggers EXCEPT ![t] = "idle"]
  /\ notified' = (worker = "wait")
  /\ UNCHANGED <<config, dfbuf, flag, worker, state, appender, history>>

-----------------------------------------------------------------------------
(***************************************************************************)
(* worker_thread_proc().  data_size is the size of the active half: it is  *)
(* reset when a write of the rest has returned a positive number.          *)
(***************************************************************************)
Start == /\ worker = "start"
         /\ worker' = IF state = "RUNNING" THEN "blocks" ELSE "ended"
         /\ UNCHANGED <<config, dfbuf, flag, notified, loggers, state, appender,
                        history>>

WriteBlock ==
  /\ worker = "blocks"
  /\ IF Len(active) >= BlockSize
     THEN \E stored \in BOOLEAN :
            /\ AppenderStores(SubSeq(active, 1, BlockSize), stored)
            /\ IF stored
               THEN /\ active' = SubSeq(active, BlockSize + 1, Len(active))
                    /\ UNCHANGED worker
               ELSE worker' = "rest" /\ UNCHANGED active
     ELSE worker' = "rest" /\ UNCHANGED <<active, appender>>
  /\ UNCHANGED <<config, standby, flag, notified, loggers, state, history>>

WriteRestForgets ==  \* mutant: the half is reset after a failed write too
  /\ worker = "rest"
  /\ \E stored \in BOOLEAN :
       IF active = << >> THEN stored /\ UNCHANGED appender
       ELSE AppenderStores(active, stored)
  /\ active' = << >> /\ worker' = "swap"
  /\ UNCHANGED <<config, standby, flag, notified, loggers, state, history>>

WriteRest ==
  /\ worker = "rest"
  /\ IF active = << >> THEN worker' = "swap" /\ UNCHANGED <<active, appender>>
     ELSE \E stored \in BOOLEAN :
            /\ AppenderStores(active, stored)
            /\ IF stored THEN active' = << >> /\ worker' = "swap"
               ELSE worker' = "start" /\ UNCHANGED active
  /\ UNCHANGED <<config, standby, flag, notified, loggers, state, history>>

(* swap_buffer() fails if nothing is in the standby half.                  *)
Swap(pc, otherwise) ==
  /\ worker = pc
  /\ IF standby # << >>
     THEN active' = standby /\ standby' = active /\ worker' = "start"
     ELSE worker' = otherwise /\ UNCHANGED dfbuf
  /\ UNCHANGED <<config, flag, notified, loggers, state, appender, history>>

(* The worker raises the flag and then waits, for a time; a log that is    *)
(* pushed before the flag is up notifies nobody, and one that is pushed    *)
(* before the wait begins notifies too early.                              *)
RaiseFlag ==
  /\ worker = "raise"
  /\ worker' = "enter" /\ flag' = TRUE
  /\ UNCHANGED <<config, dfbuf, notified, loggers, state, appender, history>>

EnterWait ==
  /\ worker = "enter"
  /\ worker' = "wait" /\ notified' = FALSE
  /\ UNCHANGED <<config, dfbuf, flag, loggers, state, appender, history>>

(* wait_for() ends with a notification or when its time is up.             *)
WaitUntimed ==  \* mutant: wait()
  /\ worker = "wait" /\ notified
  /\ worker' = "lower" /\ notified' = FALSE
  /\ UNCHANGED <<config, dfbuf, flag, loggers, state, appender, history>>

Wait ==
  /\ worker = "wait"
  /\ worker' = "lower" /\ notified' = FALSE
  /\ UNCHANGED <<config, dfbuf, flag, loggers, state, appender, history>>

LowerFlag ==
  /\ worker = "lower"
  /\ worker' = "swap_again" /\ flag' = FALSE
  /\ UNCHANGED <<config, dfbuf, notified, loggers, state, appender, history>>

Worker == \/ Start \/ WriteBlock \/ WriteRest \/ Swap("swap", "raise")
          \/ RaiseFlag \/ EnterWait \/ Wait \/ LowerFlag
          \/ Swap("swap_again", "start")

(* close(): stop(), and notify_one(); join() waits for the thread to end.  *)
Close == /\ kind = "async" /\ state = "RUNNING"
         /\ state' = "STOPPING"
         /\ UNCHANGED <<config, dfbuf, flag, notified, loggers, worker, appender,
                        history>>

CloseNotify ==
  /\ state = "STOPPING"
  /\ state' = "JOINING" /\ notified' = (worker = "wait")
  /\ UNCHANGED <<config, dfbuf, flag, loggers, worker, appender, history>>

Push(t) == TestFlag(t) \/ ClearFlag(t) \/ Notify(t)

Next == \/ \E t \in Loggers, size \in 1 .. 2 : PushSync(t, size) \/ PushAsync(t, size)
        \/ \E t \in Loggers : Push(t)
        \/ Worker \/ Close \/ CloseNotify

Spec == Init /\ [][Next]_vars
FairSpec == /\ Spec /\ WF_vars(Worker) /\ WF_vars(CloseNotify)
            /\ \A t \in Loggers : WF_vars(Push(t))

-----------------------------------------------------------------------------
TypeOK == /\ kind \in {"sync", "async", "none"} /\ {stores, flag, cut} \subseteq BOOLEAN
          /\ Len(active) <= BufferSize /\ Len(standby) <= BufferSize
          /\ loggers \in [Loggers -> {"idle", "written", "notify", "signal"}]
          /\ worker \in {"none", "start", "blocks", "rest", "swap", "raise", "enter",
                         "wait", "lower", "swap_again", "ended"}
          /\ state \in {"RUNNING", "STOPPING", "JOINING"}

(* Whichever thread logs and however often the appender fails, the bytes   *)
(* of the logs that were accepted are, in the order of push() and each log *)
(* undivided, the bytes in the appender followed by those in the active    *)
(* and the standby half; only a short write, which is taken for a whole    *)
(* one, loses any.                                                         *)
BytesInOrder ==
  /\ TypeOK
  /\ ~cut => written \o active \o standby = accepted

(* An accepted log reaches the appender, also if it is pushed between the  *)
(* failed swap, the raising of the flag and the wait, so that it notifies  *)
(* nobody, or too early; unless the worker is closed (which leaves what is *)
(* still in the buffer) or a write was short.  And close() ends.           *)
Logged ==
  /\ \A n \in 1 .. MaxLogs :
       Contains(accepted, n) ~> (Contains(written, n) \/ state # "RUNNING" \/ cut)
  /\ (state # "RUNNING") ~> (worker = "ended")
=============================================================================
