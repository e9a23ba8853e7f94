------------------------------ MODULE FileLog ------------------------------
(***************************************************************************)
(* Logging to files (log/log.go, log/filelog.go): goroutines log, a line   *)
(* goes through the buffered channel of the writer that is bound to a      *)
(* goroutine that writes the file, and BindWriter closes the old writer    *)
(* before it binds the new one.  The logger has no lock.                   *)
(***************************************************************************)
EXTENDS Naturals, Sequences

CONSTANTS Loggers,   \* goroutines that log
          Binders,   \* goroutines that call BindWriter, once
          Files,     \* FileLogWriters
          First,     \* the writer of NewLogger
          Fresh,     \* the writer a binder binds
          ChanRoom,  \* the capacity of logchan (1024)
          Lines      \* bound of the model: lines of a goroutine

ASSUME FileLogAssumption ==
    /\ First \in Files /\ Fresh \in [Binders -> Files]
    /\ ChanRoom \in Nat \ {0} /\ Lines \in Nat

VARIABLES logWriter, \* Logger.logWriter
          logged,    \* lines of a goroutine so far
          logAt,     \* where its call of Log is
          logTo,     \* the writer that call has read
          bindAt,    \* where a BindWriter is
          bindFrom,  \* the writer it closes
          logchan,   \* the lines under way
          writerAt,  \* the goroutine of a FileLogWriter
          disk,      \* the lines in the file
          failed,    \* writing the file has failed
          early      \* history: the lines that Write had taken before Close

logs == <<logged, logAt, logTo>>
binds == <<logWriter, bindAt, bindFrom>>
files == <<writerAt, disk, failed>>
fileLogVars == <<logWriter, logged, logAt, logTo, bindAt, bindFrom, logchan,
                 writerAt, disk, failed, early>>

Nil == <<>>
LogLine == Loggers \X (1..Lines)

FileLogTypeOK ==
    /\ logWriter \in Files
    /\ logged \in [Loggers -> 0..Lines]
    /\ logAt \in [Loggers -> {"idle", "write", "panicked"}]
    /\ logTo \in [Loggers -> Files]
    /\ bindAt \in [Binders -> {"idle", "close", "bind", "bound", "panicked"}]
    /\ bindFrom \in [Binders -> Files]
    /\ logchan \in [Files -> Seq(LogLine \cup {Nil})]
    /\ \A f \in Files : Len(logchan[f]) <= ChanRoom
    /\ writerAt \in [Files -> {"range", "dispose", "ended"}]
    /\ disk \in [Files -> Seq(LogLine)]
    /\ failed \in [Files -> BOOLEAN]
    /\ early \in [Files -> SUBSET LogLine]

FileLogInit ==
    /\ logWriter = First
    /\ logged = [g \in Loggers |-> 0]
    /\ logAt = [g \in Loggers |-> "idle"]
    /\ logTo = [g \in Loggers |-> First]
    /\ bindAt = [b \in Binders |-> "idle"]
    /\ bindFrom = [b \in Binders |-> First]
    /\ logchan = [f \in Files |-> <<>>]
    /\ writerAt = [f \in Files |-> "range"]
    /\ disk = [f \in Files |-> <<>>]
    /\ failed = [f \in Files |-> FALSE]
    /\ early = [f \in Files |-> {}]
-----------------------------------------------------------------------------
HasChanRoom(f) == Len(logchan[f]) < ChanRoom

\* The channel is closed at the end of dispose.
Closed(f) == writerAt[f] = "ended"

\* Somebody has begun to close f.
Closing(f) == \E b \in Binders : bindFrom[b] = f /\ bindAt[b] # "idle"

\* doLog of a level that is not filtered: reads the writer.
DoLog(g) ==
    /\ logAt[g] = "idle" /\ logged[g] < Lines
    /\ logAt' = [logAt EXCEPT ![g] = "write"]
    /\ logTo' = [logTo EXCEPT ![g] = logWriter]
    /\ logged' = [logged EXCEPT ![g] = @ + 1]
    /\ UNCHANGED <<binds, logchan, files, early>>

\* f.logchan <- info
Write(g) ==
    LET f == logTo[g]  line == <<g, logged[g]>> IN
      /\ logAt[g] = "write" /\ ~Closed(f) /\ HasChanRoom(f)
      /\ logchan' = [logchan EXCEPT ![f] = Append(@, line)]
      /\ logAt' = [logAt EXCEPT ![g] = "idle"]
      /\ early' = [early EXCEPT ![f] = IF Closing(f) THEN @ ELSE @ \cup {line}]
      /\ UNCHANGED <<logged, logTo, binds, files>>

\* The send of a goroutine that waits, or comes later, panics.
WritePanics(g) ==
    /\ logAt[g] = "write" /\ Closed(logTo[g])
    /\ logAt' = [logAt EXCEPT ![g] = "panicked"]
    /\ UNCHANGED <<logged, logTo, binds, logchan, files, early>>

\* The application goes on in this goroutine, or in another one.
Recovered(g) ==
    /\ logAt[g] = "panicked"
    /\ logAt' = [logAt EXCEPT ![g] = "idle"]
    /\ UNCHANGED <<logged, logTo, binds, logchan, files, early>>

Logging(g) == Write(g) \/ WritePanics(g) \/ Recovered(g)
-----------------------------------------------------------------------------
(* BindWriter.                                                             *)

BindWriter(b) ==
    /\ bindAt[b] = "idle"
    /\ bindAt' = [bindAt EXCEPT ![b] = "close"]
    /\ bindFrom' = [bindFrom EXCEPT ![b] = logWriter]
    /\ UNCHANGED <<logWriter, logs, logchan, files, early>>

\* Mutant: the lines under way are thrown away.
Close_now(b) ==
    /\ bindAt[b] = "close" /\ ~Closed(bindFrom[b])
    /\ logchan' = [logchan EXCEPT ![bindFrom[b]] = <<Nil>>]
    /\ bindAt' = [bindAt EXCEPT ![b] = "bind"]
    /\ UNCHANGED <<logWriter, bindFrom, logs, files, early>>

\* f.logchan <- nil
Close(b) ==
    /\ bindAt[b] = "close" /\ ~Closed(bindFrom[b]) /\ HasChanRoom(bindFrom[b])
    /\ logchan' = [logchan EXCEPT ![bindFrom[b]] = Append(@, Nil)]
    /\ bindAt' = [bindAt EXCEPT ![b] = "bind"]
    /\ UNCHANGED <<logWriter, bindFrom, logs, files, early>>

\* The writer was closed already, or its file could not be written: the panic
\* keeps the new writer from being bound.
ClosePanics(b) ==
    /\ bindAt[b] = "close" /\ Closed(bindFrom[b])
    /\ bindAt' = [bindAt EXCEPT ![b] = "panicked"]
    /\ UNCHANGED <<logWriter, bindFrom, logs, logchan, files, early>>

Bind(b) ==
    /\ bindAt[b] = "bind"
    /\ logWriter' = Fresh[b]
    /\ bindAt' = [bindAt EXCEPT ![b] = "bound"]
    /\ UNCHANGED <<bindFrom, logs, logchan, files, early>>

Binding(b) == Close(b) \/ ClosePanics(b) \/ Bind(b)
-----------------------------------------------------------------------------
(* The goroutine of a FileLogWriter.                                       *)

Received(f) == logchan' = [logchan EXCEPT ![f] = Tail(@)]

TakeLine(f) ==
    /\ writerAt[f] = "range" /\ logchan[f] # <<>> /\ Head(logchan[f]) # Nil
    /\ Received(f)
    /\ \/ /\ disk' = [disk EXCEPT ![f] = Append(@, Head(logchan[f]))]
          /\ UNCHANGED <<writerAt, failed>>
       \/ /\ failed' = [failed EXCEPT ![f] = TRUE]
          /\ writerAt' = [writerAt EXCEPT ![f] = "dispose"]
          /\ UNCHANGED disk
    /\ UNCHANGED <<logs, binds, early>>

TakeNil(f) ==
    /\ writerAt[f] = "range" /\ logchan[f] # <<>> /\ Head(logchan[f]) = Nil
    /\ Received(f)
    /\ writerAt' = [writerAt EXCEPT ![f] = "dispose"]
    /\ UNCHANGED <<logs, binds, disk, failed, early>>

\* Mutant: the file is closed, the channel is not.
Dispose_open(f) ==
    /\ writerAt[f] = "dispose"
    /\ UNCHANGED fileLogVars

\* The file is synced and closed, then the channel; nobody receives from it.
Dispose(f) ==
    /\ writerAt[f] = "dispose"
    /\ writerAt' = [writerAt EXCEPT ![f] = "ended"]
    /\ UNCHANGED <<logs, binds, logchan, disk, failed, early>>

Writing(f) == TakeLine(f) \/ TakeNil(f) \/ Dispose(f)
-----------------------------------------------------------------------------
FileLogNext ==
    \/ \E g \in Loggers : DoLog(g) \/ Logging(g)
    \/ \E b \in Binders : BindWriter(b) \/ Binding(b)
    \/ \E f \in Files : Writing(f)

FileLogSpec == FileLogInit /\ [][FileLogNext]_fileLogVars

\* The goroutines that log, bind and write run.
FileLogFairSpec ==
    /\ FileLogSpec
    /\ \A g \in Loggers : WF_fileLogVars(Logging(g))
    /\ \A b \in Binders : WF_fileLogVars(Binding(b))
    /\ \A f \in Files : WF_fileLogVars(Writing(f))
-----------------------------------------------------------------------------
(* Properties.                                                             *)

\* Once the file of a writer is closed it has every line that Write had taken
\* before BindWriter began to close it, unless writing the file has failed;
\* only lines that race with BindWriter may be lost.
SwitchKeepsLines ==
    \A f \in Files : writerAt[f] # "range" /\ ~failed[f] =>
        \A line \in early[f] : \E i \in 1..Len(disk[f]) : disk[f][i] = line

\* No goroutine waits for ever in a log call or in BindWriter, also when the
\* channel is full and the file cannot be written or the writer is closed: every
\* call returns or panics (a goroutine makes a bounded number of calls here, so
\* in the end all of them have).
LogReturns ==
    <>[](/\ \A g \in Loggers : logAt[g] # "write"
         /\ \A b \in Binders : bindAt[b] # "close")
=============================================================================
