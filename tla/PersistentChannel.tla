--------------------------- MODULE PersistentChannel ---------------------------
(***************************************************************************)
(* PersistentChannel (internal/core/channel/persistent.go): a queue whose  *)
(* messages are one file each, with an index file that lists them in order.*)
(*                                                                         *)
(* Every operation runs under the channel's mutex, so one is under way at  *)
(* a time, but it changes the disk in several steps and the process can    *)
(* stop between any two of them.  todo is what is left of the operation    *)
(* under way.  Both kinds of file are written to a temporary name and      *)
(* renamed, so a crash leaves a file as it was or as it becomes.           *)
(*                                                                         *)
(* A message file is identified by the number in its name; messages holds  *)
(* the numbers of the queued entries.  Receive reads the file and not the  *)
(* copy of the message in the index, which is left out.  Sizes are those   *)
(* of the message files.                                                   *)
(*                                                                         *)
(* Failures: the process may stop (MayCrash), writing a file may fail      *)
(* (MayFail), and without SyncWrites a power failure may leave an index    *)
(* that cannot be parsed (MayDamage; loadIndex and its test expect it).    *)
(***************************************************************************)
EXTENDS Integers, Sequences, SequencesExt, Functions, FiniteSets, FiniteSetsExt

CONSTANTS
    Msgs, NoFile,     \* the messages; the content of a file that does not exist
    Size,             \* Size[m]: the bytes of the file of m
    MaxId,            \* bound on the file numbers
    Radix,            \* the base of the numerals in the file names: 10 in the code, where
                      \* the order of names departs from that of numbers at ten files
    MaxSize,          \* maxSize
    MaxMessages,      \* maxMessages, 0 for unlimited
    EvictOldest,      \* onFull = "evict_oldest"
    MayExpire,        \* maxAge > 0
    MayCompact,       \* CleanupInterval > 0
    MayCrash, MayFail, MayDamage

ASSUME PersistentAssumption ==
    /\ NoFile \notin Msgs
    /\ Size \in [Msgs -> Nat \ {0}]
    /\ MaxId \in Nat
    /\ Radix \in Nat \ {0, 1}
    /\ MaxSize \in Nat \ {0}
    /\ MaxMessages \in Nat
    /\ {EvictOldest, MayExpire, MayCompact, MayCrash, MayFail, MayDamage} \subseteq BOOLEAN

VARIABLES
    files,            \* disk: the content of msg_<i>.json
    index,            \* disk: index.json
    up,               \* the process runs
    messages, closed, nextID, currentSize,
    todo,             \* the steps left of the operation under way
    msg,              \* the message that Send was given
    owed,             \* history: [id, msg] that Send accepted and nobody took or dropped
    faults            \* history: "undone" from a Send that failed at the index until the
                      \* next start, "recovered" once a damaged index has been recovered

disk == <<files, index>>
memory == <<messages, closed, nextID, currentSize>>
history == <<owed, faults>>
vars == <<disk, up, memory, todo, msg, history>>

Ids == 1 .. MaxId
Exists(i) == files[i] # NoFile
SizeOf(i) == IF Exists(i) THEN Size[files[i]] ELSE 0       \* os.Stat
TotalSize(ids) == SumFunctionOnSet([i \in Ids |-> SizeOf(i)], ids)

NoIndex == [st |-> "missing", ids |-> <<>>, next |-> 0, closed |-> FALSE]
DamagedIndex == [NoIndex EXCEPT !.st = "damaged"]

(* The process is not running and nothing was ever stored *)
Init ==
    /\ files = [i \in Ids |-> NoFile] /\ index = NoIndex
    /\ up = FALSE
    /\ messages = <<>> /\ closed = FALSE /\ nextID = 0 /\ currentSize = 0
    /\ todo = <<>> /\ msg = NoFile
    /\ owed = {} /\ faults = {}

--------------------------------------------------------------------------------
(* NewPersistentChannel: loadIndex and recoverIndex *)

Load(ids, next, c) ==
    /\ messages' = ids /\ nextID' = next /\ closed' = c
    /\ currentSize' = TotalSize(ToSet(ids))
    /\ up' = TRUE
    /\ UNCHANGED <<disk, todo, msg, owed>>

Restarted == faults' = faults \ {"undone"}

OpenFresh == ~up /\ index.st = "missing" /\ Load(<<>>, 0, FALSE) /\ Restarted

(* Mutant: the numbering is not restored *)
OpenIndexRenumber == ~up /\ index.st = "ok" /\ Load(index.ids, Len(index.ids), index.closed) /\ Restarted

OpenIndex == ~up /\ index.st = "ok" /\ Load(index.ids, index.next, index.closed) /\ Restarted

(* os.ReadDir sorts by name: numerals compare digit by digit, a prefix first *)
Digits(i) == CHOOSE d \in 1 .. MaxId : Radix ^ (d - 1) <= i /\ i < Radix ^ d
Padded(i) == i * Radix ^ (Digits(MaxId) - Digits(i))
NameBefore(i, j) == Padded(i) < Padded(j) \/ (Padded(i) = Padded(j) /\ i < j)

OpenRecover ==
    LET found == {i \in Ids : Exists(i)} IN
    /\ ~up /\ index.st = "damaged"
    /\ \E ids \in SetToSeqs(found) :
          /\ \A m, n \in DOMAIN ids : m < n => NameBefore(ids[m], ids[n])
          /\ Load(ids, IF found = {} THEN 0 ELSE Max(found), FALSE)
    /\ faults' = {"recovered"}

Open == OpenFresh \/ OpenIndex \/ OpenRecover

--------------------------------------------------------------------------------
(* Steps the operations are made of *)

Idle == up /\ todo = <<>>
Do(step) == up /\ todo # <<>> /\ Head(todo) = step
Done == todo' = Tail(todo)

(* os.Stat, subtract, os.Remove *)
DeleteFile(i) ==
    /\ currentSize' = currentSize - SizeOf(i)
    /\ files' = [files EXCEPT ![i] = NoFile]
    /\ owed' = {o \in owed : o.id # i}
    /\ UNCHANGED faults

SaveIndex ==
    index' = [st |-> "ok", ids |-> messages, next |-> nextID, closed |-> closed]

(* A saveIndex whose error is ignored, or returned with nothing undone *)
SaveQuietly ==
    /\ Do("save quietly") /\ Done
    /\ \/ SaveIndex
       \/ MayFail /\ UNCHANGED index
    /\ UNCHANGED <<files, up, memory, msg, history>>

--------------------------------------------------------------------------------
(* Retention: enforceMaxMessages, evictUntilUnderSize and enforceMaxAge loop
   over removeOldest as long as their condition holds *)

Fitting == IF EvictOldest THEN <<"fit size">> ELSE <<>>

MustRemove ==
    \/ Do("fit count") /\ MaxMessages > 0 /\ Len(messages) > MaxMessages
    \/ Do("fit size") /\ messages # <<>> /\ currentSize > MaxSize
    \/ Do("expire") /\ MayExpire /\ messages # <<>>

(* Mutant: the size is not updated *)
RemoveOldestNoSize ==
    /\ MustRemove
    /\ files' = [files EXCEPT ![Head(messages)] = NoFile]
    /\ owed' = {o \in owed : o.id # Head(messages)}
    /\ UNCHANGED faults
    /\ messages' = Tail(messages)
    /\ todo' = <<"save quietly">> \o todo
    /\ UNCHANGED <<index, up, closed, nextID, currentSize, msg>>

(* Mutant: the wrong end *)
RemoveNewest ==
    /\ MustRemove
    /\ DeleteFile(Last(messages))
    /\ messages' = Front(messages)
    /\ todo' = <<"save quietly">> \o todo
    /\ UNCHANGED <<index, up, closed, nextID, msg>>

RemoveOldest ==
    /\ MustRemove
    /\ DeleteFile(Head(messages))
    /\ messages' = Tail(messages)
    /\ todo' = <<"save quietly">> \o todo
    /\ UNCHANGED <<index, up, closed, nextID, msg>>

(* Whether the head has expired is up to the clock *)
RetentionMet ==
    /\ \/ Do("expire")
       \/ (Do("fit count") \/ Do("fit size")) /\ ~MustRemove
    /\ Done
    /\ UNCHANGED <<disk, up, memory, msg, history>>

(* One tick of cleanupLoop.  A tick may wait for the mutex while Close holds it,
   so it may also find the channel closed. *)
Compact ==
    /\ Idle /\ MayCompact
    /\ todo' = <<"expire", "fit count">> \o Fitting
    /\ UNCHANGED <<disk, up, memory, msg, history>>

--------------------------------------------------------------------------------
(* Send *)

(* A closed channel and, unless it evicts, a full one return an error *)
Send(m) ==
    /\ Idle /\ ~closed
    /\ currentSize < MaxSize \/ EvictOldest
    /\ nextID < MaxId
    /\ msg' = m
    /\ todo' = (IF currentSize < MaxSize THEN <<>> ELSE Fitting)
                  \o <<"write", "fit count">> \o Fitting \o <<"expire", "commit">>
    /\ UNCHANGED <<disk, up, memory, history>>

(* Mutant: the size of the new file is not counted *)
WriteMessageNoSize ==
    /\ Do("write") /\ Done
    /\ nextID' = nextID + 1
    /\ files' = [files EXCEPT ![nextID + 1] = msg]
    /\ messages' = Append(messages, nextID + 1)
    /\ UNCHANGED <<index, up, closed, currentSize, msg, history>>

(* writeMessage, os.Stat and append *)
WriteMessage ==
    /\ Do("write") /\ Done
    /\ nextID' = nextID + 1
    /\ files' = [files EXCEPT ![nextID + 1] = msg]
    /\ currentSize' = currentSize + Size[msg]
    /\ messages' = Append(messages, nextID + 1)
    /\ UNCHANGED <<index, up, closed, msg, history>>

WriteFails ==
    /\ Do("write") /\ MayFail
    /\ nextID' = nextID + 1
    /\ todo' = <<>>
    /\ UNCHANGED <<disk, up, messages, closed, currentSize, msg, history>>

(* Mutant: Send does not wait for the index *)
CommitUnsaved ==
    /\ Do("commit") /\ Done
    /\ owed' = owed \cup {[id |-> i, msg |-> msg] : i \in ToSet(messages) \cap {nextID}}
    /\ UNCHANGED <<disk, up, memory, msg, faults>>

(* saveIndex and return nil; a message that retention removed at once is not owed *)
Commit ==
    /\ Do("commit") /\ Done
    /\ SaveIndex
    /\ owed' = owed \cup {[id |-> i, msg |-> msg] : i \in ToSet(messages) \cap {nextID}}
    /\ UNCHANGED <<files, up, memory, msg, faults>>

(* saveIndex fails: the file is removed again, the entry and the size stay *)
CommitFails ==
    /\ Do("commit") /\ MayFail /\ Done
    /\ files' = [files EXCEPT ![nextID] = NoFile]
    /\ faults' = faults \cup {"undone"}
    /\ UNCHANGED <<index, up, memory, msg, owed>>

--------------------------------------------------------------------------------
(* Receive, Close, Cleanup *)

(* A closed or empty channel, and a head whose file is missing, return an error *)
Receive ==
    /\ Idle /\ ~closed
    /\ messages # <<>> /\ Exists(Head(messages))
    /\ messages' = Tail(messages)
    /\ DeleteFile(Head(messages))
    /\ todo' = <<"answer">>
    /\ UNCHANGED <<index, up, closed, nextID, msg>>

Answer ==
    /\ Do("answer") /\ Done
    /\ SaveIndex
    /\ UNCHANGED <<files, up, memory, msg, history>>

(* saveIndex fails: Receive returns the error instead of the message *)
AnswerFails ==
    /\ Do("answer") /\ MayFail /\ Done
    /\ UNCHANGED <<disk, up, memory, msg, history>>

Close ==
    /\ Idle /\ ~closed
    /\ closed' = TRUE
    /\ todo' = <<"save quietly">>
    /\ UNCHANGED <<disk, up, messages, nextID, currentSize, msg, history>>

Cleanup ==
    /\ Idle
    /\ todo' = <<"wipe", "save quietly">>
    /\ owed' = {}
    /\ UNCHANGED <<disk, up, memory, msg, faults>>

Wipe ==
    LET left == {n \in DOMAIN messages : Exists(messages[n])} IN
    /\ Do("wipe")
    /\ IF left # {}
       THEN /\ files' = [files EXCEPT ![messages[Min(left)]] = NoFile]
            /\ UNCHANGED <<messages, nextID, currentSize, todo>>
       ELSE /\ messages' = <<>> /\ nextID' = 0 /\ currentSize' = 0
            /\ Done
            /\ UNCHANGED files
    /\ UNCHANGED <<index, up, closed, msg, history>>

--------------------------------------------------------------------------------
(* The environment *)

(* The process stops, in the middle of an operation or, after Close, at its end *)
Crash ==
    /\ up /\ MayCrash
    /\ up' = FALSE
    /\ messages' = <<>> /\ closed' = FALSE /\ nextID' = 0 /\ currentSize' = 0
    /\ todo' = <<>> /\ msg' = NoFile
    /\ UNCHANGED <<disk, history>>

Damage ==
    /\ ~up /\ MayDamage /\ index.st = "ok"
    /\ index' = DamagedIndex
    /\ UNCHANGED <<files, up, memory, todo, msg, history>>

Operation ==
    \/ \E m \in Msgs : Send(m)
    \/ WriteMessage \/ WriteFails \/ Commit \/ CommitFails
    \/ Receive \/ Answer \/ AnswerFails
    \/ Close \/ Cleanup \/ Wipe
    \/ Compact \/ RemoveOldest \/ RetentionMet \/ SaveQuietly

Next == Open \/ Operation \/ Crash \/ Damage

Spec == Init /\ [][Next]_vars

--------------------------------------------------------------------------------
(* Properties *)

Steps == {"write", "fit count", "fit size", "expire", "commit", "answer", "wipe", "save quietly"}

TypeOK ==
    /\ files \in [Ids -> Msgs \cup {NoFile}]
    /\ index.st \in {"missing", "damaged", "ok"}
    /\ index.ids \in Seq(Ids) /\ index.next \in 0 .. MaxId /\ index.closed \in BOOLEAN
    /\ up \in BOOLEAN /\ closed \in BOOLEAN
    /\ messages \in Seq(Ids) /\ nextID \in 0 .. MaxId /\ currentSize \in Nat
    /\ todo \in Seq(Steps) /\ msg \in Msgs \cup {NoFile}
    /\ owed \subseteq [id : Ids, msg : Msgs]
    /\ faults \subseteq {"undone", "recovered"}

(* What Send returned nil for stays on disk until Receive takes it, retention
   drops it or Cleanup removes it, at every step of every later operation, across
   crashes, restarts, failed writes and a damaged index: its file has its content,
   and an index that can be parsed lists it (Send, writeMessage, saveIndex,
   loadIndex, recoverIndex). *)
AcceptedIsDurable ==
    \A o \in owed :
       /\ files[o.id] = o.msg
       /\ index.st # "missing"
       /\ index.st = "ok" => o.id \in ToSet(index.ids)
       /\ up => o.id \in ToSet(messages)

(* The queue in memory and the one in the index are in the order of sending, and a
   number that is in use is never given out again, not even after a restart from
   an index saved before the last Send failed or was cut short (nextID, loadIndex,
   recoverIndex, Cleanup).  Recovery sorts by name instead. *)
Ascending(ids, next) ==
    /\ \A m, n \in DOMAIN ids : m < n => ids[m] < ids[n]
    /\ \A n \in DOMAIN ids : ids[n] <= next

QueueInOrder ==
    "recovered" \notin faults => Ascending(messages, nextID) /\ Ascending(index.ids, index.next)

(* currentSize, which decides whether Send is refused or evicts, is the size of
   the queued files, after any sequence of operations and restarts, until a Send
   fails at the index, which leaves the size as it was raised (Send, Receive,
   removeOldest, loadIndex, recoverIndex). *)
SizeIsExact ==
    up /\ ~Do("wipe") /\ "undone" \notin faults => currentSize = TotalSize(ToSet(messages))

(* Making room never goes as far as the message that is being sent, if it fits at
   all, as long as the size it goes by is exact: what Send returns nil for is in the
   queue or had expired (Send, enforceMaxMessages, evictUntilUnderSize). *)
Written == "commit" \in ToSet(todo) /\ "write" \notin ToSet(todo)

NewestIsKept ==
    [][(Do("fit count") \/ Do("fit size")) /\ Written /\ "undone" \notin faults /\ up'
           => nextID \in ToSet(messages')]_vars

--------------------------------------------------------------------------------
(* The inductive invariant *)

(* The steps that may still come after a step of the operation under way *)
MayFollow(first, then) ==
    \/ first \in {"fit size", "save quietly"} /\ then \in {"write", "fit count", "fit size", "expire", "commit"}
    \/ first = "write" /\ then \in {"fit count", "fit size", "expire", "commit"}
    \/ first = "fit count" /\ then \in {"fit size", "expire", "commit"}
    \/ first = "expire" /\ then \in {"fit count", "fit size", "commit"}
    \/ first = "wipe" /\ then = "save quietly"

Left(steps) == ToSet(todo) \cap steps # {}

StepsInOrder ==
    /\ \A m, n \in DOMAIN todo : m < n => MayFollow(todo[m], todo[n])
    /\ \A m, n \in DOMAIN todo : m < n /\ todo[m] = "expire" /\ todo[n] # "commit" => ~Left({"commit"})
    /\ ~up => todo = <<>>

(* No number is listed twice or is above the last one given out, which Send has
   room for and keeps as the newest. *)
Numbered ==
    /\ IsInjective(messages) /\ \A n \in DOMAIN messages : messages[n] <= nextID
    /\ IsInjective(index.ids) /\ \A n \in DOMAIN index.ids : index.ids[n] <= index.next
    /\ Left({"write"}) => nextID < MaxId
    /\ Left({"write", "commit"}) => msg \in Msgs
    /\ Written => /\ \A o \in owed : o.id < nextID
                  /\ nextID \in ToSet(messages) => files[nextID] = msg
    /\ Left({"wipe"}) => owed = {}

(* The size covers what is queued, and exactly that until a Send is undone. *)
SizeCovers ==
    up /\ ~Do("wipe") =>
        /\ currentSize >= TotalSize(ToSet(messages))
        /\ "undone" \notin faults => currentSize = TotalSize(ToSet(messages))

Inv == TypeOK /\ StepsInOrder /\ Numbered /\ AcceptedIsDurable /\ QueueInOrder /\ SizeCovers

(* A message that is larger than the limit is evicted by its own Send *)
AllFit == \A m \in Msgs : Size[m] <= MaxSize

--------------------------------------------------------------------------------
(* What the documentation says and the code does not do *)

(* "Persistent channels for durable message passing": between operations the head
   of the queue can be received.  If its file is missing, Receive returns an error
   and leaves the entry there, and so will every later Receive. *)
HeadIsReadable == Idle /\ messages # <<>> => Exists(Head(messages))

================================================================================
