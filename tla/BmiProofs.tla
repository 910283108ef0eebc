----------------------------- MODULE BmiProofs ------------------------------
(***************************************************************************)
(* Proofs about Bmi for every number of tasks, calls and boots, every      *)
(* length of a transfer and every size of a piece.                         *)
(***************************************************************************)
EXTENDS Bmi, SequenceTheorems, TLAPS

(***************************************************************************)
(* Calls, commands and the loader as records.  What a command carries is   *)
(* part of its type: a read stays within the memory, a write carries the   *)
(* caller's bytes for the addresses it names.                              *)
(***************************************************************************)
Places == {"none", "fill", "test", "credit", "send", "put", "avail", "get"}
CallRec == [op : AllOps, at : Places, len : Nat, addr : Nat, left : Nat,
            polls : Int, recv : Seq(Nat), got : Seq(Int)]
CommandRec == [id : AllOps \cup {"NULL", "zero"}, addr : Nat,
               data : Seq(Int), len : Nat]
ResultRec == [op : AllOps, status : Statuses, len : Nat, got : Seq(Int)]
LoaderRec == [credit : Nat, box : Seq(CommandRec), rdbuf : Seq(Int),
              soc : {0, 9}, mem : [Addresses -> Int], done : BOOLEAN,
              boots : 0 .. MaxBoots, calls : Nat, happens : Settings,
              asked : Nat]

CallOk(c) ==
  /\ c \in CallRec
  /\ (c.at = "none") <=> (c.op = "none")
  /\ c.op = "read" => c.len \in ReadLengths /\ c.addr + c.left = c.len
  /\ c.op = "write" => c.len \in WriteLengths /\ c.addr + c.left = c.len
  /\ c.at \in {"avail", "get"} => c.recv # <<>>

CommandOk(m) ==
  /\ m \in CommandRec
  /\ m.id = "read" => m.addr + m.len <= Longest
  /\ m.id = "writesoc" => m.data = Word(9)
  /\ m.id = "write" => \A i \in 1 .. m.len : m.data[i] = Given(m.addr + i - 1)

LoaderTypes ==
  /\ target \in LoaderRec
  /\ \A i \in 1 .. Len(target.box) : CommandOk(target.box[i])
  /\ \A a \in Addresses : target.mem[a] \in {Before(a), Given(a)}
CallTypes ==
  /\ call \in [Tasks -> CallRec] /\ \A t \in Tasks : CallOk(call[t])
  /\ result \in [Tasks -> ResultRec]
Types ==
  /\ bmiDone \in BOOLEAN /\ CommandOk(pBMICmdBuf)
  /\ LoaderTypes /\ CallTypes

(***************************************************************************)
(* When calls follow one another there is one credit: it is with the       *)
(* loader, in the shared byte of the one call that runs, in the mailbox    *)
(* with its command, or gone with BMI_DONE or with a command the bus lost. *)
(***************************************************************************)
Asking(c) == c.at \in {"test", "credit", "send"}
Holds(t) == call[t].at = "put" \/ (Asking(call[t]) /\ pBMICmdCredits # 0)
OneCredit ==
  /\ Len(target.box) + target.credit <= 1
  /\ target.done => target.box = <<>> /\ target.credit = 0
  /\ \A t \in Tasks : Holds(t) =>
       target.box = <<>> /\ target.credit = 0 /\ ~target.done
  /\ \A t, u \in Tasks : ~Idle(t) /\ ~Idle(u) => t = u
CreditInv == Serial => OneCredit

(***************************************************************************)
(* One task uses BMI, and not after BMIDone has returned, as in the boot   *)
(* of the driver.                                                          *)
(***************************************************************************)
OneCaller == (\A t, u \in Tasks : t = u) /\ "closed" \notin Happens /\ Serial

\* The command buffer holds the command of the call until it is written, and
\* two kinds of calls have no answer.
BufferInv ==
  \A t \in Tasks :
    /\ call[t].op \in {"done", "info"} => call[t].at # "fill"
    /\ call[t].op \in {"done", "write"} =>
         call[t].at \notin {"avail", "get"} /\ call[t].recv = <<>>
    /\ Asking(call[t]) \/ call[t].at = "put" =>
         call[t].op \in {"done", "info"} \/ pBMICmdBuf = CommandOf(call[t])

\* BMIDone of one task: it has closed BMI, and its command is on its way.
DoneOf(t) ==
  /\ call[t].op = "done" => bmiDone
  /\ bmiDone /\ target.boots > 0 =>
       call[t].op = "done" \/ result[t].op = "done"
  /\ result[t].op = "done" => call[t].op = "none"
  /\ result[t].op = "done" /\ result[t].status = "A_OK" =>
       target.done \/ (target.box # <<>> /\ Head(target.box).id = "done")

DoneInv == \A t \in Tasks : DoneOf(t)

(***************************************************************************)
(* Memory as it is when the command in the mailbox is done: the bytes      *)
(* written so far are in it.                                               *)
(***************************************************************************)
Boxed(a) == /\ target.box # <<>> /\ Head(target.box).id = "write"
            /\ a \in Head(target.box).addr ..
                       Head(target.box).addr + Head(target.box).len - 1
Landed(n) == \A a \in 0 .. n - 1 : Boxed(a) \/ target.mem[a] = Given(a)
WrittenOf(t) ==
  /\ call[t].op = "write" => Landed(call[t].addr)
  /\ (/\ call[t].op = "none"
      /\ result[t].op = "write" /\ result[t].status = "A_OK")
     => result[t].len <= Longest /\ Landed(result[t].len)

WrittenInv == \A t \in Tasks : WrittenOf(t)

(***************************************************************************)
(* Nothing after the word that ends the longest write: pieces begin at a   *)
(* word, so the last one ends with the word its last byte is in.           *)
(***************************************************************************)
PastInv ==
  /\ \A a \in Addresses : a >= target.asked => target.mem[a] = Before(a)
  /\ target.box # <<>> /\ Head(target.box).id = "write" =>
       Head(target.box).addr + Head(target.box).len <= target.asked
  /\ \A t \in Tasks : call[t].op = "write" =>
       call[t].addr % 4 = 0 /\ Padded(call[t].len) <= target.asked

(***************************************************************************)
(* The answer that has come or will come is the one the call waits for,    *)
(* and there is none when no call waits, if none was ever given up.        *)
(***************************************************************************)
Coming == IF target.box = <<>> THEN target.rdbuf
          ELSE target.rdbuf \o Reply(Head(target.box))
Waiting(c) == c.at \in {"avail", "get"}
Words == \A n \in ReadLengths : n % 4 = 0

Rest2 == Word(InfoSize) \o Word(Version) \o Word(6)
Rest3 == Word(Version) \o Word(6)
InfoWaits(c, s) ==
  \/ c.got = <<>> /\ c.recv = <<4, 4, InfoSize - 4>> /\ s = Info
  \/ /\ c.got = Word(Sentinel) /\ c.recv = <<4, InfoSize - 4>>
     /\ s = Rest2
  \/ /\ c.got = Word(Sentinel) \o Word(InfoSize)
     /\ c.recv = <<InfoSize - 4>> /\ s = Rest3

\* The answers that fit a call that waits.
Fits(c, s) ==
  CASE c.op = "read" ->
         /\ c.recv = <<4>> /\ Len(s) = 4
         /\ \A i \in 1 .. 4 :
              s[i] \in {Before(c.addr + i - 1), Given(c.addr + i - 1)}
    [] c.op = "readsoc" ->
         c.recv = <<4>> /\ c.got = <<>> /\ s \in {Word(0), Word(9)}
    [] c.op = "exec" -> c.recv = <<4>> /\ c.got = <<>> /\ s = Word(8)
    [] c.op = "info" -> InfoWaits(c, s)
    [] OTHER -> FALSE

\* What a call will ask for, before it has written its command.
Asks(c) ==
  CASE c.op \in {"read", "readsoc", "exec"} -> c.recv = <<4>>
    [] c.op = "info" -> c.recv = <<4, 4, InfoSize - 4>>
    [] OTHER -> c.recv = <<>>

ReadSoFar(c) == /\ c.left > 0 /\ c.left % 4 = 0 /\ Len(c.got) = c.addr
                /\ \A i \in 1 .. c.addr :
                     c.got[i] \in {Before(i - 1), Given(i - 1)}

AnswerOf(t) ==
  /\ ~Waiting(call[t]) => Coming = <<>>
  /\ Waiting(call[t]) => Fits(call[t], Coming)
  /\ call[t].at = "get" => target.box = <<>>
  /\ Waiting(call[t]) /\ target.box # <<>> => target.rdbuf = <<>>
  /\ Asking(call[t]) \/ call[t].at = "put" => Asks(call[t])
  /\ call[t].op = "read" => ReadSoFar(call[t])
  /\ ~Waiting(call[t]) /\ call[t].op # "read" => call[t].got = <<>>

AnswerInv == \A t \in Tasks : AnswerOf(t)

\* What a call was told is right.
RightOf(t) ==
  result[t].status = "A_OK" =>
    /\ result[t].op = "read" =>
         /\ Len(result[t].got) = result[t].len
         /\ \A i \in 1 .. result[t].len :
              result[t].got[i] \in {Before(i - 1), Given(i - 1)}
    /\ result[t].op = "readsoc" => result[t].got \in {Word(0), Word(9)}
    /\ result[t].op = "exec" => result[t].got = Word(8)
    /\ result[t].op = "info" => result[t].got = Info

IInv ==
  /\ Types /\ CreditInv
  /\ OneCaller => BufferInv /\ DoneInv /\ WrittenInv /\ PastInv
  /\ OneCaller /\ Words /\ Prompt => AnswerInv /\ ReadExact /\ AnswerMatches
-----------------------------------------------------------------------------
(***************************************************************************)
(* The operators of the model.                                             *)
(***************************************************************************)
\* A function on the first numbers is a sequence.
LEMMA FunctionIsSequence ==
  ASSUME NEW n \in Nat, NEW f \in [1 .. n -> Int]
  PROVE  f \in Seq(Int) /\ Len(f) = n
OBVIOUS

\* There is a longest transfer, and memory reaches past it.
LEMMA LongestIsLongest ==
  /\ Longest \in Nat /\ \A k \in ReadLengths \cup WriteLengths : k <= Longest
  /\ Addresses = 0 .. Longest + 3
<1>1. Lengths \subseteq Nat
  BY BmiAssumption DEF Lengths
<1>2. \E n \in Lengths : \A k \in Lengths : k <= n
  BY BmiAssumption DEF Lengths
<1>3. Longest \in Lengths /\ \A k \in Lengths : k <= Longest
  BY <1>2 DEF Longest
<1> QED BY <1>1, <1>3 DEF Lengths, Addresses

\* Making a number of bytes a multiple of a word adds at most three.
LEMMA PaddedBounds ==
  ASSUME NEW n \in Nat
  PROVE  Padded(n) \in Nat /\ n <= Padded(n) /\ Padded(n) <= n + 3
<1>1. PICK m \in Nat : m = (n + 3) \div 4 /\ 4 * m <= n + 3 /\ n + 3 < 4 * m + 4
  OBVIOUS
<1> QED BY <1>1 DEF Padded

\* The bytes of a piece: a read never asks for more than is left, a write
\* for at most three more.
LEMMA PieceBounds ==
  ASSUME NEW c \in CallRec
  PROVE  /\ Txlen(c) \in Nat /\ Rxlen(c) \in Nat /\ Rxlen(c) <= c.left
         /\ c.left % 4 = 0 /\ c.left > 0 => Rxlen(c) = 4
<1>1. c.left \in Nat /\ Chunk \in Nat
  BY BmiAssumption DEF CallRec
<1>2. Padded(c.left) \in Nat
  BY <1>1, PaddedBounds
<1> QED BY <1>1, <1>2 DEF Txlen, Rxlen

\* A call's command is one the loader can carry out.
LEMMA CommandOfCall ==
  ASSUME NEW c, CallOk(c), c.op # "none"
  PROVE  CommandOk(CommandOf(c))
<1>0. c \in CallRec /\ c.len \in Nat /\ c.addr \in Nat /\ c.left \in Nat
      /\ c.op \in AllOps
  BY DEF CallOk, CallRec
<1>1. CASE c.op = "write"
  <2>1. Txlen(c) \in Nat /\ c.len - c.left = c.addr
    BY <1>0, <1>1, PieceBounds DEF CallOk
  <2>2. CommandOf(c) =
          [id |-> "write", addr |-> c.addr, len |-> Txlen(c),
           data |-> [i \in 1 .. Txlen(c) |-> Given(c.len - c.left + i - 1)]]
    BY <1>1 DEF CommandOf
  <2>3. [i \in 1 .. Txlen(c) |-> Given(c.len - c.left + i - 1)] \in Seq(Int)
    BY <1>0, <2>1 DEF Given
  <2> QED BY <1>0, <2>1, <2>2, <2>3 DEF CommandOk, CommandRec, AllOps
<1>2. CASE c.op = "read"
  <2>1. /\ Rxlen(c) \in Nat /\ c.addr + Rxlen(c) <= c.len
        /\ c.len <= Longest /\ Longest \in Nat
    BY <1>0, <1>2, PieceBounds, LongestIsLongest DEF CallOk
  <2> QED BY <1>0, <1>2, <2>1 DEF CommandOf, CommandOk, CommandRec, AllOps
<1>3. CASE c.op \in {"exec", "writesoc"}
  BY <1>0, <1>3 DEF CommandOf, CommandOk, CommandRec, AllOps, Word
<1>4. CASE c.op \notin {"write", "read", "exec", "writesoc"}
  <2>1. CommandOf(c) = [id |-> c.op, addr |-> 0, data |-> <<>>, len |-> 0]
    BY <1>4 DEF CommandOf, Command
  <2> QED BY <1>0, <1>4, <2>1 DEF CommandOk, CommandRec
<1> QED BY <1>1, <1>2, <1>3, <1>4

-----------------------------------------------------------------------------
(***************************************************************************)
(* Types.                                                                  *)
(***************************************************************************)
LEMMA NoCallIsOk == CallOk(NoCall) /\ NoResult \in ResultRec
BY DEF NoCall, CallOk, CallRec, AllOps, Places, NoResult, ResultRec, Statuses

\* A command buffer that is not there, and one that was cleared.
LEMMA NoBufferIsOk ==
  /\ NoBuffer = [id |-> "NULL", addr |-> 0, data |-> <<>>, len |-> 0]
  /\ Empty = [id |-> "zero", addr |-> 0, data |-> <<>>, len |-> 0]
  /\ CommandOk(NoBuffer) /\ CommandOk(Empty)
<1>1. /\ NoBuffer = [id |-> "NULL", addr |-> 0, data |-> <<>>, len |-> 0]
      /\ Empty = [id |-> "zero", addr |-> 0, data |-> <<>>, len |-> 0]
  BY DEF NoBuffer, Empty, Command
<1> QED BY <1>1 DEF CommandOk, CommandRec

\* A step gives one task another call, and perhaps a result.
LEMMA CallTypesKept ==
  ASSUME CallTypes, NEW t \in Tasks, NEW d, CallOk(d),
         call' = [call EXCEPT ![t] = d],
         \/ result' = result
         \/ \E r \in ResultRec : result' = [result EXCEPT ![t] = r]
  PROVE  CallTypes'
BY DEF CallTypes, CallOk

\* The end of a call.
LEMMA ReturnTypes ==
  ASSUME CallTypes, NEW t \in Tasks, NEW c \in CallRec,
         NEW s \in Statuses, Return(t, c, s)
  PROVE  CallTypes'
<1>1. [op |-> c.op, status |-> s, len |-> c.len, got |-> c.got] \in ResultRec
  BY DEF CallRec, ResultRec
<1> QED BY <1>1, NoCallIsOk, CallTypesKept DEF Return

\* What a call that goes on is like; its answer may have been read.
Goes(c) ==
  /\ c \in CallRec /\ c.op # "none"
  /\ c.op = "read" => c.len \in ReadLengths /\ c.addr + c.left = c.len
  /\ c.op = "write" => c.len \in WriteLengths /\ c.addr + c.left = c.len

Moved(c) == IF c.op = "write" THEN Txlen(c) ELSE Rxlen(c)
Left(c) == IF Moved(c) > c.left THEN 0 ELSE c.left - Moved(c)

\* The three ways a call goes on after a command or an answer.
LEMMA AdvanceCases ==
  ASSUME NEW t \in Tasks, NEW c, Goes(c), Advance(t, c)
  PROVE  \/ /\ c.recv # <<>>
            /\ call' = [call EXCEPT ![t] =
                          [c EXCEPT !.at = "avail", !.polls = Polls]]
            /\ UNCHANGED <<result, pBMICmdBuf>>
         \/ /\ c.recv = <<>> /\ c.op \in {"read", "write"}
            /\ Moved(c) < c.left
            /\ call' = [call EXCEPT ![t] =
                          [c EXCEPT !.at = "fill", !.left = c.left - Moved(c),
                                    !.addr = c.addr + Moved(c)]]
            /\ UNCHANGED <<result, pBMICmdBuf>>
         \/ /\ c.recv = <<>>
            /\ c.op \in {"read", "write"} => Moved(c) >= c.left
            /\ Return(t, c, "A_OK")
            /\ pBMICmdBuf' = IF c.op = "done" THEN NoBuffer ELSE pBMICmdBuf
<1>0. c.left \in Nat /\ Moved(c) \in Nat
  BY PieceBounds DEF Goes, CallRec, Moved
<1>1. CASE c.recv # <<>>
  BY <1>1 DEF Advance
<1>2. CASE c.recv = <<>> /\ c.op \in {"read", "write"} /\ Left(c) > 0
  <2>1. Moved(c) < c.left /\ Left(c) = c.left - Moved(c)
    BY <1>0, <1>2 DEF Left
  <2> QED BY <1>2, <2>1 DEF Advance, Left, Moved
<1>3. CASE c.recv = <<>> /\ ~(c.op \in {"read", "write"} /\ Left(c) > 0)
  <2>1. c.op \in {"read", "write"} => Moved(c) >= c.left
    BY <1>0, <1>3 DEF Left
  <2> QED BY <1>3, <2>1 DEF Advance, Left, Moved
<1> QED BY <1>1, <1>2, <1>3

\* What follows a command or an answer keeps the types.
LEMMA AdvanceTypes ==
  ASSUME CallTypes, CommandOk(pBMICmdBuf),
         NEW t \in Tasks, NEW c, Goes(c), Advance(t, c)
  PROVE  CallTypes' /\ CommandOk(pBMICmdBuf')
<1>0. /\ c \in CallRec /\ c.left \in Nat /\ c.addr \in Nat /\ c.len \in Nat
      /\ Moved(c) \in Nat
  BY PieceBounds DEF Goes, CallRec, Moved
<1>1. CASE c.recv # <<>> /\ call' = [call EXCEPT ![t] =
                          [c EXCEPT !.at = "avail", !.polls = Polls]]
           /\ UNCHANGED <<result, pBMICmdBuf>>
  <2> DEFINE d == [c EXCEPT !.at = "avail", !.polls = Polls]
  <2>0. Polls \in Int
    BY BmiAssumption
  <2>1. d \in CallRec /\ d.at = "avail" /\ d.op = c.op /\ d.recv = c.recv
        /\ d.len = c.len /\ d.addr = c.addr /\ d.left = c.left
    BY <1>0, <2>0 DEF CallRec, Places
  <2> HIDE DEF d
  <2>2. CallOk(d)
    BY <1>1, <2>1 DEF Goes, CallOk
  <2> QED BY <1>1, <2>2, CallTypesKept DEF d
<1>2. CASE /\ Moved(c) < c.left
           /\ call' = [call EXCEPT ![t] =
                         [c EXCEPT !.at = "fill", !.left = c.left - Moved(c),
                                   !.addr = c.addr + Moved(c)]]
           /\ UNCHANGED <<result, pBMICmdBuf>>
  <2>1. c.left - Moved(c) \in Nat /\ c.addr + Moved(c) \in Nat
        /\ (c.addr + Moved(c)) + (c.left - Moved(c)) = c.addr + c.left
    BY <1>0, <1>2
  <2>2. CallOk([c EXCEPT !.at = "fill", !.left = c.left - Moved(c),
                         !.addr = c.addr + Moved(c)])
    BY <1>0, <2>1 DEF Goes, CallOk, CallRec, Places
  <2> QED BY <1>2, <2>2, CallTypesKept
<1>3. CASE /\ Return(t, c, "A_OK")
           /\ pBMICmdBuf' = IF c.op = "done" THEN NoBuffer ELSE pBMICmdBuf
  <2>1. CommandOk(NoBuffer)
    BY NoBufferIsOk
  <2> QED BY <1>0, <1>3, <2>1, ReturnTypes DEF Statuses
<1> QED BY Zenon, <1>1, <1>2, <1>3, AdvanceCases

\* The loader's record when one of its fields changes.
LEMMA LoaderFields ==
  ASSUME LoaderTypes
  PROVE  /\ target.credit \in Nat /\ target.box \in Seq(CommandRec)
         /\ target.rdbuf \in Seq(Int) /\ target.soc \in {0, 9}
         /\ target.mem \in [Addresses -> Int] /\ target.done \in BOOLEAN
         /\ target.boots \in 0 .. MaxBoots /\ target.calls \in Nat
         /\ target.happens \in Settings /\ target.asked \in Nat
BY DEF LoaderTypes, LoaderRec

\* A loader that starts has its types.
LEMMA LoaderStarts ==
  ASSUME NEW n \in 0 .. MaxBoots, NEW h \in Settings, target' = Loader(n, h)
  PROVE  LoaderTypes'
<1>1. \A a \in Addresses : a \in Nat /\ Before(a) \in Int
  BY LongestIsLongest DEF Before
<1> QED BY <1>1 DEF Loader, LoaderTypes, LoaderRec

\* A command that is carried out.
LEMMA LoadedFields ==
  ASSUME LoaderTypes, NEW cmd, target' = Loaded(cmd)
  PROVE  /\ target'.box = Tail(target.box)
         /\ target'.rdbuf = target.rdbuf \o Reply(cmd)
         /\ target'.soc = IF cmd.id = "writesoc" THEN cmd.data[1]
                          ELSE target.soc
         /\ cmd.id # "write" => target'.mem = target.mem
         /\ cmd.id = "write" =>
              target'.mem = [a \in Addresses |->
                 IF a \in cmd.addr .. cmd.addr + cmd.len - 1
                 THEN cmd.data[a - cmd.addr + 1] ELSE target.mem[a]]
         /\ target'.done = (target.done \/ cmd.id = "done")
         /\ target'.credit = IF cmd.id = "done" THEN target.credit
                             ELSE target.credit + 1
         /\ target'.boots = target.boots /\ target'.calls = target.calls
         /\ target'.happens = target.happens
         /\ target'.asked = target.asked
         /\ DOMAIN target' = DOMAIN target
BY DEF LoaderTypes, LoaderRec, Loaded

\* Words, and the answers made of them, are bytes.
LEMMA WordsAreBytes ==
  /\ \A v \in Int : Word(v) \in Seq(Int) /\ Len(Word(v)) = 4
  /\ Info \in Seq(Int) /\ Rest2 \in Seq(Int) /\ Rest3 \in Seq(Int)
<1>1. \A v \in Int : Word(v) \in Seq(Int) /\ Len(Word(v)) = 4
  BY DEF Word
<1>2. Sentinel \in Int /\ InfoSize \in Int /\ Version \in Int /\ 6 \in Int
  BY DEF Sentinel, InfoSize, Version
<1> QED BY <1>1, <1>2 DEF Info, Rest2, Rest3

\* An answer is a sequence of bytes, that to a read those of the memory.
LEMMA ReplyIsBytes ==
  ASSUME LoaderTypes, NEW m, CommandOk(m)
  PROVE  /\ Reply(m) \in Seq(Int)
         /\ m.id = "read" =>
              /\ Len(Reply(m)) = m.len
              /\ \A i \in 1 .. m.len : Reply(m)[i] \in
                   {Before(m.addr + i - 1), Given(m.addr + i - 1)}
<1>1. CASE m.id = "read"
  <2>1. Reply(m) = [i \in 1 .. m.len |-> target.mem[m.addr + i - 1]]
    BY <1>1 DEF Reply
  <2>2. m.len \in Nat /\ m.addr \in Nat /\ m.addr + m.len <= Longest
    BY <1>1 DEF CommandOk, CommandRec
  <2>3. \A i \in 1 .. m.len : m.addr + i - 1 \in Addresses
    BY <2>2, LongestIsLongest
  <2>4. target.mem \in [Addresses -> Int]
    BY LoaderFields
  <2>5. \A i \in 1 .. m.len : target.mem[m.addr + i - 1] \in
                   {Before(m.addr + i - 1), Given(m.addr + i - 1)}
    BY <2>3 DEF LoaderTypes
  <2>6. [i \in 1 .. m.len |-> target.mem[m.addr + i - 1]] \in Seq(Int)
    BY <2>2, <2>3, <2>4
  <2> QED BY <2>1, <2>2, <2>5, <2>6
<1>2. CASE m.id # "read"
  <2>1. target.soc \in Int /\ 8 \in Int
    BY LoaderFields
  <2>2. Reply(m) \in {Word(8), Word(target.soc), Info, <<>>}
    BY <1>2 DEF Reply
  <2>3. /\ Word(8) \in Seq(Int) /\ Word(target.soc) \in Seq(Int)
        /\ Info \in Seq(Int) /\ <<>> \in Seq(Int)
    BY <2>1, WordsAreBytes
  <2> QED BY Zenon, <1>2, <2>2, <2>3
<1> QED BY <1>1, <1>2

\* The loader keeps its types when it carries out a command.
LEMMA LoaderRunsTypes ==
  ASSUME LoaderTypes, LoaderRuns
  PROVE  LoaderTypes'
<1> DEFINE m == Head(target.box)
<1>1. /\ target.box # <<>> /\ target' = Loaded(m) /\ ~target.done
      /\ target.box \in Seq(CommandRec) /\ Len(target.box) > 0
  BY LoaderFields DEF LoaderRuns
<1>2. CommandOk(m)
  BY <1>1 DEF LoaderTypes
<1>3. /\ m.addr \in Nat /\ m.len \in Nat
      /\ m.id = "writesoc" => m.data[1] = 9
      /\ m.id = "write" =>
           \A i \in 1 .. m.len : m.data[i] = Given(m.addr + i - 1)
  BY <1>2 DEF CommandOk, CommandRec, Word
<1>4. Reply(m) \in Seq(Int)
  BY <1>2, ReplyIsBytes
<1> HIDE DEF m
<1>L. target'.credit = (IF m.id = "done" THEN target.credit
                        ELSE target.credit + 1)
      /\ target'.rdbuf = target.rdbuf \o Reply(m)
      /\ target'.box = Tail(target.box)
      /\ target'.soc = (IF m.id = "writesoc" THEN m.data[1] ELSE target.soc)
  BY <1>1, LoadedFields
<1>5. /\ Tail(target.box) \in Seq(CommandRec)
      /\ Len(Tail(target.box)) = Len(target.box) - 1
      /\ \A i \in 1 .. Len(Tail(target.box)) :
           Tail(target.box)[i] = target.box[i + 1]
           /\ i + 1 \in 1 .. Len(target.box)
  BY <1>1
<1>6. /\ target'.mem \in [Addresses -> Int]
      /\ \A a \in Addresses : target'.mem[a] \in {Before(a), Given(a)}
  <2>0. /\ target.mem \in [Addresses -> Int]
        /\ \A a \in Addresses : target.mem[a] \in {Before(a), Given(a)}
        /\ \A a \in Addresses : a \in Nat /\ Given(a) \in Int
    BY LoaderFields, LongestIsLongest DEF LoaderTypes, Given
  <2>1. CASE m.id # "write"
    BY <1>1, <2>0, <2>1, LoadedFields
  <2>2. CASE m.id = "write"
    <3>1. \A a \in Addresses : a \in m.addr .. m.addr + m.len - 1 =>
            m.data[a - m.addr + 1] = Given(a)
      <4> TAKE a \in Addresses
      <4> HAVE a \in m.addr .. m.addr + m.len - 1
      <4>0. a \in Nat /\ m.addr \in Nat /\ m.len \in Nat
        BY <1>3, <2>0
      <4>1. a - m.addr + 1 \in 1 .. m.len /\ m.addr + (a - m.addr + 1) - 1 = a
        BY <4>0
      <4> QED BY <1>3, <2>2, <4>1
    <3>2. target'.mem = [a \in Addresses |->
             IF a \in m.addr .. m.addr + m.len - 1
             THEN m.data[a - m.addr + 1] ELSE target.mem[a]]
      BY <1>1, <2>2, LoadedFields
    <3> QED BY <2>0, <3>1, <3>2
  <2> QED BY <2>1, <2>2
<1>7. target' \in LoaderRec
  <2>1. /\ target'.rdbuf \in Seq(Int) /\ target'.box \in Seq(CommandRec)
        /\ target'.soc \in {0, 9} /\ target'.done \in BOOLEAN
        /\ target'.credit \in Nat /\ target'.boots \in 0 .. MaxBoots
        /\ target'.calls \in Nat /\ target'.happens \in Settings
    <3>1. target'.rdbuf \in Seq(Int) /\ target'.box \in Seq(CommandRec)
      BY <1>L, <1>4, <1>5, LoaderFields
    <3>2. target'.soc \in {0, 9}
      BY <1>L, <1>3, LoaderFields
    <3>3. target'.done \in BOOLEAN
      BY Zenon, <1>1, LoaderFields, LoadedFields
    <3>4. target'.credit \in Nat
      BY <1>L, LoaderFields
    <3>5. /\ target'.boots \in 0 .. MaxBoots
          /\ target'.calls \in Nat /\ target'.happens \in Settings
      BY Zenon, <1>1, LoaderFields, LoadedFields
    <3> QED BY Zenon, <3>1, <3>2, <3>3, <3>4, <3>5
  <2>2. Loaded(m) = [target EXCEPT
            !.box = target'.box, !.rdbuf = target'.rdbuf,
            !.soc = target'.soc, !.mem = target'.mem, !.done = target'.done,
            !.credit = target'.credit]
    BY Zenon, <1>1, LoadedFields DEF Loaded, LoaderTypes, LoaderRec
  <2> QED BY <1>1, <1>6, <2>1, <2>2 DEF LoaderTypes, LoaderRec
<1>8. \A i \in 1 .. Len(target'.box) : CommandOk(target'.box[i])
  <2>1. target'.box = Tail(target.box)
    BY <1>1, LoadedFields
  <2> QED BY <1>5, <2>1 DEF LoaderTypes
<1> QED BY <1>6, <1>7, <1>8 DEF LoaderTypes

\* The calls: what a task may begin, or be told at once.
Begun(op) ==
  CASE op = "done" -> [NoCall EXCEPT !.op = "done", !.at = "test",
                                     !.polls = Polls]
    [] op = "info" -> [NoCall EXCEPT !.op = "info", !.at = "test",
                         !.polls = Polls, !.recv = <<4, 4, InfoSize - 4>>]
    [] OTHER -> NoCall
BegunBuffered(op, n) ==
  [NoCall EXCEPT !.op = op, !.at = "fill", !.len = n, !.left = n]

\* A call that begins is one of its kind.
LEMMA BegunIsOk ==
  /\ \A op \in {"done", "info"} :
       /\ CallOk(Begun(op)) /\ Begun(op).op = op /\ Begun(op).at = "test"
       /\ Begun(op).got = <<>>
       /\ Begun(op).recv = IF op = "info" THEN <<4, 4, InfoSize - 4>> ELSE <<>>
  /\ \A op \in AllOps \ {"none", "done", "info"}, n \in Nat :
       (/\ op = "read" => n \in ReadLengths
        /\ op = "write" => n \in WriteLengths) =>
         LET c == BegunBuffered(op, n)
         IN /\ CallOk(c) /\ c.op = op /\ c.at = "fill" /\ c.len = n
            /\ c.left = n /\ c.addr = 0 /\ c.got = <<>> /\ c.recv = <<>>
<1>1. ASSUME NEW op \in {"done", "info"}
      PROVE  /\ CallOk(Begun(op)) /\ Begun(op).op = op
             /\ Begun(op).at = "test" /\ Begun(op).got = <<>>
             /\ Begun(op).recv = IF op = "info" THEN <<4, 4, InfoSize - 4>>
                                 ELSE <<>>
  <2>0. Polls \in Int
    BY BmiAssumption
  <2>1. Begun(op) = [op |-> op, at |-> "test", len |-> 0, addr |-> 0,
           left |-> 0, polls |-> Polls, got |-> <<>>,
           recv |-> IF op = "info" THEN <<4, 4, InfoSize - 4>> ELSE <<>>]
    BY <1>1 DEF Begun, NoCall
  <2> QED BY <1>1, <2>0, <2>1 DEF CallOk, CallRec, AllOps, Places, InfoSize
<1>2. ASSUME NEW op \in AllOps \ {"none", "done", "info"}, NEW n \in Nat,
             op = "read" => n \in ReadLengths,
             op = "write" => n \in WriteLengths
      PROVE  LET c == BegunBuffered(op, n)
             IN /\ CallOk(c) /\ c.op = op /\ c.at = "fill" /\ c.len = n
                /\ c.left = n /\ c.addr = 0 /\ c.got = <<>> /\ c.recv = <<>>
  <2> DEFINE c == BegunBuffered(op, n)
  <2>1. /\ NoCall \in CallRec /\ NoCall.addr = 0
        /\ NoCall.got = <<>> /\ NoCall.recv = <<>>
    BY NoCallIsOk DEF CallOk, NoCall
  <2>2. /\ c \in CallRec /\ c.op = op /\ c.at = "fill" /\ c.len = n
        /\ c.left = n /\ c.addr = 0 /\ c.got = <<>> /\ c.recv = <<>>
    BY <1>2, <2>1 DEF BegunBuffered, CallRec, Places
  <2> HIDE DEF c
  <2>3. CallOk(c)
    BY <1>2, <2>2 DEF CallOk
  <2> QED BY <2>2, <2>3 DEF c
<1> QED BY <1>1, <1>2

\* What a call does: it begins, or it returns at once.
LEMMA CallCases ==
  ASSUME NEW t \in Tasks, Call(t)
  PROVE  /\ Idle(t) /\ target.boots > 0
         /\ \E k \in Nat : target' = Called(k)
         /\ \/ "closed" \in Happens
            \/ Open /\ \A u \in Tasks : result[u].op # "done"
         /\ Serial => \A u \in Tasks : Idle(u)
         /\ \/ /\ \/ bmiDone /\ Return(t, Begun("done"), "A_OK")
                  \/ bmiDone /\ Return(t, Begun("info"), "A_ERROR")
               /\ UNCHANGED <<bmiDone, pBMICmdBuf>>
            \/ /\ ~bmiDone /\ bmiDone' = TRUE
               /\ call' = [call EXCEPT ![t] = Begun("done")]
               /\ pBMICmdCredits' = 0 /\ UNCHANGED <<result, pBMICmdBuf>>
            \/ /\ ~bmiDone /\ pBMICmdCredits' = 0
               /\ call' = [call EXCEPT ![t] = Begun("info")]
               /\ UNCHANGED <<bmiDone, result, pBMICmdBuf>>
            \/ \E op \in AllOps \ {"none", "done", "info"}, n \in Nat :
                 /\ op = "read" => n \in ReadLengths
                 /\ op = "write" => n \in WriteLengths
                 /\ op = "write" => target' = Called(n)
                 /\ pBMICmdBuf' = Empty /\ bmiDone' = bmiDone
                 /\ \/ bmiDone /\ Return(t, BegunBuffered(op, n), "A_ERROR")
                    \/ /\ ~bmiDone /\ op \in {"read", "write"} /\ n = 0
                       /\ Return(t, BegunBuffered(op, n), "A_OK")
                    \/ /\ ~bmiDone /\ ~(op \in {"read", "write"} /\ n = 0)
                       /\ call' = [call EXCEPT ![t] = BegunBuffered(op, n)]
                       /\ UNCHANGED result
<1>0. /\ Idle(t) /\ target.boots > 0
      /\ \/ "closed" \in Happens
         \/ Open /\ \A u \in Tasks : result[u].op # "done"
      /\ Serial => \A u \in Tasks : Idle(u)
      /\ \E k \in Nat : target' = Called(k)
  <2>1. 0 \in Nat /\ WriteLengths \subseteq Nat
    BY BmiAssumption
  <2> QED BY <2>1 DEF Call
<1>1. CASE BMIDone(t) /\ UNCHANGED pBMICmdBuf
  BY <1>0, <1>1 DEF BMIDone, Begun
<1>2. CASE BMIGetTargetInfo(t) /\ UNCHANGED pBMICmdBuf
  BY <1>0, <1>2 DEF BMIGetTargetInfo, Begun
<1>3. ASSUME NEW op \in AllOps \ {"none", "done", "info"}, NEW n \in Nat,
             op = "read" => n \in ReadLengths,
             op = "write" => n \in WriteLengths,
             op = "write" => target' = Called(n),
             Buffered(t, op, n), pBMICmdBuf' = Empty
      PROVE  /\ op = "read" => n \in ReadLengths
             /\ op = "write" => n \in WriteLengths
             /\ op = "write" => target' = Called(n)
             /\ pBMICmdBuf' = Empty /\ bmiDone' = bmiDone
             /\ \/ bmiDone /\ Return(t, BegunBuffered(op, n), "A_ERROR")
                \/ /\ ~bmiDone /\ op \in {"read", "write"} /\ n = 0
                   /\ Return(t, BegunBuffered(op, n), "A_OK")
                \/ /\ ~bmiDone /\ ~(op \in {"read", "write"} /\ n = 0)
                   /\ call' = [call EXCEPT ![t] = BegunBuffered(op, n)]
                   /\ UNCHANGED result
  BY <1>3 DEF Buffered, BegunBuffered
<1>4. ReadLengths \subseteq Nat /\ WriteLengths \subseteq Nat /\ 4 \in Nat
  BY BmiAssumption
<1>5. ASSUME NEW n \in ReadLengths, BMIReadMemory(t, n), pBMICmdBuf' = Empty
      PROVE  Buffered(t, "read", n) /\ n \in Nat
             /\ "read" \in AllOps \ {"none", "done", "info"}
  BY <1>4, <1>5 DEF BMIReadMemory, AllOps
<1>6. ASSUME NEW n \in WriteLengths, BMIWriteMemory(t, n)
      PROVE  Buffered(t, "write", n) /\ n \in Nat
             /\ "write" \in AllOps \ {"none", "done", "info"}
  BY <1>4, <1>6 DEF BMIWriteMemory, AllOps
<1>7. ASSUME BMIExecute(t) \/ BMIReadSOCRegister(t) \/ BMIWriteSOCRegister(t)
      PROVE  \E op \in AllOps \ {"none", "done", "info", "read", "write"} :
               Buffered(t, op, 4)
  BY <1>7 DEF BMIExecute, BMIReadSOCRegister, BMIWriteSOCRegister, AllOps
<1>8. CASE (\E n \in ReadLengths : BMIReadMemory(t, n)) /\ pBMICmdBuf' = Empty
  BY <1>0, <1>3, <1>5, <1>8
<1>9. CASE \E n \in WriteLengths :
             BMIWriteMemory(t, n) /\ target' = Called(n) /\ pBMICmdBuf' = Empty
  BY <1>0, <1>3, <1>6, <1>9
<1>10. CASE (BMIExecute(t) \/ BMIReadSOCRegister(t) \/ BMIWriteSOCRegister(t))
            /\ pBMICmdBuf' = Empty
  BY <1>0, <1>3, <1>4, <1>7, <1>10
<1> QED BY <1>1, <1>2, <1>8, <1>9, <1>10 DEF Call

\* Every step keeps the types.
LEMMA TypesKept ==
  ASSUME Types, [Next]_vars
  PROVE  Types'
<1>0. /\ LoaderTypes /\ CallTypes /\ bmiDone \in BOOLEAN
      /\ CommandOk(pBMICmdBuf)
  BY DEF Types
<1>1. CASE BMIInit
  <2>1. LoaderTypes'
    <3>1. target.boots + 1 \in 0 .. MaxBoots /\ Happens \in Settings
      BY <1>0, <1>1, LoaderFields, BmiAssumption DEF BMIInit, Happens
    <3> QED BY <1>1, <3>1, LoaderStarts DEF BMIInit
  <2>2. CallTypes'
    BY <1>0, <1>1, NoCallIsOk DEF BMIInit, CallTypes
  <2> QED BY <1>0, <1>1, <2>1, <2>2, NoBufferIsOk DEF BMIInit, Types
<1>2. CASE LoaderRuns
  <2>1. LoaderTypes'
    BY <1>0, <1>2, LoaderRunsTypes
  <2> QED BY <1>0, <1>2, <2>1 DEF LoaderRuns, Types, CallTypes
<1>3. ASSUME NEW t \in Tasks, Call(t) PROVE Types'
  <2>1. LoaderTypes'
    <3>1. PICK k \in Nat : target' = Called(k)
      BY <1>3, CallCases
    <3>2. PICK a \in Nat :
            target' = [target EXCEPT !.calls = @ + 1, !.asked = a]
      <4>1. Padded(k) \in Nat /\ target.asked \in Nat
        BY <1>0, PaddedBounds, LoaderFields
      <4> QED BY <3>1, <4>1 DEF Called
    <3>3. target.calls + 1 \in Nat
      BY <1>0, LoaderFields
    <3> QED BY <1>0, <3>2, <3>3 DEF LoaderTypes, LoaderRec
  <2>2. ASSUME NEW c, CallOk(c), NEW s \in Statuses, Return(t, c, s)
        PROVE  CallTypes'
    BY <1>0, <2>2, ReturnTypes DEF CallOk
  <2>3. ASSUME NEW c, CallOk(c), call' = [call EXCEPT ![t] = c],
               result' = result
        PROVE  CallTypes'
    BY <1>0, <2>3, CallTypesKept
  <2>4. "A_OK" \in Statuses /\ "A_ERROR" \in Statuses
    BY DEF Statuses
  <2>5. CallOk(Begun("done")) /\ CallOk(Begun("info"))
    BY BegunIsOk
  <2>6. CallTypes' /\ bmiDone' \in BOOLEAN /\ CommandOk(pBMICmdBuf')
    <3>1. CASE /\ \/ Return(t, Begun("done"), "A_OK")
                  \/ Return(t, Begun("info"), "A_ERROR")
               /\ UNCHANGED <<bmiDone, pBMICmdBuf>>
      BY <1>0, <2>2, <2>4, <2>5, <3>1
    <3>2. CASE /\ \/ call' = [call EXCEPT ![t] = Begun("done")]
                  \/ call' = [call EXCEPT ![t] = Begun("info")]
               /\ bmiDone' = TRUE \/ bmiDone' = bmiDone
               /\ UNCHANGED <<result, pBMICmdBuf>>
      BY <1>0, <2>3, <2>5, <3>2
    <3>3. ASSUME NEW op \in AllOps \ {"none", "done", "info"}, NEW n \in Nat,
                 op = "read" => n \in ReadLengths,
                 op = "write" => n \in WriteLengths,
                 pBMICmdBuf' = Empty, bmiDone' = bmiDone,
                 \/ \E s \in Statuses : Return(t, BegunBuffered(op, n), s)
                 \/ /\ call' = [call EXCEPT ![t] = BegunBuffered(op, n)]
                    /\ UNCHANGED result
          PROVE  CallTypes' /\ bmiDone' \in BOOLEAN /\ CommandOk(pBMICmdBuf')
      <4>1. CallOk(BegunBuffered(op, n))
        BY <3>3, BegunIsOk
      <4> QED BY <1>0, <2>2, <2>3, <3>3, <4>1, NoBufferIsOk
    <3> QED BY <1>3, <2>4, <3>1, <3>2, <3>3, CallCases
  <2> QED BY <2>1, <2>6 DEF Types
<1>4. ASSUME NEW t \in Tasks, TaskStep(t) PROVE Types'
  <2> DEFINE c == call[t]
  <2>0. /\ CallOk(c) /\ c \in CallRec /\ CallTypes /\ call[t] = c
        /\ "A_OK" \in Statuses /\ "A_ERROR" \in Statuses
        /\ "A_ASSERT" \in Statuses
    BY <1>0 DEF CallTypes, Statuses
  <2>1. CASE Fill(t)
    <3>1. c.at = "fill" /\ c.op # "none"
      BY <2>0, <2>1 DEF Fill, CallOk
    <3>2. Rxlen(c) \in Nat /\ Polls \in Int
      BY <2>0, PieceBounds, BmiAssumption
    <3>3. PICK r \in {<<Rxlen(c)>>, <<4>>, <<>>} :
            call' = [call EXCEPT ![t].at = "test", ![t].polls = Polls,
                                 ![t].recv = r]
      BY <2>1 DEF Fill
    <3>4. r \in Seq(Nat)
      <4>1. <<Rxlen(c)>> \in Seq(Nat) /\ <<4>> \in Seq(Nat)
            /\ <<>> \in Seq(Nat)
        BY <3>2
      <4> QED BY Zenon, <3>3, <4>1
    <3> DEFINE d == [c EXCEPT !.at = "test", !.polls = Polls, !.recv = r]
    <3>5. call' = [call EXCEPT ![t] = d]
      BY <2>0, <3>3 DEF CallTypes
    <3>6. d \in CallRec /\ d.at = "test" /\ d.op = c.op
          /\ d.len = c.len /\ d.addr = c.addr /\ d.left = c.left
      BY <2>0, <3>2, <3>4 DEF CallRec, Places
    <3> HIDE DEF d
    <3>7. CallOk(d)
      BY <2>0, <3>1, <3>6 DEF CallOk
    <3>8. CallTypes'
      BY <2>0, <2>1, <3>5, <3>7, CallTypesKept DEF Fill
    <3>9. CommandOk(pBMICmdBuf')
      BY <2>0, <2>1, <3>1, CommandOfCall DEF Fill
    <3> QED BY <1>0, <2>1, <3>8, <3>9 DEF Fill, Types, LoaderTypes
  <2>2. CASE Test(t) \/ Credit(t) \/ Send(t)
    <3>1. Asking(c) /\ c.op # "none" /\ c.polls \in Int
      BY <2>0, <2>2 DEF Test, Credit, Send, Asking, CallOk, CallRec
    <3>2. ASSUME NEW p \in {"test", "credit", "send", "put"}, NEW q \in Int,
                 call' = [call EXCEPT ![t] = [c EXCEPT !.at = p, !.polls = q]],
                 result' = result
          PROVE  CallTypes'
      <4> DEFINE d == [c EXCEPT !.at = p, !.polls = q]
      <4>1. d \in CallRec /\ d.at = p /\ d.op = c.op
            /\ d.len = c.len /\ d.addr = c.addr /\ d.left = c.left
        BY <2>0, <3>2 DEF CallRec, Places
      <4> HIDE DEF d
      <4>2. CallOk(d)
        BY <2>0, <3>1, <3>2, <4>1 DEF CallOk
      <4> QED BY <2>0, <3>2, <4>2, CallTypesKept DEF d
    <3>3. ASSUME NEW p \in {"test", "credit", "send", "put"},
                 call' = [call EXCEPT ![t].at = p], result' = result
          PROVE  CallTypes'
      <4>1. call' = [call EXCEPT ![t] = [c EXCEPT !.at = p,
                                                  !.polls = c.polls]]
        BY <2>0, <3>3 DEF CallTypes, CallRec
      <4> QED BY Zenon, <3>1, <3>2, <3>3, <4>1
    <3>4. CASE Test(t)
      <4>1. PICK p \in {"credit", "send"}, q \in Int :
              call' = [call EXCEPT ![t].at = p, ![t].polls = q]
        <5>1. c.polls \in Int /\ c.polls - 1 \in Int
          BY <3>1
        <5>2. CASE c.polls > 0 /\ pBMICmdCredits = 0
          <6>1. call' = [call EXCEPT ![t].at = "credit",
                                     ![t].polls = c.polls - 1]
            BY <3>4, <5>2 DEF Test
          <6> QED BY <5>1, <6>1
        <5>3. CASE ~(c.polls > 0 /\ pBMICmdCredits = 0)
          <6>1. call' = [call EXCEPT ![t].at = "send", ![t].polls = c.polls]
            BY <3>4, <5>3 DEF Test
          <6> QED BY <5>1, <6>1
        <5> QED BY <5>2, <5>3
      <4>2. call' = [call EXCEPT ![t] = [c EXCEPT !.at = p, !.polls = q]]
        BY <2>0, <4>1 DEF CallTypes
      <4>3. CallTypes'
        BY <3>2, <3>4, <4>2 DEF Test
      <4> QED BY <1>0, <3>4, <4>3 DEF Test, Types, LoaderTypes
    <3>5. CASE Credit(t)
      <4>1. CallTypes'
        BY <3>3, <3>5 DEF Credit
      <4>2. LoaderTypes'
        <5>1. CASE target' = target
          BY <1>0, <5>1 DEF LoaderTypes
        <5>2. CASE target' = [target EXCEPT !.credit =
                                              IF @ > 0 THEN @ - 1 ELSE 0]
          <6>1. PICK k \in Nat : target' = [target EXCEPT !.credit = k]
            <7>1. (IF target.credit > 0 THEN target.credit - 1 ELSE 0) \in Nat
              BY <1>0, LoaderFields
            <7> QED BY Zenon, <5>2, <7>1
          <6> QED BY <1>0, <6>1 DEF LoaderTypes, LoaderRec
        <5> QED BY <3>5, <5>1, <5>2 DEF Credit
      <4> QED BY <1>0, <3>5, <4>1, <4>2 DEF Credit, Types
    <3>6. CASE Send(t)
      <4>1. CASE Return(t, c, "A_ERROR")
        <5>1. CallTypes'
          BY <2>0, <4>1, ReturnTypes
        <5> QED BY <1>0, <3>6, <5>1 DEF Send, Types, LoaderTypes
      <4>2. CASE call' = [call EXCEPT ![t].at = "put"] /\ UNCHANGED result
        <5>1. CallTypes'
          BY <3>3, <4>2
        <5> QED BY <1>0, <3>6, <5>1 DEF Send, Types, LoaderTypes
      <4> QED BY <3>6, <4>1, <4>2 DEF Send
    <3> QED BY <2>2, <3>4, <3>5, <3>6
  <2>3. CASE Put(t)
    <3>1. Goes(c) /\ c.at = "put"
      BY <2>0, <2>3 DEF Put, CallOk, Goes
    <3>2. CASE Return(t, c, "A_ERROR") /\ UNCHANGED <<target, pBMICmdBuf>>
      <4>1. CallTypes'
        BY <2>0, <3>2, ReturnTypes
      <4> QED BY <1>0, <2>3, <3>2, <4>1 DEF Put, Types, LoaderTypes
    <3>3. ASSUME NEW m, m = pBMICmdBuf \/ m = CommandOf(c), Advance(t, c),
                 target' = [target EXCEPT !.box = Append(@, m)]
          PROVE  Types'
      <4>1. CommandOk(m) /\ m \in CommandRec
        BY <1>0, <2>0, <3>1, <3>3, CommandOfCall DEF Goes, CommandOk
      <4>2. LoaderTypes'
        <5>1. target.box \in Seq(CommandRec)
          BY <1>0, LoaderFields
        <5>2. Append(target.box, m) \in Seq(CommandRec)
          BY <4>1, <5>1
        <5>3. target' \in LoaderRec /\ target'.mem = target.mem
              /\ target'.box = Append(target.box, m)
          BY <1>0, <3>3, <5>2 DEF LoaderTypes, LoaderRec
        <5> QED BY <1>0, <4>1, <5>1, <5>3 DEF LoaderTypes
      <4> QED BY <1>0, <2>3, <3>1, <3>3, <4>2, AdvanceTypes DEF Put, Types
    <3> QED BY <2>3, <3>2, <3>3 DEF Put
  <2>4. CASE Avail(t)
    <3>1. c.at = "avail" /\ c.op # "none"
      BY <2>0, <2>4 DEF Avail, CallOk
    <3>2. ASSUME NEW p \in {"avail", "get"}, NEW q \in Int,
                 call' = [call EXCEPT ![t] = [c EXCEPT !.at = p, !.polls = q]],
                 result' = result
          PROVE  CallTypes'
      <4> DEFINE d == [c EXCEPT !.at = p, !.polls = q]
      <4>1. d \in CallRec /\ d.at = p /\ d.op = c.op /\ d.recv = c.recv
            /\ d.len = c.len /\ d.addr = c.addr /\ d.left = c.left
        BY <2>0, <3>2 DEF CallRec, Places
      <4> HIDE DEF d
      <4>2. CallOk(d)
        BY <2>0, <3>1, <3>2, <4>1 DEF CallOk
      <4> QED BY <2>0, <3>2, <4>2, CallTypesKept DEF d
    <3>3. ASSUME call' = [call EXCEPT ![t].at = "get"], UNCHANGED result
          PROVE  CallTypes'
      <4>1. c.polls \in Int
            /\ call' = [call EXCEPT ![t] = [c EXCEPT !.at = "get",
                                                     !.polls = c.polls]]
        BY <2>0, <3>3 DEF CallTypes, CallRec, Places
      <4> QED BY Zenon, <3>2, <3>3, <4>1
    <3>4. ASSUME call' = [call EXCEPT ![t].polls = @ - 1], UNCHANGED result
          PROVE  CallTypes'
      <4>0. c.polls \in Int
        BY <2>0 DEF CallRec, Places
      <4>1. /\ c.polls - 1 \in Int
            /\ call' = [call EXCEPT ![t] = [c EXCEPT !.at = "avail",
                                                     !.polls = c.polls - 1]]
        <5>1. call' = [call EXCEPT ![t] = [c EXCEPT !.polls = c.polls - 1]]
          BY <3>4
        <5>2. [c EXCEPT !.at = "avail", !.polls = c.polls - 1]
                = [c EXCEPT !.polls = c.polls - 1]
          BY <2>0, <3>1 DEF CallRec
        <5>3. c.polls - 1 \in Int
          BY <4>0
        <5> QED BY Zenon, <5>1, <5>2, <5>3
      <4> QED BY Zenon, <3>2, <3>4, <4>1
    <3>5. ASSUME Return(t, c, "A_ERROR") PROVE CallTypes'
      BY <2>0, <3>5, ReturnTypes
    <3>6. CallTypes'
      BY <2>4, <3>3, <3>4, <3>5 DEF Avail
    <3> QED BY <1>0, <2>4, <3>6 DEF Avail, Types, LoaderTypes
  <2>5. CASE Get(t)
    <3> DEFINE n == Head(c.recv)
               have == Len(target.rdbuf)
               read == [i \in 1 .. n |-> IF i <= have THEN target.rdbuf[i]
                                         ELSE Garbage]
               now == [c EXCEPT !.recv = Tail(@), !.got = @ \o read]
    <3>1. c.at = "get" /\ c.op # "none" /\ c.recv # <<>> /\ c.recv \in Seq(Nat)
          /\ c.got \in Seq(Int) /\ target.rdbuf \in Seq(Int)
      BY <1>0, <2>0, <2>5, LoaderFields DEF Get, CallOk, CallRec
    <3>2. n \in Nat /\ Tail(c.recv) \in Seq(Nat) /\ have \in Nat
          /\ c.got \o read \in Seq(Int)
      <4>1. n \in Nat /\ Tail(c.recv) \in Seq(Nat) /\ have \in Nat
        BY <3>1
      <4>2. \A i \in 1 .. n : (IF i <= have THEN target.rdbuf[i]
                                ELSE Garbage) \in Int
        BY <3>1, <4>1 DEF Garbage
      <4>3. read \in Seq(Int)
        <5>1. read \in [1 .. n -> Int]
          BY <4>2
        <5> QED BY <4>1, <5>1, FunctionIsSequence
      <4> QED BY <3>1, <4>1, <4>3
    <3> HIDE DEF n, have, read
    <3>3. now \in CallRec /\ now.op = c.op /\ now.len = c.len
          /\ now.addr = c.addr /\ now.left = c.left
      BY <2>0, <3>2 DEF CallRec
    <3> HIDE DEF now
    <3>4. Goes(now)
      BY <2>0, <3>1, <3>3 DEF Goes, CallOk
    <3>5. \/ /\ target' = [target EXCEPT !.rdbuf = SubSeq(@, n + 1, have)]
             /\ \/ /\ \E s \in Statuses : Return(t, now, s)
                   /\ UNCHANGED pBMICmdBuf
                \/ Advance(t, now)
          \/ Return(t, c, "A_ERROR") /\ UNCHANGED <<target, pBMICmdBuf>>
      BY Zenon, <2>0, <2>5 DEF Get, now, n, have, read
    <3>6. CASE Return(t, c, "A_ERROR") /\ UNCHANGED <<target, pBMICmdBuf>>
      <4>1. CallTypes'
        BY <2>0, <3>6, ReturnTypes
      <4> QED BY <1>0, <2>5, <3>6, <4>1 DEF Get, Types, LoaderTypes
    <3>7. CASE target' = [target EXCEPT !.rdbuf = SubSeq(@, n + 1, have)]
      <4>1. SubSeq(target.rdbuf, n + 1, have) \in Seq(Int)
        BY <3>1, <3>2 DEF have
      <4>2. LoaderTypes'
        BY <1>0, <3>7, <4>1 DEF LoaderTypes, LoaderRec
      <4>3. CASE Advance(t, now)
        BY <1>0, <2>5, <3>4, <4>2, <4>3, AdvanceTypes DEF Get, Types
      <4>4. ASSUME NEW s \in Statuses, Return(t, now, s), UNCHANGED pBMICmdBuf
            PROVE  Types'
        <5>1. CallTypes'
          BY <2>0, <3>3, <4>4, ReturnTypes
        <5> QED BY <1>0, <2>5, <4>2, <4>4, <5>1 DEF Get, Types
      <4> QED BY <3>5, <3>6, <4>3, <4>4
    <3> QED BY <3>5, <3>6, <3>7
  <2> QED BY <1>4, <2>1, <2>2, <2>3, <2>4, <2>5 DEF TaskStep
<1>5. CASE UNCHANGED vars
  BY <1>5 DEF vars, Types, LoaderTypes, CallTypes
<1> QED BY <1>1, <1>2, <1>3, <1>4, <1>5 DEF Next

-----------------------------------------------------------------------------
(***************************************************************************)
(* What each step of a task changes.                                       *)
(***************************************************************************)
Others(t) ==
  \A u \in Tasks \ {t} : call'[u] = call[u] /\ result'[u] = result[u]
\* The target but for the named field, and the count of calls.
SameMemory == target'.mem = target.mem /\ target'.soc = target.soc
SameLoader == /\ target'.credit = target.credit /\ target'.done = target.done
              /\ target'.boots = target.boots
              /\ target'.happens = target.happens
SameBox == target'.box = target.box /\ target'.rdbuf = target.rdbuf
Kept(t) == Others(t) /\ SameMemory /\ target'.boots = target.boots
           /\ target'.happens = target.happens

\* The piece a call is at.
SamePiece(c, d) == /\ d.op = c.op /\ d.len = c.len /\ d.addr = c.addr
                   /\ d.left = c.left
Ended(t, c, s) ==
  /\ call'[t] = NoCall
  /\ result'[t].op = c.op /\ result'[t].status = s
  /\ result'[t].len = c.len /\ result'[t].got = c.got

\* The command depends on the piece alone.
LEMMA SameCommand ==
  ASSUME NEW c, NEW d, SamePiece(c, d)
  PROVE  CommandOf(d) = CommandOf(c) /\ Txlen(d) = Txlen(c)
         /\ Rxlen(d) = Rxlen(c) /\ Moved(d) = Moved(c)
BY DEF SamePiece, CommandOf, Txlen, Rxlen, Moved

\* A task's call ends.
LEMMA ReturnFacts ==
  ASSUME CallTypes, NEW t \in Tasks, NEW c, NEW s, Return(t, c, s)
  PROVE  Others(t) /\ Ended(t, c, s)
BY DEF CallTypes, Return, Others, Ended

\* A task's call changes and its result does not.
LEMMA MoveFacts ==
  ASSUME CallTypes, NEW t \in Tasks, NEW d,
         call' = [call EXCEPT ![t] = d], result' = result
  PROVE  Others(t) /\ call'[t] = d /\ result'[t] = result[t]
BY DEF CallTypes, Others

\* A step that leaves the loader alone.
LEMMA LoaderSame ==
  ASSUME target' = target
  PROVE  SameMemory /\ SameLoader /\ SameBox
BY DEF SameMemory, SameLoader, SameBox

\* A task outside a call has read nothing.
LEMMA NoCallIsNowhere == NoCall.at = "none" /\ NoCall.op = "none"
                         /\ NoCall.got = <<>>
BY DEF NoCall

\* Filling the command buffer.
LEMMA FillFacts ==
  ASSUME CallTypes, NEW t \in Tasks, Fill(t)
  PROVE  /\ call[t].at = "fill" /\ call'[t].at = "test"
         /\ pBMICmdCredits' = 0
         /\ SamePiece(call[t], call'[t]) /\ call'[t].got = call[t].got
         /\ call'[t].recv =
              CASE call[t].op = "read" -> <<Rxlen(call[t])>>
                [] call[t].op \in {"exec", "readsoc"} -> <<4>>
                [] OTHER -> <<>>
         /\ pBMICmdBuf' = CommandOf(call[t])
         /\ Others(t) /\ result'[t] = result[t]
         /\ UNCHANGED <<bmiDone, target>>
<1>1. call[t] \in CallRec /\ t \in DOMAIN call
  BY DEF CallTypes
<1> DEFINE r == CASE call[t].op = "read" -> <<Rxlen(call[t])>>
                  [] call[t].op \in {"exec", "readsoc"} -> <<4>>
                  [] OTHER -> <<>>
<1>2. /\ call[t].at = "fill" /\ pBMICmdBuf' = CommandOf(call[t])
      /\ call' = [call EXCEPT ![t].at = "test", ![t].polls = Polls,
                              ![t].recv = r]
      /\ pBMICmdCredits' = 0
      /\ UNCHANGED <<bmiDone, target, result>>
  BY DEF Fill
<1> HIDE DEF r
<1>3. call'[t] = [call[t] EXCEPT !.at = "test", !.polls = Polls, !.recv = r]
      /\ Others(t)
  <2>1. call' = [call EXCEPT ![t] = [call[t] EXCEPT
                   !.at = "test", !.polls = Polls, !.recv = r]]
    BY <1>1, <1>2
  <2> QED BY Zenon, <1>2, <2>1, MoveFacts
<1>4. /\ call'[t].at = "test" /\ SamePiece(call[t], call'[t])
      /\ call'[t].got = call[t].got /\ call'[t].recv = r
  BY <1>1, <1>3 DEF SamePiece, CallRec
<1> QED BY <1>2, <1>3, <1>4 DEF r

\* Looking for the credit: the call and its piece stay, and who takes what.
LEMMA AskFacts ==
  ASSUME CallTypes, LoaderTypes, NEW t \in Tasks,
         Test(t) \/ Credit(t) \/ Send(t)
  PROVE  /\ Asking(call[t]) /\ Kept(t) /\ SameBox
         /\ UNCHANGED <<bmiDone, pBMICmdBuf>>
         /\ target'.done = target.done
         /\ \/ /\ Asking(call'[t]) \/ call'[t].at = "put"
               /\ SamePiece(call[t], call'[t])
               /\ call'[t].got = call[t].got /\ call'[t].recv = call[t].recv
               /\ result'[t] = result[t]
            \/ Ended(t, call[t], "A_ERROR")
         /\ \/ /\ UNCHANGED <<pBMICmdCredits, target>>
               /\ call'[t].at = "put" => pBMICmdCredits # 0
            \/ /\ pBMICmdCredits' = target.credit
               /\ target'.credit = IF target.credit > 0
                                   THEN target.credit - 1 ELSE 0
               /\ Asking(call'[t])
<1>1. call[t] \in CallRec /\ t \in DOMAIN call
  BY DEF CallTypes
<1>2. Asking(call[t]) /\ UNCHANGED <<bmiDone, pBMICmdBuf>>
  BY DEF Test, Credit, Send, Asking
<1>3. ASSUME NEW p \in {"test", "credit", "send", "put"}, NEW q,
             call' = [call EXCEPT ![t] = [call[t] EXCEPT !.at = p,
                                                         !.polls = q]],
             result' = result
      PROVE  /\ Others(t) /\ call'[t].at = p
             /\ Asking(call'[t]) \/ call'[t].at = "put"
             /\ SamePiece(call[t], call'[t])
             /\ call'[t].got = call[t].got /\ call'[t].recv = call[t].recv
             /\ result'[t] = result[t]
  <2>1. /\ call'[t] = [call[t] EXCEPT !.at = p, !.polls = q] /\ Others(t)
        /\ result'[t] = result[t]
    BY <1>3, MoveFacts
  <2> QED BY <1>1, <1>3, <2>1 DEF SamePiece, CallRec, Asking
<1>4. ASSUME NEW p \in {"test", "credit", "send", "put"},
             call' = [call EXCEPT ![t].at = p]
      PROVE  call' = [call EXCEPT ![t] = [call[t] EXCEPT !.at = p,
                                            !.polls = call[t].polls]]
  BY <1>1, <1>4 DEF CallTypes, CallRec
<1>5. CASE Test(t)
  <2>1. PICK p \in {"credit", "send"},
             q \in {call[t].polls, call[t].polls - 1} :
          call' = [call EXCEPT ![t].at = p, ![t].polls = q]
    BY <1>5 DEF Test
  <2>2. call' = [call EXCEPT ![t] = [call[t] EXCEPT !.at = p, !.polls = q]]
    BY <1>1, <2>1
  <2>3. UNCHANGED <<pBMICmdCredits, target, result>>
    BY <1>5 DEF Test
  <2> QED BY <1>2, <1>3, <2>2, <2>3, LoaderSame DEF Kept, SameLoader
<1>6. CASE Credit(t)
  <2>1. CASE /\ pBMICmdCredits' = target.credit
             /\ target' = [target EXCEPT !.credit = IF @ > 0 THEN @ - 1
                                                    ELSE 0]
             /\ call' = [call EXCEPT ![t].at = "test"] /\ UNCHANGED result
    <3>1. /\ SameMemory /\ SameBox /\ target'.boots = target.boots
          /\ target'.done = target.done /\ target'.happens = target.happens
          /\ target'.credit = IF target.credit > 0
                              THEN target.credit - 1 ELSE 0
      BY <2>1 DEF LoaderTypes, LoaderRec, SameMemory, SameBox
    <3>2. Asking(call'[t])
      BY <1>3, <1>4, <2>1 DEF Asking
    <3> QED BY <1>2, <1>3, <1>4, <2>1, <3>1, <3>2 DEF Kept
  <2>2. CASE /\ call' = [call EXCEPT ![t].at = "send"]
             /\ UNCHANGED <<pBMICmdCredits, target, result>>
    BY <1>2, <1>3, <1>4, <2>2, LoaderSame DEF Kept, SameLoader
  <2> QED BY <1>6, <2>1, <2>2 DEF Credit
<1>7. CASE Send(t)
  <2>1. CASE Return(t, call[t], "A_ERROR")
             /\ UNCHANGED <<pBMICmdCredits, target>>
    BY <1>2, <2>1, ReturnFacts, LoaderSame, NoCallIsNowhere
       DEF Kept, SameLoader, Ended
  <2>2. CASE /\ pBMICmdCredits # 0 /\ call' = [call EXCEPT ![t].at = "put"]
             /\ UNCHANGED <<pBMICmdCredits, target, result>>
    BY <1>2, <1>3, <1>4, <2>2, LoaderSame DEF Kept, SameLoader
  <2> QED BY <1>7, <2>1, <2>2 DEF Send
<1> QED BY <1>5, <1>6, <1>7

\* What follows a command or an answer.
LEMMA AdvanceFacts ==
  ASSUME CallTypes, NEW t \in Tasks, NEW c, Goes(c), Advance(t, c)
  PROVE  /\ Others(t)
         /\ \/ /\ c.recv # <<>> /\ call'[t].at = "avail"
               /\ SamePiece(c, call'[t]) /\ call'[t].got = c.got
               /\ call'[t].recv = c.recv /\ result'[t] = result[t]
            \/ /\ c.recv = <<>> /\ c.op \in {"read", "write"}
               /\ Moved(c) < c.left /\ call'[t].at = "fill"
               /\ call'[t].op = c.op /\ call'[t].len = c.len
               /\ call'[t].left = c.left - Moved(c)
               /\ call'[t].addr = c.addr + Moved(c)
               /\ call'[t].got = c.got /\ call'[t].recv = c.recv
               /\ result'[t] = result[t]
            \/ /\ c.recv = <<>> /\ Ended(t, c, "A_OK")
               /\ c.op \in {"read", "write"} => Moved(c) >= c.left
<1>0. c \in CallRec
  BY DEF Goes
<1>1. CASE /\ c.recv # <<>>
           /\ call' = [call EXCEPT ![t] =
                         [c EXCEPT !.at = "avail", !.polls = Polls]]
           /\ UNCHANGED <<result, pBMICmdBuf>>
  <2>1. call'[t] = [c EXCEPT !.at = "avail", !.polls = Polls] /\ Others(t)
        /\ result'[t] = result[t]
    BY <1>1, MoveFacts
  <2>2. /\ call'[t].at = "avail" /\ SamePiece(c, call'[t])
        /\ call'[t].got = c.got /\ call'[t].recv = c.recv
    BY <1>0, <2>1 DEF SamePiece, CallRec
  <2> QED BY <1>1, <2>1, <2>2
<1>2. CASE /\ c.recv = <<>> /\ c.op \in {"read", "write"}
           /\ Moved(c) < c.left
           /\ call' = [call EXCEPT ![t] =
                          [c EXCEPT !.at = "fill", !.left = c.left - Moved(c),
                                    !.addr = c.addr + Moved(c)]]
           /\ UNCHANGED <<result, pBMICmdBuf>>
  <2>1. /\ call'[t] = [c EXCEPT !.at = "fill", !.left = c.left - Moved(c),
                                !.addr = c.addr + Moved(c)]
        /\ Others(t) /\ result'[t] = result[t]
    BY <1>2, MoveFacts
  <2>2. /\ call'[t].at = "fill" /\ call'[t].op = c.op /\ call'[t].len = c.len
        /\ call'[t].left = c.left - Moved(c) /\ call'[t].got = c.got
        /\ call'[t].addr = c.addr + Moved(c) /\ call'[t].recv = c.recv
    BY <1>0, <2>1 DEF CallRec
  <2> QED BY <1>2, <2>1, <2>2
<1>3. CASE /\ c.recv = <<>> /\ Return(t, c, "A_OK")
           /\ c.op \in {"read", "write"} => Moved(c) >= c.left
  BY <1>3, ReturnFacts
<1> QED BY Zenon, <1>1, <1>2, <1>3, AdvanceCases

\* Writing the command.
LEMMA PutFacts ==
  ASSUME CallTypes, LoaderTypes, NEW t \in Tasks, Put(t)
  PROVE  /\ call[t].at = "put" /\ Kept(t) /\ SameLoader
         /\ target'.rdbuf = target.rdbuf /\ bmiDone' = bmiDone
         /\ \/ /\ target'.box = target.box /\ "bus" \in Happens
               /\ Ended(t, call[t], "A_ERROR")
            \/ /\ target'.box = Append(target.box,
                    IF call[t].op \in {"done", "info"} THEN CommandOf(call[t])
                    ELSE pBMICmdBuf)
               /\ Goes(call[t]) /\ Advance(t, call[t])
<1>1. call[t].at = "put" /\ bmiDone' = bmiDone /\ Goes(call[t])
  BY DEF Put, CallTypes, CallOk, Goes
<1>2. CASE "bus" \in Happens /\ Return(t, call[t], "A_ERROR")
           /\ UNCHANGED target
  BY <1>1, <1>2, ReturnFacts, LoaderSame DEF Kept, SameLoader, SameBox
<1>3. ASSUME NEW m, target' = [target EXCEPT !.box = Append(@, m)],
             Advance(t, call[t])
      PROVE  /\ Kept(t) /\ SameLoader /\ target'.rdbuf = target.rdbuf
             /\ target'.box = Append(target.box, m)
  <2>1. Others(t)
    BY <1>1, <1>3, AdvanceFacts
  <2> QED BY <1>3, <2>1
          DEF LoaderTypes, LoaderRec, Kept, SameMemory, SameLoader
<1> QED BY <1>1, <1>2, <1>3 DEF Put

\* Waiting for the answer.
LEMMA AvailFacts ==
  ASSUME CallTypes, NEW t \in Tasks, Avail(t)
  PROVE  /\ call[t].at = "avail" /\ Others(t)
         /\ UNCHANGED <<bmiDone, pBMICmdBuf, target>>
         /\ \/ /\ Head(call[t].recv) < 4 \/ Len(target.rdbuf) >= 4
               /\ call'[t].at = "get" /\ SamePiece(call[t], call'[t])
               /\ call'[t].got = call[t].got /\ call'[t].recv = call[t].recv
               /\ result'[t] = result[t]
            \/ /\ "slow" \in Happens
               /\ call'[t].at = "avail" /\ SamePiece(call[t], call'[t])
               /\ call'[t].got = call[t].got /\ call'[t].recv = call[t].recv
               /\ result'[t] = result[t]
            \/ /\ "slow" \in Happens \/ "reply" \in Happens
               /\ Ended(t, call[t], "A_ERROR")
<1>1. call[t] \in CallRec /\ t \in DOMAIN call
  BY DEF CallTypes
<1>2. call[t].at = "avail" /\ UNCHANGED <<bmiDone, pBMICmdBuf, target>>
  BY DEF Avail
<1>3. CASE /\ Head(call[t].recv) < 4 \/ Len(target.rdbuf) >= 4
           /\ call' = [call EXCEPT ![t].at = "get"] /\ UNCHANGED result
  <2>1. call'[t] = [call[t] EXCEPT !.at = "get"] /\ Others(t)
        /\ result'[t] = result[t]
    BY <1>1, <1>3 DEF Others
  <2>2. /\ call'[t].at = "get" /\ SamePiece(call[t], call'[t])
        /\ call'[t].got = call[t].got /\ call'[t].recv = call[t].recv
    BY <1>1, <2>1 DEF SamePiece, CallRec
  <2> QED BY <1>2, <1>3, <2>1, <2>2
<1>4. CASE "slow" \in Happens /\ call' = [call EXCEPT ![t].polls = @ - 1]
           /\ UNCHANGED result
  <2>1. call'[t] = [call[t] EXCEPT !.polls = @ - 1] /\ Others(t)
        /\ result'[t] = result[t]
    BY <1>1, <1>4 DEF Others
  <2>2. /\ call'[t].at = "avail" /\ SamePiece(call[t], call'[t])
        /\ call'[t].got = call[t].got /\ call'[t].recv = call[t].recv
    BY <1>1, <1>2, <2>1 DEF SamePiece, CallRec
  <2> QED BY <1>2, <1>4, <2>1, <2>2
<1>5. CASE ("slow" \in Happens \/ "reply" \in Happens)
           /\ Return(t, call[t], "A_ERROR")
  BY <1>2, <1>5, ReturnFacts
<1> QED BY <1>3, <1>4, <1>5 DEF Avail

\* Reading the answer; now is the call with what was read.
Read(t) == [i \in 1 .. Head(call[t].recv) |->
              IF i <= Len(target.rdbuf) THEN target.rdbuf[i] ELSE Garbage]
Now(t) == [call[t] EXCEPT !.recv = Tail(@), !.got = @ \o Read(t)]
\* What a read of the mailbox changes.
LEMMA GetFacts ==
  ASSUME CallTypes, LoaderTypes, NEW t \in Tasks, Get(t)
  PROVE  /\ call[t].at = "get" /\ Kept(t) /\ SameLoader
         /\ target'.box = target.box /\ bmiDone' = bmiDone
         /\ SamePiece(call[t], Now(t)) /\ Goes(Now(t))
         /\ Now(t).recv = Tail(call[t].recv)
         /\ Now(t).got = call[t].got \o Read(t)
         /\ \/ /\ target'.rdbuf = target.rdbuf /\ "reply" \in Happens
               /\ Ended(t, call[t], "A_ERROR")
            \/ /\ target'.rdbuf = SubSeq(target.rdbuf, Head(call[t].recv) + 1,
                                         Len(target.rdbuf))
               /\ \/ /\ call[t].op = "info" /\ call[t].got = <<>>
                     /\ Read(t) # Word(Sentinel)
                     /\ Ended(t, Now(t), "A_ERROR")
                  \/ /\ call[t].op = "info" /\ Len(call[t].got) = 4
                     /\ Read(t) # Word(InfoSize)
                     /\ Ended(t, Now(t), "A_ASSERT")
                  \/ Advance(t, Now(t))
<1>1. /\ call[t].at = "get" /\ bmiDone' = bmiDone
      /\ CallOk(call[t]) /\ call[t] \in CallRec
  BY DEF Get, CallTypes
<1>2. /\ call[t].op # "none" /\ call[t].recv # <<>>
      /\ call[t].recv \in Seq(Nat) /\ call[t].got \in Seq(Int)
      /\ target.rdbuf \in Seq(Int)
  BY <1>1, LoaderFields DEF CallOk, CallRec
<1>3. Tail(call[t].recv) \in Seq(Nat) /\ call[t].got \o Read(t) \in Seq(Int)
  <2>1. /\ Head(call[t].recv) \in Nat /\ Tail(call[t].recv) \in Seq(Nat)
        /\ Len(target.rdbuf) \in Nat
    BY <1>2
  <2>2. \A i \in 1 .. Head(call[t].recv) :
          (IF i <= Len(target.rdbuf) THEN target.rdbuf[i] ELSE Garbage) \in Int
    BY <1>2, <2>1 DEF Garbage
  <2>3. Read(t) \in [1 .. Head(call[t].recv) -> Int]
    BY <2>2 DEF Read
  <2>4. Read(t) \in Seq(Int)
    BY <2>1, <2>3, FunctionIsSequence
  <2> QED BY <1>2, <2>1, <2>4
<1>4. /\ Now(t) \in CallRec /\ SamePiece(call[t], Now(t))
      /\ Now(t).recv = Tail(call[t].recv)
      /\ Now(t).got = call[t].got \o Read(t)
  BY <1>1, <1>3 DEF Now, CallRec, SamePiece
<1>5. Goes(Now(t))
  BY <1>1, <1>2, <1>4 DEF Goes, CallOk, SamePiece
<1>6. CASE "reply" \in Happens /\ Return(t, call[t], "A_ERROR")
           /\ UNCHANGED target
  BY <1>1, <1>4, <1>5, <1>6, ReturnFacts, LoaderSame
     DEF Kept, SameLoader, SameBox
<1>7. ASSUME target' = [target EXCEPT !.rdbuf =
                 SubSeq(@, Head(call[t].recv) + 1, Len(target.rdbuf))]
      PROVE  /\ SameMemory /\ SameLoader /\ target'.box = target.box
             /\ target'.rdbuf = SubSeq(target.rdbuf, Head(call[t].recv) + 1,
                                       Len(target.rdbuf))
  BY <1>7 DEF LoaderTypes, LoaderRec, SameMemory, SameLoader
<1>8. \/ "reply" \in Happens /\ Return(t, call[t], "A_ERROR")
         /\ UNCHANGED target
      \/ /\ target' = [target EXCEPT !.rdbuf =
                 SubSeq(@, Head(call[t].recv) + 1, Len(target.rdbuf))]
         /\ \/ /\ call[t].op = "info" /\ call[t].got = <<>>
               /\ Read(t) # Word(Sentinel) /\ Return(t, Now(t), "A_ERROR")
            \/ /\ call[t].op = "info" /\ Len(call[t].got) = 4
               /\ Read(t) # Word(InfoSize) /\ Return(t, Now(t), "A_ASSERT")
            \/ Advance(t, Now(t))
  BY DEF Get, Now, Read
<1>9. Advance(t, Now(t)) => Others(t)
  BY <1>5, AdvanceFacts
<1> QED BY <1>1, <1>4, <1>5, <1>6, <1>7, <1>8, <1>9, ReturnFacts
        DEF Kept, SameLoader

\* A call that begins, or returns at once.
LEMMA CallFacts ==
  ASSUME CallTypes, LoaderTypes, NEW t \in Tasks, Call(t)
  PROVE  /\ call[t].op = "none" /\ target.boots > 0
         /\ Kept(t) /\ SameLoader /\ SameBox
         /\ "closed" \in Happens \/ result[t].op # "done"
         /\ Serial => \A u \in Tasks : Idle(u)
         /\ target'.asked >= target.asked /\ target'.asked \in Nat
         /\ \/ /\ bmiDone /\ bmiDone' = bmiDone
               /\ call'[t] = NoCall
               /\ \/ result'[t].op = "done"
                  \/ result'[t].status = "A_ERROR" /\ result'[t].op # "done"
            \/ /\ ~bmiDone /\ bmiDone' = TRUE /\ result'[t] = result[t]
               /\ call'[t].op = "done" /\ call'[t].at = "test"
               /\ pBMICmdCredits' = 0
               /\ call'[t].recv = <<>> /\ call'[t].got = <<>>
            \/ /\ ~bmiDone /\ bmiDone' = FALSE /\ result'[t] = result[t]
               /\ call'[t].op = "info" /\ call'[t].at = "test"
               /\ pBMICmdCredits' = 0
               /\ call'[t].recv = <<4, 4, InfoSize - 4>>
               /\ call'[t].got = <<>>
            \/ /\ ~bmiDone /\ bmiDone' = FALSE
               /\ call'[t] = NoCall
               /\ result'[t].op \in {"read", "write"}
               /\ result'[t].len = 0 /\ result'[t].got = <<>>
            \/ /\ ~bmiDone /\ bmiDone' = FALSE /\ result'[t] = result[t]
               /\ call'[t].op \notin {"none", "done", "info"}
               /\ call'[t].at = "fill" /\ call'[t].addr = 0
               /\ call'[t].op \in {"read", "write"} => call'[t].left > 0
               /\ call'[t].left = call'[t].len
               /\ call'[t].op = "write" =>
                    Padded(call'[t].len) <= target'.asked
               /\ call'[t].got = <<>> /\ call'[t].recv = <<>>
<1>1. call[t].op = "none"
      /\ ("closed" \in Happens \/ result[t].op # "done")
      /\ target.boots > 0
      /\ (Serial => \A u \in Tasks : Idle(u))
      /\ target'.asked >= target.asked /\ target'.asked \in Nat
  <2>1. PICK k \in Nat : target' = Called(k)
    BY CallCases
  <2>2. target.asked \in Nat /\ Padded(k) \in Nat
    BY LoaderFields, PaddedBounds
  <2>3. target'.asked = IF Padded(k) > target.asked THEN Padded(k)
                        ELSE target.asked
    BY <2>1 DEF Called, LoaderTypes, LoaderRec
  <2> QED BY <2>2, <2>3 DEF Call, Idle
<1>2. SameMemory /\ SameLoader /\ SameBox
  <2>1. PICK k \in Nat : target' = Called(k)
    BY CallCases
  <2> QED BY <2>1 DEF Called, LoaderTypes, LoaderRec, SameMemory, SameLoader,
                      SameBox
<1>11. ASSUME NEW n \in Nat, target' = Called(n)
       PROVE  Padded(n) <= target'.asked
  <2>1. target.asked \in Nat /\ Padded(n) \in Nat
    BY LoaderFields, PaddedBounds
  <2>2. target'.asked = IF Padded(n) > target.asked THEN Padded(n)
                        ELSE target.asked
    BY <1>11 DEF Called, LoaderTypes, LoaderRec
  <2> QED BY <2>1, <2>2
<1>3. CASE /\ \/ bmiDone /\ Return(t, Begun("done"), "A_OK")
              \/ bmiDone /\ Return(t, Begun("info"), "A_ERROR")
           /\ UNCHANGED <<bmiDone, pBMICmdBuf>>
  <2>1. Begun("done").op = "done" /\ Begun("info").op = "info"
    BY BegunIsOk
  <2>2. CASE Return(t, Begun("done"), "A_OK")
    <3>1. Others(t) /\ Ended(t, Begun("done"), "A_OK")
      BY <2>2, ReturnFacts
    <3> QED BY <1>1, <1>2, <1>3, <2>1, <3>1 DEF Ended, Kept, SameLoader
  <2>3. CASE Return(t, Begun("info"), "A_ERROR")
    <3>1. Others(t) /\ Ended(t, Begun("info"), "A_ERROR")
      BY <2>3, ReturnFacts
    <3> QED BY <1>1, <1>2, <1>3, <2>1, <3>1 DEF Ended, Kept, SameLoader
  <2> QED BY <1>3, <2>2, <2>3
<1>4. CASE /\ ~bmiDone /\ bmiDone' = TRUE
           /\ call' = [call EXCEPT ![t] = Begun("done")]
           /\ pBMICmdCredits' = 0 /\ UNCHANGED <<result, pBMICmdBuf>>
  <2>1. Others(t) /\ call'[t] = Begun("done") /\ result'[t] = result[t]
    BY <1>4, MoveFacts
  <2>2. /\ Begun("done").op = "done" /\ Begun("done").at = "test"
        /\ Begun("done").recv = <<>> /\ Begun("done").got = <<>>
    BY BegunIsOk
  <2> QED BY <1>1, <1>2, <1>4, <2>1, <2>2 DEF Kept, SameLoader
<1>5. CASE /\ ~bmiDone /\ pBMICmdCredits' = 0
           /\ call' = [call EXCEPT ![t] = Begun("info")]
           /\ UNCHANGED <<bmiDone, result, pBMICmdBuf>>
  <2>1. Others(t) /\ call'[t] = Begun("info") /\ result'[t] = result[t]
    BY <1>5, MoveFacts
  <2>2. /\ Begun("info").op = "info" /\ Begun("info").at = "test"
        /\ Begun("info").recv = <<4, 4, InfoSize - 4>>
        /\ Begun("info").got = <<>>
    BY BegunIsOk
  <2> QED BY <1>1, <1>2, <1>5, <2>1, <2>2 DEF Kept, SameLoader
<1>6. ASSUME NEW op \in AllOps \ {"none", "done", "info"}, NEW n \in Nat,
             op = "read" => n \in ReadLengths,
             op = "write" => n \in WriteLengths,
             bmiDone' = bmiDone
      PROVE  LET c == BegunBuffered(op, n)
             IN /\ c.op = op /\ op \notin {"none", "done", "info"}
                /\ c.at = "fill" /\ c.len = n
                /\ c.left = n /\ c.addr = 0 /\ c.got = <<>> /\ c.recv = <<>>
  BY <1>6, BegunIsOk
<1>7. ASSUME NEW op \in AllOps \ {"none", "done", "info"}, NEW n \in Nat,
             op = "read" => n \in ReadLengths,
             op = "write" => n \in WriteLengths,
             bmiDone' = bmiDone, bmiDone,
             Return(t, BegunBuffered(op, n), "A_ERROR")
      PROVE  /\ Kept(t) /\ call'[t] = NoCall
             /\ result'[t].status = "A_ERROR" /\ result'[t].op # "done"
  <2>1. Others(t) /\ Ended(t, BegunBuffered(op, n), "A_ERROR")
    BY <1>7, ReturnFacts
  <2> QED BY <1>2, <1>6, <1>7, <2>1 DEF Ended, Kept, SameLoader
<1>8. ASSUME NEW op \in AllOps \ {"none", "done", "info"}, NEW n \in Nat,
             op = "read" => n \in ReadLengths,
             op = "write" => n \in WriteLengths,
             bmiDone' = bmiDone, op \in {"read", "write"}, n = 0,
             Return(t, BegunBuffered(op, n), "A_OK")
      PROVE  /\ Kept(t) /\ call'[t] = NoCall
             /\ result'[t].op \in {"read", "write"}
             /\ result'[t].len = 0 /\ result'[t].got = <<>>
  <2>1. Others(t) /\ Ended(t, BegunBuffered(op, n), "A_OK")
    BY <1>8, ReturnFacts
  <2> QED BY <1>2, <1>6, <1>8, <2>1 DEF Ended, Kept, SameLoader
<1>9. ASSUME NEW op \in AllOps \ {"none", "done", "info"}, NEW n \in Nat,
             op = "read" => n \in ReadLengths,
             op = "write" => n \in WriteLengths,
             op = "write" => target' = Called(n),
             bmiDone' = bmiDone, ~(op \in {"read", "write"} /\ n = 0),
             call' = [call EXCEPT ![t] = BegunBuffered(op, n)],
             UNCHANGED result
      PROVE  /\ Kept(t) /\ result'[t] = result[t]
             /\ call'[t].op \notin {"none", "done", "info"}
             /\ call'[t].at = "fill" /\ call'[t].addr = 0
             /\ call'[t].op \in {"read", "write"} => call'[t].left > 0
             /\ call'[t].left = call'[t].len
             /\ call'[t].op = "write" =>
                  Padded(call'[t].len) <= target'.asked
             /\ call'[t].got = <<>> /\ call'[t].recv = <<>>
  <2>1. Others(t) /\ call'[t] = BegunBuffered(op, n) /\ result'[t] = result[t]
    BY <1>9, MoveFacts
  <2>2. n # 0 => n > 0
    BY <1>9
  <2>3. op = "write" => Padded(n) <= target'.asked
    BY <1>9, <1>11
  <2> QED BY <2>3, <1>2, <1>6, <1>9, <2>1, <2>2 DEF Kept, SameLoader
<1>10. CASE \E op \in AllOps \ {"none", "done", "info"}, n \in Nat :
              /\ op = "read" => n \in ReadLengths
              /\ op = "write" => n \in WriteLengths
              /\ op = "write" => target' = Called(n)
              /\ pBMICmdBuf' = Empty /\ bmiDone' = bmiDone
              /\ \/ bmiDone /\ Return(t, BegunBuffered(op, n), "A_ERROR")
                 \/ /\ ~bmiDone /\ op \in {"read", "write"} /\ n = 0
                    /\ Return(t, BegunBuffered(op, n), "A_OK")
                 \/ /\ ~bmiDone /\ ~(op \in {"read", "write"} /\ n = 0)
                    /\ call' = [call EXCEPT ![t] = BegunBuffered(op, n)]
                    /\ UNCHANGED result
  <2>1. PICK op \in AllOps \ {"none", "done", "info"}, n \in Nat :
              /\ op = "read" => n \in ReadLengths
              /\ op = "write" => n \in WriteLengths
              /\ op = "write" => target' = Called(n)
              /\ pBMICmdBuf' = Empty /\ bmiDone' = bmiDone
              /\ \/ bmiDone /\ Return(t, BegunBuffered(op, n), "A_ERROR")
                 \/ /\ ~bmiDone /\ op \in {"read", "write"} /\ n = 0
                    /\ Return(t, BegunBuffered(op, n), "A_OK")
                 \/ /\ ~bmiDone /\ ~(op \in {"read", "write"} /\ n = 0)
                    /\ call' = [call EXCEPT ![t] = BegunBuffered(op, n)]
                    /\ UNCHANGED result
    BY <1>10
  <2>2. CASE bmiDone /\ Return(t, BegunBuffered(op, n), "A_ERROR")
    <3>1. /\ Kept(t) /\ call'[t] = NoCall
          /\ result'[t].status = "A_ERROR" /\ result'[t].op # "done"
      BY <1>7, <2>1, <2>2
    <3> QED BY <1>1, <1>2, <2>1, <2>2, <3>1
  <2>3. CASE /\ ~bmiDone /\ op \in {"read", "write"} /\ n = 0
             /\ Return(t, BegunBuffered(op, n), "A_OK")
    <3>1. /\ Kept(t) /\ call'[t] = NoCall
          /\ result'[t].op \in {"read", "write"}
          /\ result'[t].len = 0 /\ result'[t].got = <<>>
      BY <1>8, <2>1, <2>3
    <3> QED BY <1>1, <1>2, <2>1, <2>3, <3>1
  <2>4. CASE /\ ~bmiDone /\ ~(op \in {"read", "write"} /\ n = 0)
             /\ call' = [call EXCEPT ![t] = BegunBuffered(op, n)]
             /\ UNCHANGED result
    <3>1. /\ Kept(t) /\ result'[t] = result[t]
          /\ call'[t].op \notin {"none", "done", "info"}
          /\ call'[t].at = "fill" /\ call'[t].addr = 0
          /\ call'[t].op \in {"read", "write"} => call'[t].left > 0
          /\ call'[t].left = call'[t].len
          /\ call'[t].op = "write" => Padded(call'[t].len) <= target'.asked
          /\ call'[t].got = <<>> /\ call'[t].recv = <<>>
      BY <1>9, <2>1, <2>4
    <3> QED BY <1>1, <1>2, <2>1, <2>4, <3>1
  <2> QED BY <2>1, <2>2, <2>3, <2>4
<1> QED BY <1>3, <1>4, <1>5, <1>10, CallCases

-----------------------------------------------------------------------------
(***************************************************************************)
(* The credit.                                                             *)
(***************************************************************************)
\* A new loader has nothing to do and nothing to say.
LEMMA LoaderFresh ==
  ASSUME NEW n, NEW h, target' = Loader(n, h)
  PROVE  /\ target'.credit = 1 /\ target'.box = <<>> /\ target'.rdbuf = <<>>
         /\ target'.done = FALSE /\ target'.boots = n /\ target'.happens = h
         /\ target'.asked = 0 /\ target'.mem = [a \in Addresses |-> Before(a)]
BY DEF Loader

\* Steps of the one call that leave the credit and the mailbox alone.
LEMMA CreditSame ==
  ASSUME OneCredit, NEW t \in Tasks, Others(t),
         \A u \in Tasks \ {t} : Idle(u) /\ call[u].at = "none",
         target'.box = target.box, target'.credit = target.credit,
         target'.done = target.done, Holds(t)' => Holds(t)
  PROVE  OneCredit'
<1>1. ASSUME NEW u \in Tasks, Holds(u)' PROVE Holds(u)
  <2>1. u # t => call'[u].at = "none"
    BY DEF Others
  <2> QED BY <1>1, <2>1 DEF Holds, Asking
<1>2. \A u \in Tasks : ~Idle(u)' => u = t
  BY DEF Others, Idle
<1> QED BY <1>1, <1>2 DEF OneCredit

\* A mailbox and a counter that hold at most one thing.
LEMMA OneInAll ==
  ASSUME NEW S, NEW s \in Seq(S), s # <<>>, NEW k \in Nat, Len(s) + k <= 1
  PROVE  Len(s) = 1 /\ k = 0 /\ Tail(s) = <<>>
<1>1. Len(s) \in Nat /\ Len(s) # 0
  OBVIOUS
<1>2. \A n \in Nat : n # 0 /\ n + k <= 1 => n = 1 /\ k = 0
  OBVIOUS
<1>3. Len(s) = 1 /\ k = 0
  BY Zenon, <1>1, <1>2
<1>4. Tail(s) \in Seq(S) /\ Len(Tail(s)) = 0
  BY <1>3
<1>5. \A r \in Seq(S) : Len(r) = 0 => r = <<>>
  OBVIOUS
<1> QED BY Zenon, <1>3, <1>4, <1>5

\* Every step keeps the one credit when calls follow one another.
LEMMA CreditKept ==
  ASSUME Types, OneCredit, Serial, [Next]_vars
  PROVE  OneCredit'
<1>0. CallTypes /\ LoaderTypes
  BY DEF Types
<1>a. target.credit \in Nat /\ target.box \in Seq(CommandRec)
  BY <1>0, LoaderFields
<1>b. \A t \in Tasks : Idle(t) <=> call[t].at = "none"
  BY <1>0 DEF CallTypes, CallOk, Idle
<1>c. ASSUME NEW t \in Tasks, call[t].at # "none"
      PROVE  \A u \in Tasks \ {t} : Idle(u) /\ call[u].at = "none"
  BY <1>b, <1>c DEF OneCredit
<1>1. CASE BMIInit
  <2>1. call' = call /\ \A t \in Tasks : Idle(t)
    BY <1>1 DEF BMIInit
  <2>2. target'.credit = 1 /\ target'.box = <<>> /\ target'.done = FALSE
    BY <1>1, LoaderFresh DEF BMIInit
  <2>3. \A t \in Tasks : Idle(t)' /\ ~Holds(t)'
    BY <1>b, <2>1 DEF Holds, Asking, Idle
  <2> QED BY <2>2, <2>3 DEF OneCredit
<1>2. CASE LoaderRuns
  <2>1. /\ target.box # <<>> /\ target' = Loaded(Head(target.box))
        /\ call' = call /\ pBMICmdCredits' = pBMICmdCredits
    BY <1>2 DEF LoaderRuns
  <2>2. Len(target.box) = 1 /\ target.credit = 0
    BY <1>a, <2>1, OneInAll DEF OneCredit
  <2>3. /\ target'.box = <<>>
        /\ target'.done <=> target.done \/ Head(target.box).id = "done"
        /\ target'.credit = IF Head(target.box).id = "done" THEN 0 ELSE 1
    <3> DEFINE m == Head(target.box)
    <3>1. /\ target'.box = Tail(target.box)
          /\ target'.done = (target.done \/ m.id = "done")
          /\ target'.credit = IF m.id = "done" THEN target.credit
                              ELSE target.credit + 1
      BY Zenon, <1>0, <2>1, LoadedFields
    <3>2. Tail(target.box) = <<>>
      BY <1>a, <2>1, OneInAll DEF OneCredit
    <3>3. target.credit = 0
      BY <2>2
    <3>4. target'.credit = IF m.id = "done" THEN 0 ELSE 1
      BY <3>1, <3>3
    <3> QED BY Zenon, <3>1, <3>2, <3>4
  <2>4. \A t \in Tasks : ~Holds(t)'
    BY <2>1 DEF OneCredit, Holds
  <2>5. ~target.done
    BY <1>2 DEF LoaderRuns
  <2>6. Len(target'.box) + target'.credit <= 1
    BY <2>3
  <2>7. \A t, u \in Tasks : ~Idle(t)' /\ ~Idle(u)' => t = u
    BY <2>1 DEF OneCredit, Idle
  <2> QED BY <2>3, <2>4, <2>5, <2>6, <2>7 DEF OneCredit
<1>3. ASSUME NEW t \in Tasks, Call(t) PROVE OneCredit'
  <2>1. /\ Others(t) /\ SameLoader /\ SameBox
        /\ \A u \in Tasks : Idle(u)
        /\ \/ call'[t].at \in {"none", "fill"}
           \/ call'[t].at = "test" /\ pBMICmdCredits' = 0
    BY <1>0, <1>3, CallFacts, NoCallIsNowhere DEF Kept
  <2>2. ~Holds(t)' /\ \A u \in Tasks : Idle(u) /\ call[u].at = "none"
    BY <1>b, <2>1 DEF Holds, Asking
  <2> QED BY <2>1, <2>2, CreditSame DEF SameLoader, SameBox
<1>4. ASSUME NEW t \in Tasks, Fill(t) PROVE OneCredit'
  <2>1. /\ Others(t) /\ call'[t].at = "test" /\ target' = target
        /\ pBMICmdCredits' = 0 /\ call[t].at = "fill"
    BY <1>0, <1>4, FillFacts
  <2> QED BY <1>c, <2>1, CreditSame DEF Holds
<1>5. ASSUME NEW t \in Tasks, Test(t) \/ Credit(t) \/ Send(t)
      PROVE  OneCredit'
  <2>1. /\ Asking(call[t]) /\ Others(t) /\ target'.box = target.box
        /\ target'.done = target.done
        /\ Asking(call'[t]) \/ call'[t].at \in {"put", "none"}
    BY <1>0, <1>5, AskFacts, NoCallIsNowhere DEF Kept, SameBox, Ended
  <2>2. \A u \in Tasks \ {t} : Idle(u) /\ call[u].at = "none"
    BY <1>c, <2>1 DEF Asking
  <2>3. CASE /\ UNCHANGED <<pBMICmdCredits, target>>
             /\ call'[t].at = "put" => pBMICmdCredits # 0
    <3>1. Holds(t)' => Holds(t)
      BY <2>1, <2>3 DEF Holds, Asking
    <3> QED BY <2>1, <2>2, <2>3, <3>1, CreditSame
  <2>4. CASE /\ pBMICmdCredits' = target.credit
             /\ target'.credit = IF target.credit > 0
                                 THEN target.credit - 1 ELSE 0
             /\ Asking(call'[t])
    <3>1. CASE target.credit = 0
      <4>1. pBMICmdCredits' = 0 /\ target'.credit = target.credit
        BY <2>4, <3>1
      <4>2. ~Holds(t)'
        BY <2>4, <4>1 DEF Holds, Asking
      <4> QED BY <2>1, <2>2, <4>1, <4>2, CreditSame
    <3>2. CASE target.credit > 0
      <4>1. target.credit = 1 /\ target.box = <<>> /\ ~target.done
        BY <1>a, <3>2 DEF OneCredit
      <4>2. target'.credit = 0 /\ target'.box = <<>> /\ ~target'.done
        BY <2>1, <2>4, <4>1
      <4>3. \A u \in Tasks : ~Idle(u)' => u = t
        BY <2>1, <2>2 DEF Others, Idle
      <4> QED BY <4>2, <4>3 DEF OneCredit
    <3> QED BY <1>a, <3>1, <3>2
  <2> QED BY <1>0, <1>5, <2>3, <2>4, AskFacts
<1>6. ASSUME NEW t \in Tasks, Put(t) PROVE OneCredit'
  <2>1. /\ Others(t) /\ SameLoader /\ call[t].at = "put"
        /\ call'[t].at \in {"none", "fill", "avail"}
        /\ \/ target'.box = target.box
           \/ \E m : target'.box = Append(target.box, m)
    <3>1. Goes(call[t]) /\ Advance(t, call[t]) =>
            call'[t].at \in {"none", "fill", "avail"}
      BY <1>0, AdvanceFacts, NoCallIsNowhere DEF Ended
    <3> QED BY <1>0, <1>6, <3>1, PutFacts, NoCallIsNowhere DEF Kept, Ended
  <2>2. target.box = <<>> /\ target.credit = 0 /\ ~target.done
    BY <2>1 DEF OneCredit, Holds
  <2>3. ~Holds(t)' /\ \A u \in Tasks \ {t} : Idle(u) /\ call[u].at = "none"
    BY <1>c, <2>1 DEF Holds, Asking
  <2>4. CASE target'.box = target.box
    BY <2>1, <2>3, <2>4, CreditSame DEF SameLoader
  <2>5. CASE \E m : target'.box = Append(target.box, m)
    <3>1. Len(target'.box) = 1 /\ target'.credit = 0 /\ ~target'.done
      BY <2>1, <2>2, <2>5 DEF SameLoader
    <3>2. \A u \in Tasks : ~Holds(u)' /\ (~Idle(u)' => u = t)
      <4>1. \A u \in Tasks \ {t} : call'[u] = call[u]
        BY <2>1 DEF Others
      <4>2. \A u \in Tasks \ {t} : Idle(u)' /\ ~Holds(u)'
        BY <2>3, <4>1 DEF Idle, Holds, Asking
      <4> QED BY <2>3, <4>2
    <3> QED BY <3>1, <3>2 DEF OneCredit
  <2> QED BY <2>1, <2>4, <2>5
<1>7. ASSUME NEW t \in Tasks, Avail(t) PROVE OneCredit'
  <2>1. /\ Others(t) /\ call'[t].at \in {"none", "avail", "get"}
        /\ target' = target /\ call[t].at = "avail"
    BY <1>0, <1>7, AvailFacts, NoCallIsNowhere DEF Ended
  <2> QED BY <1>c, <2>1, CreditSame DEF Holds, Asking
<1>8. ASSUME NEW t \in Tasks, Get(t) PROVE OneCredit'
  <2>1. /\ Others(t) /\ call'[t].at \in {"none", "fill", "avail"}
        /\ target'.box = target.box /\ SameLoader /\ call[t].at = "get"
    <3>1. Goes(Now(t)) /\ Advance(t, Now(t)) =>
            call'[t].at \in {"none", "fill", "avail"}
      BY <1>0, AdvanceFacts, NoCallIsNowhere DEF Ended
    <3> QED BY <1>0, <1>8, <3>1, GetFacts, NoCallIsNowhere DEF Kept, Ended
  <2> QED BY <1>c, <2>1, CreditSame DEF SameLoader, Holds, Asking
<1>9. CASE UNCHANGED vars
  BY <1>9 DEF vars, OneCredit, Holds, Idle
<1> QED BY <1>1, <1>2, <1>3, <1>4, <1>5, <1>6, <1>7, <1>8, <1>9
        DEF Next, TaskStep

-----------------------------------------------------------------------------
(***************************************************************************)
(* One caller: its command buffer, its BMIDone and what it wrote.          *)
(***************************************************************************)
\* What may happen is chosen at the start.
LEMMA HappensKept ==
  ASSUME Types, [Next]_vars
  PROVE  target'.happens = target.happens
<1>0. CallTypes /\ LoaderTypes
  BY DEF Types
<1>1. CASE BMIInit
  BY <1>1, LoaderFresh DEF BMIInit, Happens
<1>2. CASE LoaderRuns
  BY <1>0, <1>2, LoadedFields DEF LoaderRuns
<1>3. ASSUME NEW t \in Tasks, Call(t) \/ TaskStep(t)
      PROVE  target'.happens = target.happens
  BY <1>0, <1>3, CallFacts, FillFacts, AskFacts, PutFacts, AvailFacts,
     GetFacts DEF TaskStep, Kept
<1>4. CASE UNCHANGED vars
  BY <1>4 DEF vars
<1> QED BY <1>1, <1>2, <1>3, <1>4 DEF Next

\* Every step of the one caller keeps its command in the buffer.
LEMMA BufferKept ==
  ASSUME Types, OneCredit, OneCaller, BufferInv, [Next]_vars
  PROVE  BufferInv'
<1>0. CallTypes /\ LoaderTypes
  BY DEF Types
<1> DEFINE P(t) ==
      /\ call[t].op \in {"done", "info"} => call[t].at # "fill"
      /\ call[t].op \in {"done", "write"} =>
           call[t].at \notin {"avail", "get"} /\ call[t].recv = <<>>
      /\ Asking(call[t]) \/ call[t].at = "put" =>
           call[t].op \in {"done", "info"} \/ pBMICmdBuf = CommandOf(call[t])
<1>a. BufferInv <=> \A t \in Tasks : P(t)
  BY DEF BufferInv
<1>b. (\A t \in Tasks : P(t)') => BufferInv'
  BY DEF BufferInv
<1>c. ASSUME NEW t \in Tasks, P(t)' PROVE BufferInv'
  BY <1>b, <1>c DEF OneCaller
<1>d. ASSUME NEW t \in Tasks, call'[t] = NoCall PROVE BufferInv'
  BY <1>c, <1>d, NoCallIsNowhere DEF Asking
<1>1. CASE BMIInit
  <2>1. \A t \in Tasks : call'[t].at = "none" /\ call'[t].op = "none"
    BY <1>0, <1>1 DEF BMIInit, Idle, CallTypes, CallOk
  <2> QED BY <1>b, <2>1 DEF Asking
<1>2. CASE LoaderRuns
  BY <1>a, <1>b, <1>2 DEF LoaderRuns
<1>3. ASSUME NEW t \in Tasks, Call(t) PROVE BufferInv'
  <2>1. \/ call'[t] = NoCall
        \/ /\ call'[t].op \in {"done", "info"} /\ call'[t].at = "test"
           /\ call'[t].op = "done" => call'[t].recv = <<>>
        \/ /\ call'[t].op \notin {"done", "info"} /\ call'[t].at = "fill"
           /\ call'[t].recv = <<>>
    BY <1>0, <1>3, CallFacts
  <2> QED BY <1>c, <1>d, <2>1 DEF Asking
<1>4. ASSUME NEW t \in Tasks, Fill(t) PROVE BufferInv'
  <2>1. /\ call[t].at = "fill" /\ call'[t].at = "test"
        /\ SamePiece(call[t], call'[t])
        /\ pBMICmdBuf' = CommandOf(call[t])
        /\ call[t].op = "write" => call'[t].recv = <<>>
    BY <1>0, <1>4, FillFacts
  <2>2. CommandOf(call'[t]) = CommandOf(call[t]) /\ call'[t].op = call[t].op
    BY <2>1, SameCommand DEF SamePiece
  <2>3. call[t].op \notin {"done", "info"}
    BY <1>a, <2>1
  <2> QED BY <1>c, <2>1, <2>2, <2>3
<1>5. ASSUME NEW t \in Tasks, Test(t) \/ Credit(t) \/ Send(t)
      PROVE  BufferInv'
  <2>1. /\ Asking(call[t]) /\ pBMICmdBuf' = pBMICmdBuf
        /\ \/ call'[t] = NoCall
           \/ /\ Asking(call'[t]) \/ call'[t].at = "put"
              /\ SamePiece(call[t], call'[t]) /\ call'[t].recv = call[t].recv
    BY <1>0, <1>5, AskFacts DEF Ended
  <2>2. SamePiece(call[t], call'[t]) =>
          CommandOf(call'[t]) = CommandOf(call[t]) /\ call'[t].op = call[t].op
    BY SameCommand DEF SamePiece
  <2> QED BY <1>a, <1>c, <1>d, <2>1, <2>2 DEF Asking
<1>6. ASSUME NEW t \in Tasks, NEW c, Goes(c), Advance(t, c),
             c.op \in {"done", "write"} => c.recv = <<>>
      PROVE  BufferInv'
  <2>1. \/ call'[t] = NoCall
        \/ call'[t].at = "avail" /\ c.op \notin {"done", "write"}
           /\ call'[t].op = c.op
        \/ call'[t].at = "fill" /\ call'[t].op \in {"read", "write"}
           /\ call'[t].op = c.op /\ call'[t].recv = <<>>
    BY <1>0, <1>6, AdvanceFacts DEF Ended, SamePiece
  <2> QED BY <1>c, <1>d, <2>1 DEF Asking
<1>7. ASSUME NEW t \in Tasks, Put(t) PROVE BufferInv'
  <2>1. \/ call'[t] = NoCall
        \/ Goes(call[t]) /\ Advance(t, call[t])
    BY <1>0, <1>7, PutFacts DEF Ended
  <2> QED BY <1>a, <1>d, <1>6, <2>1
<1>8. ASSUME NEW t \in Tasks, Avail(t) PROVE BufferInv'
  <2>1. /\ call[t].at = "avail"
        /\ \/ call'[t] = NoCall
           \/ /\ call'[t].at \in {"avail", "get"}
              /\ call'[t].op = call[t].op
    BY <1>0, <1>8, AvailFacts DEF Ended, SamePiece
  <2> QED BY <1>a, <1>c, <1>d, <2>1 DEF Asking
<1>9. ASSUME NEW t \in Tasks, Get(t) PROVE BufferInv'
  <2>1. /\ call[t].at = "get" /\ Now(t).op = call[t].op /\ Goes(Now(t))
        /\ \/ call'[t] = NoCall
           \/ Advance(t, Now(t))
    BY <1>0, <1>9, GetFacts DEF Ended, SamePiece
  <2>2. call[t].op \notin {"done", "write"}
    BY <1>a, <2>1
  <2> QED BY <1>d, <1>6, <2>1, <2>2
<1>10. CASE UNCHANGED vars
  BY <1>10 DEF vars, BufferInv
<1> QED BY <1>1, <1>2, <1>3, <1>4, <1>5, <1>7, <1>8, <1>9, <1>10
        DEF Next, TaskStep

\* A step of a call keeps what is said of BMIDone, unless it is its end.
LEMMA DoneStep ==
  ASSUME NEW t \in Tasks, DoneOf(t), call[t].op # "none",
         bmiDone' = bmiDone, target'.boots = target.boots,
         \/ call'[t].op = call[t].op /\ result'[t] = result[t]
         \/ /\ call'[t] = NoCall /\ result'[t].op = call[t].op
            /\ \/ call[t].op # "done" \/ result'[t].status # "A_OK"
               \/ target'.box # <<>> /\ Head(target'.box).id = "done"
  PROVE  DoneOf(t)'
BY NoCallIsNowhere DEF DoneOf

\* The command that closes BMI is in the mailbox when BMIDone returns.
LEMMA DoneKept ==
  ASSUME Types, OneCredit, OneCaller, BufferInv, DoneInv, [Next]_vars
  PROVE  DoneInv'
<1>0. CallTypes /\ LoaderTypes
  BY DEF Types
<1>a. \A t \in Tasks : DoneOf(t)
  BY DEF DoneInv, DoneOf
<1>b. (\A t \in Tasks : DoneOf(t)') => DoneInv'
  BY DEF DoneInv, DoneOf
<1>c. ASSUME NEW t \in Tasks, DoneOf(t)' PROVE DoneInv'
  BY <1>b, <1>c DEF OneCaller
<1>d. ASSUME NEW t \in Tasks, call[t].at # "none" PROVE call[t].op # "none"
  BY <1>0, <1>d DEF CallTypes, CallOk
<1>1. CASE BMIInit
  <2>1. \A t \in Tasks : call'[t].op = "none" /\ result'[t].op = "none"
    BY <1>0, <1>1 DEF BMIInit, Idle, NoResult
  <2> QED BY <1>b, <1>1, <2>1 DEF BMIInit, DoneOf
<1>2. CASE LoaderRuns
  <2>1. /\ target'.done <=> target.done \/ Head(target.box).id = "done"
        /\ target'.boots = target.boots
    BY Zenon, <1>0, <1>2, LoadedFields DEF LoaderRuns
  <2> QED BY <1>a, <1>b, <1>2, <2>1 DEF LoaderRuns, DoneOf
<1>3. ASSUME NEW t \in Tasks, Call(t) PROVE DoneInv'
  <2>1. /\ call[t].op = "none" /\ target.boots > 0 /\ result[t].op # "done"
        /\ SameLoader /\ SameBox
    BY <1>0, <1>3, CallFacts DEF OneCaller
  <2>2. ~bmiDone
    BY <1>a, <2>1 DEF DoneOf
  <2>3. \/ /\ bmiDone' = TRUE /\ result'[t] = result[t]
           /\ call'[t].op = "done"
        \/ /\ bmiDone' = FALSE /\ call'[t].op # "done"
           /\ result'[t] = result[t] \/ result'[t].op # "done"
    BY <1>0, <1>3, <2>2, CallFacts, NoCallIsNowhere
  <2> QED BY <1>c, <2>1, <2>3 DEF DoneOf
<1>4. ASSUME NEW t \in Tasks, Fill(t) PROVE DoneInv'
  <2>1. /\ call[t].at = "fill" /\ call'[t].op = call[t].op
        /\ result'[t] = result[t] /\ bmiDone' = bmiDone /\ target' = target
    BY <1>0, <1>4, FillFacts DEF SamePiece
  <2> QED BY <1>a, <1>c, <1>d, <2>1, DoneStep
<1>5. ASSUME NEW t \in Tasks, Test(t) \/ Credit(t) \/ Send(t)
      PROVE  DoneInv'
  <2>1. /\ Asking(call[t]) /\ bmiDone' = bmiDone
        /\ target'.boots = target.boots
        /\ \/ call'[t].op = call[t].op /\ result'[t] = result[t]
           \/ /\ call'[t] = NoCall /\ result'[t].op = call[t].op
              /\ result'[t].status # "A_OK"
    BY <1>0, <1>5, AskFacts DEF SamePiece, Ended, Kept
  <2> QED BY <1>a, <1>c, <1>d, <2>1, DoneStep DEF Asking
<1>6. ASSUME NEW t \in Tasks, Put(t) PROVE DoneInv'
  <2>1. /\ call[t].at = "put" /\ bmiDone' = bmiDone
        /\ target'.boots = target.boots
    BY <1>0, <1>6, PutFacts DEF Kept
  <2>2. target.box = <<>>
    BY <2>1 DEF OneCredit, Holds
  <2>3. CASE Ended(t, call[t], "A_ERROR")
    BY <1>a, <1>c, <1>d, <2>1, <2>3, DoneStep DEF Ended
  <2>4. CASE /\ target'.box = Append(target.box,
                    IF call[t].op \in {"done", "info"} THEN CommandOf(call[t])
                    ELSE pBMICmdBuf)
             /\ Goes(call[t]) /\ Advance(t, call[t])
    <3>1. \/ call'[t].op = call[t].op /\ result'[t] = result[t]
          \/ call'[t] = NoCall /\ result'[t].op = call[t].op
      BY <1>0, <2>4, AdvanceFacts DEF SamePiece, Ended
    <3>2. call[t].op = "done" =>
            target'.box # <<>> /\ Head(target'.box).id = "done"
      <4>1. call[t].op = "done" => CommandOf(call[t]).id = "done"
        BY DEF CommandOf, Command
      <4> QED BY <2>2, <2>4, <4>1
    <3> QED BY <1>a, <1>c, <1>d, <2>1, <3>1, <3>2, DoneStep
  <2> QED BY <1>0, <1>6, <2>3, <2>4, PutFacts
<1>7. ASSUME NEW t \in Tasks, Avail(t) PROVE DoneInv'
  <2>1. /\ call[t].at = "avail" /\ bmiDone' = bmiDone /\ target' = target
        /\ \/ call'[t].op = call[t].op /\ result'[t] = result[t]
           \/ /\ call'[t] = NoCall /\ result'[t].op = call[t].op
              /\ result'[t].status # "A_OK"
    BY <1>0, <1>7, AvailFacts DEF SamePiece, Ended
  <2> QED BY <1>a, <1>c, <1>d, <2>1, DoneStep
<1>8. ASSUME NEW t \in Tasks, Get(t) PROVE DoneInv'
  <2>1. /\ call[t].at = "get" /\ bmiDone' = bmiDone
        /\ target'.boots = target.boots /\ SamePiece(call[t], Now(t))
        /\ Goes(Now(t))
        /\ \/ Ended(t, call[t], "A_ERROR") \/ Ended(t, Now(t), "A_ERROR")
           \/ Ended(t, Now(t), "A_ASSERT") \/ Advance(t, Now(t))
    BY <1>0, <1>8, GetFacts DEF Kept
  <2>2. \/ call'[t].op = call[t].op /\ result'[t] = result[t]
        \/ call'[t] = NoCall /\ result'[t].op = call[t].op
    BY <1>0, <2>1, AdvanceFacts DEF SamePiece, Ended
  <2>3. call[t].op # "done"
    BY <2>1 DEF BufferInv
  <2> QED BY <1>a, <1>c, <1>d, <2>1, <2>2, <2>3, DoneStep
<1>9. CASE UNCHANGED vars
  BY <1>9 DEF vars, DoneInv, DoneOf
<1> QED BY <1>1, <1>2, <1>3, <1>4, <1>5, <1>6, <1>7, <1>8, <1>9
        DEF Next, TaskStep

\* Bytes that are in memory or in the mailbox stay there.
LEMMA LandedSame ==
  ASSUME target'.box = target.box, target'.mem = target.mem,
         NEW n, Landed(n)
  PROVE  Landed(n)'
BY DEF Landed, Boxed

\* No bytes are always there.
LEMMA LandedNone ==
  ASSUME TRUE PROVE Landed(0) /\ Landed(0)'
BY DEF Landed

\* The loader moves them from the mailbox to memory.
LEMMA LandedRuns ==
  ASSUME LoaderTypes, LoaderRuns, NEW n \in Nat, n <= Longest, Landed(n)
  PROVE  Landed(n)'
<1> DEFINE m == Head(target.box)
<1>1. /\ target.box # <<>> /\ target' = Loaded(m)
      /\ target.box \in Seq(CommandRec) /\ Len(target.box) > 0
  BY LoaderFields DEF LoaderRuns
<1>2. CommandOk(m)
  BY <1>1 DEF LoaderTypes
<1>3. /\ m.addr \in Nat /\ m.len \in Nat
      /\ m.id = "write" =>
           \A i \in 1 .. m.len : m.data[i] = Given(m.addr + i - 1)
  BY <1>2 DEF CommandOk, CommandRec
<1>4. /\ m.id # "write" => target'.mem = target.mem
      /\ m.id = "write" =>
           target'.mem = [a \in Addresses |->
              IF a \in m.addr .. m.addr + m.len - 1
              THEN m.data[a - m.addr + 1] ELSE target.mem[a]]
  BY Zenon, <1>1, LoadedFields
<1>5. ASSUME NEW a \in 0 .. n - 1 PROVE target'.mem[a] = Given(a)
  <2>0. a \in Addresses /\ a \in Nat
    BY <1>5, LongestIsLongest
  <2>1. Boxed(a) \/ target.mem[a] = Given(a)
    BY <1>5 DEF Landed
  <2>2. CASE m.id # "write"
    <3>1. ~Boxed(a)
      BY <2>2 DEF Boxed
    <3> QED BY <1>4, <2>1, <2>2, <3>1
  <2>3. CASE m.id = "write" /\ a \in m.addr .. m.addr + m.len - 1
    <3>1. a - m.addr + 1 \in 1 .. m.len /\ m.addr + (a - m.addr + 1) - 1 = a
      BY <1>3, <2>0, <2>3
    <3>2. target'.mem[a] = m.data[a - m.addr + 1]
      BY <1>4, <2>0, <2>3
    <3> QED BY <1>3, <2>3, <3>1, <3>2
  <2>4. CASE m.id = "write" /\ a \notin m.addr .. m.addr + m.len - 1
    <3>1. target'.mem[a] = target.mem[a]
      BY <1>4, <2>0, <2>4
    <3>2. ~Boxed(a)
      BY <2>4 DEF Boxed
    <3> QED BY <2>1, <3>1, <3>2
  <2> QED BY <2>2, <2>3, <2>4
<1> QED BY <1>5 DEF Landed

\* A piece that is put into an empty mailbox follows the bytes before it.
LEMMA LandedPut ==
  ASSUME NEW c \in CallRec, c.op = "write", Landed(c.addr),
         target.box = <<>>, target'.box = <<CommandOf(c)>>,
         target'.mem = target.mem,
         NEW n \in Nat, n <= c.addr + Txlen(c)
  PROVE  Landed(n)'
<1>1. CommandOf(c).id = "write" /\ CommandOf(c).addr = c.addr
      /\ CommandOf(c).len = Txlen(c)
  BY DEF CommandOf
<1>2. Head(target'.box) = CommandOf(c) /\ target'.box # <<>>
  OBVIOUS
<1>3. c.addr \in Nat /\ Txlen(c) \in Nat
  BY PieceBounds DEF CallRec
<1>4. ASSUME NEW a \in 0 .. n - 1
      PROVE  Boxed(a)' \/ target'.mem[a] = Given(a)
  <2>1. CASE a < c.addr
    <3>1. a \in 0 .. c.addr - 1
      BY <1>3, <1>4, <2>1
    <3> QED BY <3>1 DEF Landed, Boxed
  <2>2. CASE ~(a < c.addr)
    <3>1. a \in c.addr .. c.addr + Txlen(c) - 1
      BY <1>3, <1>4, <2>2
    <3> QED BY <1>1, <1>2, <3>1 DEF Boxed
  <2> QED BY <2>1, <2>2
<1> QED BY <1>4 DEF Landed

\* A step of a call that writes nothing to the mailbox.
LEMMA WrittenStep ==
  ASSUME NEW t \in Tasks, WrittenOf(t), call[t].op # "none",
         call[t].op = "write" =>
           target'.box = target.box /\ target'.mem = target.mem,
         \/ /\ call'[t].op = call[t].op
            /\ call[t].op = "write" => call'[t].addr = call[t].addr
         \/ /\ call'[t] = NoCall /\ result'[t].op = call[t].op
            /\ call[t].op # "write" \/ result'[t].status # "A_OK"
  PROVE  WrittenOf(t)'
<1>1. CASE /\ call'[t].op = call[t].op
           /\ call[t].op = "write" => call'[t].addr = call[t].addr
  <2>1. PICK n : n = call[t].addr
    OBVIOUS
  <2>2. call[t].op = "write" => Landed(n)'
    BY <2>1, LandedSame DEF WrittenOf
  <2> QED BY <1>1, <2>1, <2>2 DEF WrittenOf, Landed
<1>2. CASE /\ call'[t] = NoCall /\ result'[t].op = call[t].op
           /\ call[t].op # "write" \/ result'[t].status # "A_OK"
  BY <1>2, NoCallIsNowhere DEF WrittenOf
<1> QED BY <1>1, <1>2

\* A write that is reported done has landed.
LEMMA WrittenKept ==
  ASSUME Types, OneCredit, OneCaller, BufferInv, WrittenInv, [Next]_vars
  PROVE  WrittenInv'
<1>0. CallTypes /\ LoaderTypes
  BY DEF Types
<1>a. \A t \in Tasks : WrittenOf(t)
  BY DEF WrittenInv, WrittenOf
<1>b. (\A t \in Tasks : WrittenOf(t)') => WrittenInv'
  BY DEF WrittenInv, WrittenOf
<1>c. ASSUME NEW t \in Tasks, WrittenOf(t)' PROVE WrittenInv'
  BY <1>b, <1>c DEF OneCaller
<1>d. ASSUME NEW t \in Tasks, call[t].at # "none" PROVE call[t].op # "none"
  BY <1>0, <1>d DEF CallTypes, CallOk
<1>e. ASSUME NEW t \in Tasks
      PROVE  /\ call[t] \in CallRec /\ call[t].addr \in Nat
             /\ call[t].left \in Nat /\ call[t].len \in Nat
             /\ result[t].len \in Nat
             /\ call[t].op = "write" =>
                  /\ call[t].addr + call[t].left = call[t].len
                  /\ call[t].len <= Longest /\ call[t].addr <= Longest
  <2>1. /\ call[t] \in CallRec /\ call[t].addr \in Nat
        /\ call[t].left \in Nat /\ call[t].len \in Nat
        /\ result[t].len \in Nat
        /\ call[t].op = "write" =>
             /\ call[t].addr + call[t].left = call[t].len
             /\ call[t].len \in WriteLengths
    BY <1>0 DEF CallTypes, CallOk, CallRec, ResultRec
  <2> QED BY <2>1, LongestIsLongest
<1>1. CASE BMIInit
  <2>1. \A t \in Tasks : call'[t].op = "none" /\ result'[t].op = "none"
    BY <1>0, <1>1 DEF BMIInit, Idle, NoResult
  <2> QED BY <1>b, <2>1 DEF WrittenOf
<1>2. CASE LoaderRuns
  <2>1. ASSUME NEW t \in Tasks PROVE WrittenOf(t)'
    <3>1. call' = call /\ result' = result
      BY <1>2 DEF LoaderRuns
    <3>2. PICK n \in Nat, k \in Nat : n = call[t].addr /\ k = result[t].len
      BY <1>e
    <3>3. call[t].op = "write" => Landed(n)'
      BY <1>0, <1>2, <1>a, <1>e, <3>2, LandedRuns DEF WrittenOf
    <3>4. (/\ call[t].op = "none"
           /\ result[t].op = "write" /\ result[t].status = "A_OK")
          => k <= Longest /\ Landed(k)'
      BY <1>0, <1>2, <1>a, <3>2, LandedRuns DEF WrittenOf
    <3> QED BY <3>1, <3>2, <3>3, <3>4 DEF WrittenOf, Landed
  <2> QED BY <1>b, <2>1
<1>3. ASSUME NEW t \in Tasks, Call(t) PROVE WrittenInv'
  <2>1. \/ /\ call'[t] = NoCall
           /\ \/ result'[t].op # "write" \/ result'[t].status # "A_OK"
              \/ result'[t].len = 0
        \/ call'[t].op \notin {"none", "write"}
        \/ call'[t].op = "write" /\ call'[t].addr = 0
    BY <1>0, <1>3, CallFacts
  <2>2. Landed(0)' /\ 0 <= Longest
    BY LandedNone, LongestIsLongest
  <2> QED BY <1>c, <2>1, <2>2, NoCallIsNowhere DEF WrittenOf, Landed
<1>4. ASSUME NEW t \in Tasks, Fill(t) PROVE WrittenInv'
  <2>1. /\ call[t].at = "fill" /\ call'[t].op = call[t].op
        /\ call'[t].addr = call[t].addr /\ target' = target
    BY <1>0, <1>4, FillFacts DEF SamePiece
  <2> QED BY <1>a, <1>c, <1>d, <2>1, WrittenStep
<1>5. ASSUME NEW t \in Tasks, Test(t) \/ Credit(t) \/ Send(t)
      PROVE  WrittenInv'
  <2>1. /\ Asking(call[t]) /\ target'.box = target.box
        /\ target'.mem = target.mem
        /\ \/ call'[t].op = call[t].op /\ call'[t].addr = call[t].addr
           \/ /\ call'[t] = NoCall /\ result'[t].op = call[t].op
              /\ result'[t].status # "A_OK"
    BY <1>0, <1>5, AskFacts DEF SamePiece, Ended, Kept, SameBox, SameMemory
  <2> QED BY <1>a, <1>c, <1>d, <2>1, WrittenStep DEF Asking
<1>6. ASSUME NEW t \in Tasks, Put(t) PROVE WrittenInv'
  <2>1. call[t].at = "put" /\ target'.mem = target.mem
    BY <1>0, <1>6, PutFacts DEF Kept, SameMemory
  <2>2. target.box = <<>>
    BY <2>1 DEF OneCredit, Holds
  <2>3. CASE target'.box = target.box /\ Ended(t, call[t], "A_ERROR")
    BY <1>a, <1>c, <1>d, <2>1, <2>3, WrittenStep DEF Ended
  <2>4. CASE /\ target'.box = Append(target.box,
                    IF call[t].op \in {"done", "info"} THEN CommandOf(call[t])
                    ELSE pBMICmdBuf)
             /\ Goes(call[t]) /\ Advance(t, call[t])
    <3>1. CASE call[t].op # "write"
      <4>1. \/ call'[t].op = call[t].op
            \/ call'[t] = NoCall /\ result'[t].op = call[t].op
        BY <1>0, <2>4, AdvanceFacts DEF SamePiece, Ended
      <4> QED BY <1>a, <1>c, <1>d, <2>1, <3>1, <4>1, WrittenStep
    <3>2. CASE call[t].op = "write"
      <4> DEFINE c == call[t]
      <4>1. pBMICmdBuf = CommandOf(c) /\ c.recv = <<>>
        BY <2>1, <3>2 DEF BufferInv
      <4>2. target'.box = <<CommandOf(c)>>
        BY <2>2, <2>4, <3>2, <4>1
      <4>3. Moved(c) = Txlen(c) /\ Txlen(c) \in Nat
        BY <1>e, <3>2, PieceBounds DEF Moved
      <4>4. PICK d \in CallRec : d = c
        BY <1>e
      <4>5. ASSUME NEW n \in Nat, n <= c.addr + Txlen(c) PROVE Landed(n)'
        <5>1. d.op = "write" /\ Landed(d.addr) /\ n <= d.addr + Txlen(d)
          BY <1>a, <3>2, <4>4, <4>5 DEF WrittenOf
        <5> QED BY <2>1, <2>2, <4>2, <4>4, <5>1, LandedPut
      <4>6. CASE call'[t].op = "write" /\ call'[t].addr = c.addr + Moved(c)
        <5>1. PICK n \in Nat : n = c.addr + Txlen(c)
          BY <1>e, <4>3
        <5>2. Landed(n)'
          BY <1>e, <4>3, <4>5, <5>1
        <5>3. WrittenOf(t)'
          BY <4>3, <4>6, <5>1, <5>2 DEF WrittenOf, Landed
        <5> QED BY <1>c, <5>3
      <4>7. CASE Ended(t, c, "A_OK") /\ Moved(c) >= c.left
        <5>1. PICK n \in Nat : n = c.len
          BY <1>e
        <5>2. n <= c.addr + Txlen(c) /\ n <= Longest
          BY <1>e, <3>2, <4>3, <4>7, <5>1
        <5>3. Landed(n)'
          BY <4>5, <5>2
        <5>4. WrittenOf(t)'
          BY <4>7, <5>1, <5>2, <5>3, NoCallIsNowhere
             DEF WrittenOf, Landed, Ended
        <5> QED BY <1>c, <5>4
      <4> QED BY <1>0, <2>4, <3>2, <4>1, <4>6, <4>7, AdvanceFacts
    <3> QED BY <3>1, <3>2
  <2> QED BY <1>0, <1>6, <2>3, <2>4, PutFacts
<1>7. ASSUME NEW t \in Tasks, Avail(t) PROVE WrittenInv'
  <2>1. /\ call[t].at = "avail" /\ target' = target
        /\ \/ call'[t].op = call[t].op /\ call'[t].addr = call[t].addr
           \/ /\ call'[t] = NoCall /\ result'[t].op = call[t].op
              /\ result'[t].status # "A_OK"
    BY <1>0, <1>7, AvailFacts DEF SamePiece, Ended
  <2> QED BY <1>a, <1>c, <1>d, <2>1, WrittenStep
<1>8. ASSUME NEW t \in Tasks, Get(t) PROVE WrittenInv'
  <2>1. /\ call[t].at = "get" /\ SamePiece(call[t], Now(t)) /\ Goes(Now(t))
        /\ \/ Ended(t, call[t], "A_ERROR") \/ Ended(t, Now(t), "A_ERROR")
           \/ Ended(t, Now(t), "A_ASSERT") \/ Advance(t, Now(t))
    BY <1>0, <1>8, GetFacts DEF Kept
  <2>2. \/ call'[t].op = call[t].op
        \/ call'[t] = NoCall /\ result'[t].op = call[t].op
    BY <1>0, <2>1, AdvanceFacts DEF SamePiece, Ended
  <2>3. call[t].op # "write"
    BY <2>1 DEF BufferInv
  <2> QED BY <1>a, <1>c, <1>d, <2>1, <2>2, <2>3, WrittenStep
<1>9. CASE UNCHANGED vars
  BY <1>9 DEF vars, WrittenInv, WrittenOf, Landed, Boxed
<1> QED BY <1>1, <1>2, <1>3, <1>4, <1>5, <1>6, <1>7, <1>8, <1>9
        DEF Next, TaskStep

\* Pieces begin at a word, and no piece goes past the word its write ends in.
LEMMA PieceEnds ==
  ASSUME NEW c \in CallRec, c.addr % 4 = 0, c.addr + c.left = c.len
  PROVE  /\ c.addr + Txlen(c) <= Padded(c.len)
         /\ Txlen(c) < c.left => (c.addr + Txlen(c)) % 4 = 0
<1>1. PICK a \in Nat, l \in Nat, n \in Nat :
        a = c.addr /\ l = c.left /\ n = c.len
  BY DEF CallRec
<1>2. PICK m \in Nat : a = 4 * m
  BY <1>1
<1>3. PICK k \in Nat : Chunk = 4 * k /\ k > 0
  <2>1. Chunk \in Nat \ {0} /\ Chunk % 4 = 0
    BY BmiAssumption
  <2>2. \E k \in Nat : Chunk = 4 * k
    BY <2>1
  <2> QED BY <2>1, <2>2
<1>4. CASE l < Chunk
  <2>1. Txlen(c) = Padded(l) /\ l <= Padded(l)
    BY <1>1, <1>4, PaddedBounds DEF Txlen
  <2>2. a + Padded(l) = Padded(n)
    <3>1. (n + 3) \div 4 = m + (l + 3) \div 4
      BY <1>1, <1>2
    <3>2. (l + 3) \div 4 \in Nat
      OBVIOUS
    <3> QED BY <1>2, <3>1, <3>2 DEF Padded
  <2> QED BY <1>1, <2>1, <2>2, PaddedBounds
<1>5. CASE ~(l < Chunk)
  <2>1. Txlen(c) = Chunk /\ n <= Padded(n) /\ Padded(n) \in Nat
    BY <1>1, <1>5, PaddedBounds DEF Txlen
  <2>2. a + Chunk <= Padded(n)
    BY <1>1, <1>3, <1>5, <2>1
  <2>3. (a + Chunk) % 4 = 0
    BY <1>2, <1>3
  <2> QED BY <1>1, <2>1, <2>2, <2>3
<1> QED BY <1>4, <1>5

\* Steps of the one call that leave mailbox and memory alone.
LEMMA PastSame ==
  ASSUME PastInv, OneCaller, NEW t \in Tasks,
         target'.asked = target.asked, target'.mem = target.mem,
         target'.box = target.box,
         call'[t].op = "write" =>
           /\ call[t].op = "write" /\ call'[t].len = call[t].len
           /\ call'[t].addr = call[t].addr
  PROVE  PastInv'
BY DEF PastInv, OneCaller

\* A step of a call asks for no more than the call did.
LEMMA AskedSame ==
  ASSUME LoaderTypes, NEW t \in Tasks, TaskStep(t)
  PROVE  target'.asked = target.asked
<1>1. CASE Credit(t)
  <2>1. target' = target \/ \E k : target' = [target EXCEPT !.credit = k]
    BY <1>1 DEF Credit
  <2> QED BY <2>1 DEF LoaderTypes, LoaderRec
<1>2. CASE Put(t)
  <2>1. target' = target \/ \E k : target' = [target EXCEPT !.box = k]
    BY <1>2 DEF Put
  <2> QED BY <2>1 DEF LoaderTypes, LoaderRec
<1>3. CASE Get(t)
  <2>1. target' = target \/ \E k : target' = [target EXCEPT !.rdbuf = k]
    BY <1>3 DEF Get
  <2> QED BY <2>1 DEF LoaderTypes, LoaderRec
<1>4. CASE Fill(t) \/ Test(t) \/ Send(t) \/ Avail(t)
  BY <1>4 DEF Fill, Test, Send, Avail
<1> QED BY <1>1, <1>2, <1>3, <1>4 DEF TaskStep

\* No write changes a byte after the word it ends in.
LEMMA PastKept ==
  ASSUME Types, OneCredit, OneCaller, BufferInv, PastInv, [Next]_vars
  PROVE  PastInv'
<1>0. CallTypes /\ LoaderTypes
  BY DEF Types
<1>1. CASE BMIInit
  <2>1. \A t \in Tasks : call'[t].op = "none"
    BY <1>1 DEF BMIInit, Idle
  <2>2. target'.box = <<>> /\ target'.mem = [a \in Addresses |-> Before(a)]
    BY <1>1, LoaderFresh DEF BMIInit
  <2> QED BY <2>1, <2>2 DEF PastInv
<1>2. CASE LoaderRuns
  <2> DEFINE m == Head(target.box)
  <2>1. /\ target.box # <<>> /\ target' = Loaded(m) /\ call' = call
        /\ target.box \in Seq(CommandRec) /\ target.credit \in Nat
    BY <1>0, <1>2, LoaderFields DEF LoaderRuns
  <2>2. /\ target'.box = Tail(target.box) /\ target'.asked = target.asked
        /\ m.id # "write" => target'.mem = target.mem
        /\ m.id = "write" =>
             target'.mem = [a \in Addresses |->
                IF a \in m.addr .. m.addr + m.len - 1
                THEN m.data[a - m.addr + 1] ELSE target.mem[a]]
    BY Zenon, <1>0, <2>1, LoadedFields
  <2>3. Tail(target.box) = <<>>
    BY <2>1, OneInAll DEF OneCredit
  <2>4. m.addr \in Nat /\ m.len \in Nat /\ target.asked \in Nat
    <3>1. m \in CommandRec
      BY <2>1
    <3> QED BY <1>0, <3>1, LoaderFields DEF CommandRec
  <2>5. ASSUME NEW a \in Addresses, a >= target.asked
        PROVE  target'.mem[a] = Before(a)
    <3>1. target.mem[a] = Before(a)
      BY <2>5 DEF PastInv
    <3>2. m.id = "write" => a \notin m.addr .. m.addr + m.len - 1
      <4>1. m.id = "write" => m.addr + m.len <= target.asked
        BY <2>1 DEF PastInv
      <4>2. a \in Nat
        BY LongestIsLongest
      <4> QED BY <2>4, <2>5, <4>1, <4>2
    <3> QED BY <2>2, <2>5, <3>1, <3>2
  <2> QED BY <2>1, <2>2, <2>3, <2>5 DEF PastInv
<1>3. ASSUME NEW t \in Tasks, Call(t) PROVE PastInv'
  <2>1. /\ target'.asked >= target.asked /\ target'.asked \in Nat
        /\ target'.mem = target.mem /\ target'.box = target.box
        /\ call[t].op = "none"
        /\ call'[t].op = "write" =>
             call'[t].addr = 0 /\ Padded(call'[t].len) <= target'.asked
    BY <1>0, <1>3, CallFacts, NoCallIsNowhere DEF Kept, SameMemory, SameBox
  <2>2. target.asked \in Nat /\ Addresses \subseteq Nat
    BY <1>0, LoaderFields, LongestIsLongest
  <2>3. \A a \in Addresses :
          a >= target'.asked => target'.mem[a] = Before(a)
    <3>1. \A a \in Addresses : a >= target'.asked => a >= target.asked
      BY <2>1, <2>2
    <3> QED BY <2>1, <3>1 DEF PastInv
  <2>4. target'.box # <<>> /\ Head(target'.box).id = "write" =>
          Head(target'.box).addr + Head(target'.box).len <= target'.asked
    <3>1. target.box # <<>> => /\ Head(target.box).addr \in Nat
                               /\ Head(target.box).len \in Nat
      <4>1. target.box # <<>> => Head(target.box) \in CommandRec
        BY <1>0, LoaderFields
      <4> QED BY <4>1 DEF CommandRec
    <3> QED BY <2>1, <2>2, <3>1 DEF PastInv
  <2>5. \A u \in Tasks : call'[u].op = "write" =>
          call'[u].addr % 4 = 0 /\ Padded(call'[u].len) <= target'.asked
    BY <2>1 DEF OneCaller
  <2> QED BY <2>3, <2>4, <2>5 DEF PastInv
<1>4. ASSUME NEW t \in Tasks, Fill(t) PROVE PastInv'
  <2>1. SamePiece(call[t], call'[t]) /\ target' = target
    BY <1>0, <1>4, FillFacts
  <2> QED BY <2>1, PastSame DEF SamePiece
<1>5. ASSUME NEW t \in Tasks, Test(t) \/ Credit(t) \/ Send(t)
      PROVE  PastInv'
  <2>1. /\ target'.box = target.box /\ target'.mem = target.mem
        /\ call'[t] = NoCall \/ SamePiece(call[t], call'[t])
        /\ target'.asked = target.asked
    BY <1>0, <1>5, AskFacts, AskedSame
       DEF Kept, SameMemory, SameBox, Ended, TaskStep
  <2> QED BY <2>1, PastSame, NoCallIsNowhere DEF SamePiece
<1>6. ASSUME NEW t \in Tasks, Put(t) PROVE PastInv'
  <2> DEFINE c == call[t]
  <2>1. /\ c.at = "put" /\ target'.mem = target.mem
        /\ target'.asked = target.asked
    BY <1>0, <1>6, PutFacts, AskedSame DEF Kept, SameMemory, TaskStep
  <2>2. target.box = <<>>
    BY <2>1 DEF OneCredit, Holds
  <2>3. CASE target'.box = target.box /\ Ended(t, c, "A_ERROR")
    BY <2>1, <2>3, PastSame, NoCallIsNowhere DEF Ended
  <2>4. CASE /\ target'.box = Append(target.box,
                    IF c.op \in {"done", "info"} THEN CommandOf(c)
                    ELSE pBMICmdBuf)
             /\ Goes(c) /\ Advance(t, c)
    <3>1. PICK m : m = CommandOf(c)
      OBVIOUS
    <3>2. target'.box = <<m>>
      <4>1. c.op \notin {"done", "info"} => pBMICmdBuf = CommandOf(c)
        BY <2>1 DEF BufferInv
      <4> QED BY <2>2, <2>4, <3>1, <4>1
    <3>3. Head(target'.box) = m
      BY <3>2
    <3>4. m.id = "write" => c.op = "write" /\ m.addr = c.addr
                            /\ m.len = Txlen(c)
      BY <3>1 DEF CommandOf, Command
    <3>5. c.op = "write" =>
            /\ c.addr + Txlen(c) <= Padded(c.len)
            /\ Txlen(c) < c.left => (c.addr + Txlen(c)) % 4 = 0
            /\ Padded(c.len) <= target.asked /\ c.addr % 4 = 0
      <4>1. c \in CallRec /\ (c.op = "write" => c.addr + c.left = c.len)
        BY <2>4 DEF Goes
      <4> QED BY <4>1, PieceEnds DEF PastInv
    <3>6. c.addr \in Nat /\ Txlen(c) \in Nat /\ Padded(c.len) \in Nat
          /\ target.asked \in Nat
      BY <1>0, <2>4, PieceBounds, PaddedBounds, LoaderFields
         DEF Goes, CallRec
    <3>7. m.id = "write" => m.addr + m.len <= target'.asked
      BY <2>1, <3>4, <3>5, <3>6
    <3>8. call'[t].op = "write" =>
            call'[t].addr % 4 = 0 /\ Padded(call'[t].len) <= target'.asked
      BY <1>0, <2>1, <2>4, <3>5, AdvanceFacts, NoCallIsNowhere
         DEF Moved, SamePiece, Ended
    <3>9. \A u \in Tasks : call'[u].op = "write" =>
            call'[u].addr % 4 = 0 /\ Padded(call'[u].len) <= target'.asked
      BY <3>8 DEF OneCaller
    <3> QED BY <2>1, <3>3, <3>7, <3>9 DEF PastInv
  <2> QED BY <1>0, <1>6, <2>3, <2>4, PutFacts
<1>7. ASSUME NEW t \in Tasks, Avail(t) PROVE PastInv'
  <2>1. /\ target' = target
        /\ call'[t] = NoCall \/ SamePiece(call[t], call'[t])
    BY <1>0, <1>7, AvailFacts DEF Ended
  <2> QED BY <2>1, PastSame, NoCallIsNowhere DEF SamePiece
<1>8. ASSUME NEW t \in Tasks, Get(t) PROVE PastInv'
  <2>1. /\ call[t].at = "get" /\ SamePiece(call[t], Now(t)) /\ Goes(Now(t))
        /\ \/ Ended(t, call[t], "A_ERROR") \/ Ended(t, Now(t), "A_ERROR")
           \/ Ended(t, Now(t), "A_ASSERT") \/ Advance(t, Now(t))
        /\ target'.mem = target.mem /\ target'.box = target.box
        /\ target'.asked = target.asked
    BY <1>0, <1>8, GetFacts, AskedSame DEF Kept, SameMemory, TaskStep
  <2>2. call[t].op # "write"
    BY <2>1 DEF BufferInv
  <2>3. call'[t].op # "write"
    BY <1>0, <2>1, <2>2, AdvanceFacts, NoCallIsNowhere DEF SamePiece, Ended
  <2> QED BY <2>1, <2>3, PastSame
<1>9. CASE UNCHANGED vars
  BY <1>9 DEF vars, PastInv
<1> QED BY <1>1, <1>2, <1>3, <1>4, <1>5, <1>6, <1>7, <1>8, <1>9
        DEF Next, TaskStep

-----------------------------------------------------------------------------
(***************************************************************************)
(* One caller that gives no answer up: every answer is the one it asks for.*)
(***************************************************************************)
\* Concatenation, on sequences of bytes.
Regroups(a, b, c) == (a \o b) \o c = a \o (b \o c)
LEMMA Associative ==
  \A a, b, c \in Seq(Int) : Regroups(a, b, c)
<1> TAKE a, b, c \in Seq(Int)
<1>1. (a \o b) \o c = a \o (b \o c)
  BY ConcatAssociative
<1> QED BY Zenon, <1>1 DEF Regroups

\* Concatenation gives a sequence of bytes.
LEMMA Concatenated ==
  ASSUME NEW a \in Seq(Int), NEW b \in Seq(Int)
  PROVE  a \o b \in Seq(Int) /\ Len(a \o b) = Len(a) + Len(b)
OBVIOUS

\* Concatenation with nothing.
LEMMA NothingBefore ==
  ASSUME NEW a \in Seq(Int)
  PROVE  <<>> \o a = a /\ a \o <<>> = a
OBVIOUS

\* Reading the first bytes of an answer leaves the others.
LEMMA ReadSplits ==
  ASSUME NEW u \in Seq(Int), NEW v \in Seq(Int), NEW n, n = Len(u)
  PROVE  /\ [i \in 1 .. n |-> IF i <= Len(u \o v) THEN (u \o v)[i]
                              ELSE Garbage] = u
         /\ SubSeq(u \o v, n + 1, Len(u \o v)) = v
<1>1. n \in Nat /\ Len(v) \in Nat /\ Len(u \o v) = n + Len(v)
  OBVIOUS
<1>2. \A i \in 1 .. n : i <= Len(u \o v) /\ (u \o v)[i] = u[i]
  BY <1>1
<1>3. [i \in 1 .. n |-> IF i <= Len(u \o v) THEN (u \o v)[i] ELSE Garbage]
        = [i \in 1 .. n |-> u[i]]
  BY <1>2
<1>4. [i \in 1 .. n |-> u[i]] = u
  OBVIOUS
<1>5. SubSeq(u \o v, n + 1, Len(u \o v)) = v
  <2>1. SubSeq(u \o v, n + 1, n + Len(v)) \in Seq(Int)
    BY <1>1
  <2>2. Len(SubSeq(u \o v, n + 1, n + Len(v))) = Len(v)
    BY <1>1
  <2>3. \A i \in 1 .. Len(v) :
          SubSeq(u \o v, n + 1, n + Len(v))[i] = v[i]
    <3> TAKE i \in 1 .. Len(v)
    <3>1. SubSeq(u \o v, n + 1, n + Len(v))[i] = (u \o v)[n + i]
      BY <1>1
    <3>2. (u \o v)[n + i] = v[i]
      BY <1>1
    <3> QED BY Zenon, <3>1, <3>2
  <2> QED BY <1>1, <2>1, <2>2, <2>3
<1> QED BY <1>3, <1>4, <1>5

\* The three parts in which the information on the target is read.
LEMMA InfoParts ==
  /\ Info = Word(Sentinel) \o Rest2 /\ Rest2 = Word(InfoSize) \o Rest3
  /\ (Word(Sentinel) \o Word(InfoSize)) \o Rest3 = Info
  /\ Word(Sentinel) \in Seq(Int) /\ Len(Word(Sentinel)) = 4
  /\ Word(InfoSize) \in Seq(Int) /\ Len(Word(InfoSize)) = 4
  /\ Rest2 \in Seq(Int) /\ Rest3 \in Seq(Int) /\ Len(Rest3) = 8
  /\ Word(Sentinel) # <<>>
  /\ Len(Word(Sentinel) \o Word(InfoSize)) = 8
  /\ Word(Sentinel) \o Word(InfoSize) # <<>>
<1>1. Sentinel \in Int /\ InfoSize \in Int /\ Version \in Int /\ 6 \in Int
  BY DEF Sentinel, InfoSize, Version
<1>2. PICK s \in Seq(Int), i \in Seq(Int), v \in Seq(Int), w \in Seq(Int) :
        /\ s = Word(Sentinel) /\ Len(s) = 4 /\ i = Word(InfoSize) /\ Len(i) = 4
        /\ v = Word(Version) /\ Len(v) = 4 /\ w = Word(6) /\ Len(w) = 4
  BY Zenon, <1>1, WordsAreBytes
<1>3. i \o v \in Seq(Int) /\ s \o i \in Seq(Int)
  BY Zenon, Concatenated
<1>4. /\ Regroups(s, i, v) /\ Regroups(s, i \o v, w)
      /\ Regroups(i, v, w) /\ Regroups(s \o i, v, w)
  BY Zenon, <1>3, Associative
<1>5. /\ ((s \o i) \o v) \o w = s \o ((i \o v) \o w)
      /\ (i \o v) \o w = i \o (v \o w)
      /\ (s \o i) \o (v \o w) = ((s \o i) \o v) \o w
  BY Zenon, <1>4 DEF Regroups
<1>6. Len(v \o w) = 8 /\ Len(s \o i) = 8
  <2>1. Len(v \o w) = Len(v) + Len(w) /\ Len(s \o i) = Len(s) + Len(i)
    BY Zenon, <1>2, Concatenated
  <2>2. Len(v \o w) = 4 + 4 /\ Len(s \o i) = 4 + 4
    BY Zenon, <1>2, <2>1
  <2> QED BY <2>2
<1>7. s # <<>> /\ s \o i # <<>>
  BY <1>2, <1>6
<1>8. Info = ((s \o i) \o v) \o w /\ Rest2 = (i \o v) \o w /\ Rest3 = v \o w
  BY Zenon, <1>2 DEF Info, Rest2, Rest3
<1>9. Info = s \o Rest2 /\ Rest2 = i \o Rest3 /\ (s \o i) \o Rest3 = Info
      /\ Len(Rest3) = 8
  BY Zenon, <1>5, <1>6, <1>8
<1> QED BY Zenon, <1>2, <1>6, <1>7, <1>9, WordsAreBytes

\* Reading a whole answer leaves nothing.
LEMMA ReadsAll ==
  ASSUME NEW s \in Seq(Int), NEW n, n = Len(s)
  PROVE  /\ [i \in 1 .. n |-> IF i <= Len(s) THEN s[i] ELSE Garbage] = s
         /\ SubSeq(s, n + 1, Len(s)) = <<>>
<1>1. s \o <<>> = s /\ <<>> \in Seq(Int)
  BY NothingBefore
<1>2. /\ [i \in 1 .. n |-> IF i <= Len(s \o <<>>) THEN (s \o <<>>)[i]
                           ELSE Garbage] = s
      /\ SubSeq(s \o <<>>, n + 1, Len(s \o <<>>)) = <<>>
  BY <1>1, ReadSplits
<1> QED BY Zenon, <1>1, <1>2

\* The answer to come depends on the mailbox and the memory.
LEMMA ComingSame ==
  ASSUME SameMemory, SameBox
  PROVE  Coming' = Coming
BY DEF SameMemory, SameBox, Coming, Reply

\* A call that waits and does not change keeps its answer.
LEMMA FitsSame ==
  ASSUME NEW c, NEW d, NEW s, Fits(c, s), SamePiece(c, d),
         d.recv = c.recv, d.got = c.got
  PROVE  Fits(d, s)
BY DEF Fits, SamePiece, InfoWaits

\* A call that does not change asks for the same.
LEMMA AsksSame ==
  ASSUME NEW c, NEW d, SamePiece(c, d), d.recv = c.recv, d.got = c.got
  PROVE  /\ Asks(c) => Asks(d)
         /\ ReadSoFar(c) => ReadSoFar(d)
BY DEF Asks, ReadSoFar, SamePiece

\* A task outside a call waits for nothing.
LEMMA NoCallAnswer ==
  ASSUME NEW t \in Tasks, Coming' = <<>>, call'[t] = NoCall
  PROVE  AnswerOf(t)'
BY NoCallIsNowhere DEF AnswerOf, Waiting, Asking

\* A call asks for a word first.
LEMMA FirstWord ==
  ASSUME NEW c, NEW s, Fits(c, s)
  PROVE  Head(c.recv) >= 4
BY DEF Fits, InfoWaits, InfoSize

\* The answer to the command of a call is the one it waits for.
LEMMA ReplyFits ==
  ASSUME LoaderTypes, NEW c, CallOk(c), c.op # "none", Asks(c),
         c.op = "read" => ReadSoFar(c), c.op # "read" => c.got = <<>>
  PROVE  /\ c.recv # <<>> => Fits(c, Reply(CommandOf(c)))
         /\ c.recv = <<>> => Reply(CommandOf(c)) = <<>>
<1> DEFINE m == CommandOf(c)
<1>1. CASE c.op = "read"
  <2>1. c \in CallRec /\ c.left > 0 /\ c.left % 4 = 0 /\ c.recv = <<4>>
    BY <1>1 DEF CallOk, ReadSoFar, Asks
  <2>2. m.id = "read" /\ m.addr = c.addr /\ m.len = 4
    BY <1>1, <2>1, PieceBounds DEF CommandOf
  <2>3. CommandOk(m)
    BY <1>1, CommandOfCall
  <2> HIDE DEF m
  <2>4. Len(Reply(m)) = 4 /\ \A i \in 1 .. 4 : Reply(m)[i] \in
                   {Before(c.addr + i - 1), Given(c.addr + i - 1)}
    BY <2>2, <2>3, ReplyIsBytes
  <2>5. Fits(c, Reply(m))
    BY <1>1, <2>1, <2>4 DEF Fits
  <2> QED BY <2>1, <2>5 DEF m
<1>2. CASE c.op = "readsoc"
  <2>1. Reply(m) = Word(target.soc) /\ target.soc \in {0, 9}
    BY <1>2, LoaderFields DEF CommandOf, Command, Reply
  <2> HIDE DEF m
  <2>2. c.recv = <<4>> /\ Fits(c, Reply(m))
    BY <1>2, <2>1 DEF Fits, Asks
  <2> QED BY <2>2 DEF m
<1>3. CASE c.op = "exec"
  <2>1. Reply(m) = Word(8)
    BY <1>3 DEF CommandOf, Reply
  <2> HIDE DEF m
  <2>2. c.recv = <<4>> /\ Fits(c, Reply(m))
    BY <1>3, <2>1 DEF Fits, Asks
  <2> QED BY <2>2 DEF m
<1>4. CASE c.op = "info"
  <2>1. Reply(m) = Info
    BY <1>4 DEF CommandOf, Command, Reply
  <2> HIDE DEF m
  <2>2. c.recv = <<4, 4, InfoSize - 4>> /\ Fits(c, Reply(m))
    BY <1>4, <2>1 DEF Fits, Asks, InfoWaits
  <2> QED BY <2>2 DEF m
<1>5. CASE c.op \in {"done", "write", "writesoc"}
  <2>1. Reply(m) = <<>>
    BY <1>5 DEF CommandOf, Command, Reply
  <2>2. c.recv = <<>>
    BY <1>5 DEF Asks
  <2> QED BY <2>1, <2>2
<1>6. c.op \in AllOps
  BY DEF CallOk, CallRec
<1> QED BY <1>1, <1>2, <1>3, <1>4, <1>5, <1>6 DEF AllOps

\* What a read of the mailbox leaves there.
Remains(t) == SubSeq(target.rdbuf, Head(call[t].recv) + 1, Len(target.rdbuf))

\* What it gives, to the call that waits for it.
LEMMA GetAnswers ==
  ASSUME LoaderTypes, NEW t \in Tasks, call[t].at = "get", AnswerOf(t)
  PROVE
    \/ /\ call[t].op \in {"read", "readsoc", "exec"}
       /\ Tail(call[t].recv) = <<>> /\ Remains(t) = <<>>
       /\ call[t].op # "read" => call[t].got = <<>>
       /\ Read(t) \in Seq(Int) /\ Len(Read(t)) = 4
       /\ call[t].op = "read" => \A i \in 1 .. 4 : Read(t)[i] \in
             {Before(call[t].addr + i - 1), Given(call[t].addr + i - 1)}
       /\ call[t].op = "readsoc" => Read(t) \in {Word(0), Word(9)}
       /\ call[t].op = "exec" => Read(t) = Word(8)
    \/ /\ call[t].op = "info" /\ call[t].got = <<>>
       /\ Read(t) = Word(Sentinel) /\ Remains(t) = Rest2
       /\ Tail(call[t].recv) = <<4, InfoSize - 4>>
    \/ /\ call[t].op = "info" /\ call[t].got = Word(Sentinel)
       /\ Read(t) = Word(InfoSize) /\ Remains(t) = Rest3
       /\ Tail(call[t].recv) = <<InfoSize - 4>>
    \/ /\ call[t].op = "info"
       /\ call[t].got = Word(Sentinel) \o Word(InfoSize)
       /\ Read(t) = Rest3 /\ Remains(t) = <<>> /\ Tail(call[t].recv) = <<>>
<1> DEFINE c == call[t]
<1>1. target.rdbuf \in Seq(Int) /\ Fits(c, target.rdbuf)
  BY LoaderFields DEF AnswerOf, Waiting, Asking, Coming
<1>2. PICK s \in Seq(Int) : s = target.rdbuf
  BY <1>1
<1>3. CASE c.op \in {"read", "readsoc", "exec"}
  <2>1. c.recv = <<4>> /\ Len(s) = 4
    <3>1. \A v \in Int : Len(Word(v)) = 4
      BY Zenon, WordsAreBytes
    <3>2. Len(Word(0)) = 4 /\ Len(Word(9)) = 4 /\ Len(Word(8)) = 4
      BY <3>1
    <3> QED BY <1>1, <1>2, <1>3, <3>2 DEF Fits
  <2>2. Head(c.recv) = 4 /\ Tail(c.recv) = <<>>
    BY <2>1
  <2>3. /\ [i \in 1 .. 4 |-> IF i <= Len(s) THEN s[i] ELSE Garbage] = s
        /\ SubSeq(s, 4 + 1, Len(s)) = <<>>
    <3>1. \A n : n = Len(s) =>
            /\ [i \in 1 .. n |-> IF i <= Len(s) THEN s[i] ELSE Garbage] = s
            /\ SubSeq(s, n + 1, Len(s)) = <<>>
      BY Zenon, ReadsAll
    <3> QED BY Zenon, <2>1, <3>1
  <2>4. Read(t) = s /\ Remains(t) = <<>>
    BY Zenon, <1>2, <2>2, <2>3 DEF Read, Remains
  <2> QED BY <1>1, <1>2, <1>3, <2>1, <2>2, <2>4 DEF Fits
<1>4. ASSUME NEW u \in Seq(Int), NEW v \in Seq(Int), s = u \o v,
             Head(c.recv) = Len(u)
      PROVE  Read(t) = u /\ Remains(t) = v
  <2>1. \A n : n = Len(u) =>
          /\ [i \in 1 .. n |-> IF i <= Len(u \o v) THEN (u \o v)[i]
                               ELSE Garbage] = u
          /\ SubSeq(u \o v, n + 1, Len(u \o v)) = v
    BY Zenon, ReadSplits
  <2> QED BY Zenon, <1>2, <1>4, <2>1 DEF Read, Remains
<1>5. CASE c.op = "info" /\ c.got = <<>> /\ c.recv = <<4, 4, InfoSize - 4>>
           /\ s = Info
  <2>1. Head(c.recv) = 4 /\ Tail(c.recv) = <<4, InfoSize - 4>>
    BY <1>5
  <2>2. Read(t) = Word(Sentinel) /\ Remains(t) = Rest2
    BY Zenon, <1>4, <1>5, <2>1, InfoParts
  <2> QED BY <1>5, <2>1, <2>2
<1>6. CASE c.op = "info" /\ c.got = Word(Sentinel)
           /\ c.recv = <<4, InfoSize - 4>> /\ s = Rest2
  <2>1. Head(c.recv) = 4 /\ Tail(c.recv) = <<InfoSize - 4>>
    BY <1>6
  <2>2. Read(t) = Word(InfoSize) /\ Remains(t) = Rest3
    BY Zenon, <1>4, <1>6, <2>1, InfoParts
  <2> QED BY <1>6, <2>1, <2>2
<1>7. CASE c.op = "info" /\ c.got = Word(Sentinel) \o Word(InfoSize)
           /\ c.recv = <<InfoSize - 4>> /\ s = Rest3
  <2>1. Head(c.recv) = 8 /\ Tail(c.recv) = <<>>
    BY <1>7 DEF InfoSize
  <2>2. s \o <<>> = s /\ <<>> \in Seq(Int)
    BY NothingBefore
  <2>3. Read(t) = Rest3 /\ Remains(t) = <<>>
    BY Zenon, <1>4, <1>7, <2>1, <2>2, InfoParts
  <2> QED BY <1>7, <2>1, <2>3
<1>8. c.op \in {"read", "readsoc", "exec", "info"}
  BY <1>1 DEF Fits
<1>9. c.op = "info" => InfoWaits(c, s)
  BY <1>1, <1>2 DEF Fits
<1> QED BY <1>3, <1>5, <1>6, <1>7, <1>8, <1>9 DEF InfoWaits

\* The bytes read so far, with another word of them.
LEMMA NextWord ==
  ASSUME NEW g \in Seq(Int), NEW w \in Seq(Int), NEW n \in Nat, Len(g) = n,
         Len(w) = 4,
         \A i \in 1 .. n : g[i] \in {Before(i - 1), Given(i - 1)},
         \A i \in 1 .. 4 : w[i] \in {Before(n + i - 1), Given(n + i - 1)}
  PROVE  /\ Len(g \o w) = n + 4
         /\ \A i \in 1 .. n + 4 :
              (g \o w)[i] \in {Before(i - 1), Given(i - 1)}
<1>0. Len(g \o w) = Len(g) + Len(w)
      /\ \A i \in 1 .. Len(g) + Len(w) :
           (g \o w)[i] = IF i <= Len(g) THEN g[i] ELSE w[i - Len(g)]
  <2>1. Len(g \o w) = Len(g) + Len(w)
    BY Zenon, Concatenated
  <2>2. ASSUME NEW a \in Seq(Int), NEW b \in Seq(Int),
               NEW i \in 1 .. Len(a) + Len(b)
        PROVE  (a \o b)[i] = IF i <= Len(a) THEN a[i] ELSE b[i - Len(a)]
    OBVIOUS
  <2> QED BY Zenon, <2>1, <2>2
<1>1. Len(g \o w) = n + 4
      /\ \A i \in 1 .. n + 4 :
           (g \o w)[i] = IF i <= n THEN g[i] ELSE w[i - n]
  BY Zenon, <1>0
<1>2. ASSUME NEW i \in 1 .. n + 4
      PROVE  (g \o w)[i] \in {Before(i - 1), Given(i - 1)}
  <2>1. CASE i <= n
    <3>1. i \in 1 .. n /\ (g \o w)[i] = g[i]
      BY <1>1, <2>1
    <3> QED BY <3>1
  <2>2. CASE ~(i <= n)
    <3>1. i - n \in 1 .. 4 /\ n + (i - n) - 1 = i - 1
      BY <2>2
    <3>2. (g \o w)[i] = w[i - n]
      BY <1>1, <2>2
    <3>3. w[i - n] \in {Before(n + (i - n) - 1), Given(n + (i - n) - 1)}
      BY <3>1
    <3> QED BY <3>1, <3>2, <3>3
  <2> QED BY <2>1, <2>2
<1> QED BY <1>1, <1>2

\* A call that has read an answer.
LEMMA GetKept ==
  ASSUME CallTypes, LoaderTypes, NEW t \in Tasks, Get(t),
         "reply" \notin Happens, AnswerOf(t), RightOf(t)
  PROVE  AnswerOf(t)' /\ RightOf(t)'
<1> DEFINE c == call[t]
           d == Now(t)
<1>1. /\ c.at = "get" /\ SamePiece(c, d) /\ Goes(d)
      /\ d.recv = Tail(c.recv) /\ d.got = c.got \o Read(t)
      /\ target'.box = target.box /\ target'.rdbuf = Remains(t)
      /\ \/ /\ c.op = "info" /\ c.got = <<>> /\ Read(t) # Word(Sentinel)
         \/ /\ c.op = "info" /\ Len(c.got) = 4 /\ Read(t) # Word(InfoSize)
         \/ Advance(t, d)
  BY GetFacts DEF Remains
<1>2. /\ target'.box = <<>> /\ Coming' = Remains(t)
      /\ c.op = "read" => ReadSoFar(c)
  BY <1>1 DEF AnswerOf, Coming
<1>3. /\ c \in CallRec /\ c.got \in Seq(Int) /\ c.addr \in Nat
      /\ c.left \in Nat
      /\ c.op = "read" => c.addr + c.left = c.len
  BY DEF CallTypes, CallOk, CallRec
<1>4. d.op = c.op /\ d.addr = c.addr /\ d.left = c.left /\ d.len = c.len
  BY <1>1 DEF SamePiece
<1> HIDE DEF d
<1>5. ASSUME Ended(t, d, "A_OK"), Remains(t) = <<>>,
             d.op = "read" =>
               /\ Len(d.got) = d.len
               /\ \A i \in 1 .. d.len :
                    d.got[i] \in {Before(i - 1), Given(i - 1)},
             d.op = "readsoc" => d.got \in {Word(0), Word(9)},
             d.op = "exec" => d.got = Word(8),
             d.op = "info" => d.got = Info
      PROVE  AnswerOf(t)' /\ RightOf(t)'
  <2>1. AnswerOf(t)'
    BY <1>2, <1>5, NoCallAnswer DEF Ended
  <2>2. RightOf(t)'
    BY <1>5 DEF Ended, RightOf
  <2> QED BY <2>1, <2>2
<1>6. CASE /\ c.op \in {"read", "readsoc", "exec"}
           /\ Tail(c.recv) = <<>> /\ Remains(t) = <<>>
           /\ c.op # "read" => c.got = <<>>
           /\ Read(t) \in Seq(Int) /\ Len(Read(t)) = 4
           /\ c.op = "read" => \A i \in 1 .. 4 : Read(t)[i] \in
                 {Before(c.addr + i - 1), Given(c.addr + i - 1)}
           /\ c.op = "readsoc" => Read(t) \in {Word(0), Word(9)}
           /\ c.op = "exec" => Read(t) = Word(8)
  <2>1. Advance(t, d) /\ d.recv = <<>>
    BY <1>1, <1>6
  <2>2. CASE c.op \in {"readsoc", "exec"}
    <3>1. d.got = Read(t)
      BY <1>1, <1>6, <2>2, NothingBefore
    <3>2. Ended(t, d, "A_OK")
      BY <1>1, <1>4, <2>1, <2>2, AdvanceFacts
    <3> QED BY <1>4, <1>5, <1>6, <2>2, <3>1, <3>2
  <2>3. CASE c.op = "read"
    <3>1. /\ c.left > 0 /\ c.left % 4 = 0 /\ Len(c.got) = c.addr
          /\ \A i \in 1 .. c.addr :
               c.got[i] \in {Before(i - 1), Given(i - 1)}
      BY <1>2, <2>3 DEF ReadSoFar
    <3>2. /\ Len(d.got) = c.addr + 4
          /\ \A i \in 1 .. c.addr + 4 :
               d.got[i] \in {Before(i - 1), Given(i - 1)}
      <4>1. /\ c.got \in Seq(Int) /\ Read(t) \in Seq(Int) /\ c.addr \in Nat
            /\ Len(c.got) = c.addr /\ Len(Read(t)) = 4
            /\ \A i \in 1 .. c.addr :
                 c.got[i] \in {Before(i - 1), Given(i - 1)}
            /\ \A i \in 1 .. 4 : Read(t)[i] \in
                 {Before(c.addr + i - 1), Given(c.addr + i - 1)}
        BY Zenon, <1>3, <1>6, <2>3, <3>1
      <4>2. /\ Len(c.got \o Read(t)) = c.addr + 4
            /\ \A i \in 1 .. c.addr + 4 :
                 (c.got \o Read(t))[i] \in {Before(i - 1), Given(i - 1)}
        BY Zenon, <4>1, NextWord
      <4> QED BY Zenon, <1>1, <4>2
    <3>3. Moved(d) = 4
      <4>1. Rxlen(d) = Rxlen(c)
        BY <1>4 DEF Rxlen
      <4>2. Rxlen(c) = 4
        BY <1>3, <3>1, PieceBounds
      <4> QED BY <1>4, <2>3, <4>1, <4>2 DEF Moved
    <3>4. CASE /\ 4 < c.left /\ call'[t].at = "fill" /\ call'[t].op = c.op
               /\ call'[t].left = c.left - 4 /\ call'[t].addr = c.addr + 4
               /\ call'[t].got = d.got /\ result'[t] = result[t]
      <4>1. c.left - 4 > 0 /\ (c.left - 4) % 4 = 0
        BY <1>3, <3>1, <3>4
      <4>2. ReadSoFar(call'[t])
        BY <3>2, <3>4, <4>1 DEF ReadSoFar
      <4>3. AnswerOf(t)'
        BY <1>2, <1>6, <2>3, <3>4, <4>2 DEF AnswerOf, Waiting, Asking
      <4> QED BY <3>4, <4>3 DEF RightOf
    <3>5. CASE Ended(t, d, "A_OK") /\ 4 >= c.left
      <4>1. d.len = c.addr + 4
        <5>1. \A n \in Nat : n > 0 /\ n % 4 = 0 /\ 4 >= n => n = 4
          OBVIOUS
        <5>2. c.left = 4
          BY Zenon, <1>3, <3>1, <3>5, <5>1
        <5> QED BY Zenon, <1>3, <1>4, <2>3, <5>2
      <4>2. d.op = "read"
        BY <1>4, <2>3
      <4> QED BY <1>5, <1>6, <3>2, <3>5, <4>1, <4>2
    <3> QED BY <1>1, <1>4, <2>1, <2>3, <3>3, <3>4, <3>5, AdvanceFacts
  <2> QED BY <1>6, <2>2, <2>3
<1>7. ASSUME Fits(d, Remains(t)), d.op = "info", d.recv # <<>>, Advance(t, d)
      PROVE  AnswerOf(t)' /\ RightOf(t)'
  <2>1. /\ call'[t].at = "avail" /\ SamePiece(d, call'[t])
        /\ call'[t].got = d.got /\ call'[t].recv = d.recv
        /\ result'[t] = result[t]
    BY <1>1, <1>7, AdvanceFacts
  <2>2. PICK e, s : e = call'[t] /\ s = Remains(t)
    OBVIOUS
  <2>3. Fits(e, s) /\ e.op = "info"
    BY <1>7, <2>1, <2>2, FitsSame DEF SamePiece
  <2>4. AnswerOf(t)'
    BY <1>2, <2>1, <2>2, <2>3 DEF AnswerOf, Waiting, Asking
  <2> QED BY <2>1, <2>4 DEF RightOf
<1>8. CASE /\ c.op = "info" /\ c.got = <<>>
           /\ Read(t) = Word(Sentinel) /\ Remains(t) = Rest2
           /\ Tail(c.recv) = <<4, InfoSize - 4>>
  <2>1. d.got = Word(Sentinel) /\ d.recv = <<4, InfoSize - 4>>
    BY <1>1, <1>8, NothingBefore, InfoParts
  <2>2. d.recv # <<>> /\ Advance(t, d)
    BY <1>1, <1>8, <2>1
  <2>3. Fits(d, Remains(t))
    BY <1>4, <1>8, <2>1 DEF Fits, InfoWaits
  <2> QED BY <1>4, <1>7, <1>8, <2>2, <2>3
<1>9. CASE /\ c.op = "info" /\ c.got = Word(Sentinel)
           /\ Read(t) = Word(InfoSize) /\ Remains(t) = Rest3
           /\ Tail(c.recv) = <<InfoSize - 4>>
  <2>1. /\ d.got = Word(Sentinel) \o Word(InfoSize)
        /\ d.recv = <<InfoSize - 4>>
    BY Zenon, <1>1, <1>9
  <2>2. d.recv # <<>> /\ Advance(t, d)
    <3>1. c.got # <<>>
      BY Zenon, <1>9, InfoParts
    <3>2. Advance(t, d)
      BY Zenon, <1>1, <1>9, <3>1
    <3> QED BY <2>1, <3>2
  <2>3. Fits(d, Remains(t))
    BY <1>4, <1>9, <2>1 DEF Fits, InfoWaits
  <2> QED BY <1>4, <1>7, <1>9, <2>2, <2>3
<1>10. CASE /\ c.op = "info"
            /\ c.got = Word(Sentinel) \o Word(InfoSize)
            /\ Read(t) = Rest3 /\ Remains(t) = <<>> /\ Tail(c.recv) = <<>>
  <2>1. d.got = Info /\ d.recv = <<>>
    BY Zenon, <1>1, <1>10, InfoParts
  <2>2. c.got # <<>> /\ Len(c.got) = 8
    BY Zenon, <1>10, InfoParts
  <2>3. Advance(t, d)
    BY <1>1, <2>2
  <2>4. Ended(t, d, "A_OK")
    BY <1>1, <1>4, <1>10, <2>1, <2>3, AdvanceFacts
  <2> QED BY <1>4, <1>5, <1>10, <2>1, <2>4
<1> QED BY <1>1, <1>6, <1>8, <1>9, <1>10, GetAnswers

\* A call that has written its command, to a loader that has nothing to say.
LEMMA PutKept ==
  ASSUME CallTypes, LoaderTypes, OneCredit, BufferInv,
         NEW t \in Tasks, Put(t), AnswerOf(t), RightOf(t)
  PROVE  AnswerOf(t)' /\ RightOf(t)'
<1> DEFINE c == call[t]
<1>1. /\ c.at = "put" /\ Kept(t) /\ target'.rdbuf = target.rdbuf
      /\ target.box = <<>> /\ CallOk(c) /\ c.op # "none"
  BY PutFacts DEF OneCredit, Holds, CallTypes, CallOk
<1>2. /\ target.rdbuf = <<>> /\ Asks(c)
      /\ c.op = "read" => ReadSoFar(c)
      /\ c.op # "read" => c.got = <<>>
  BY <1>1 DEF AnswerOf, Waiting, Asking, Coming
<1>3. CASE target'.box = target.box /\ Ended(t, c, "A_ERROR")
  <2>1. Coming' = <<>>
    BY <1>1, <1>2, <1>3 DEF Coming
  <2> QED BY <1>3, <2>1, NoCallAnswer DEF Ended, RightOf
<1>4. CASE /\ target'.box = Append(target.box,
                IF c.op \in {"done", "info"} THEN CommandOf(c)
                ELSE pBMICmdBuf)
           /\ Goes(c) /\ Advance(t, c)
  <2>1. PICK m : m = CommandOf(c)
    OBVIOUS
  <2>2. target'.box = <<m>>
    <3>1. c.op \notin {"done", "info"} => pBMICmdBuf = CommandOf(c)
      BY <1>1 DEF BufferInv
    <3> QED BY <1>1, <1>4, <2>1, <3>1
  <2>3. Head(target'.box) = m /\ target'.box # <<>>
    BY <2>2
  <2>4. Reply(m)' = Reply(m)
    BY <1>1 DEF Kept, SameMemory, Reply
  <2>5. Reply(m) \in Seq(Int)
    BY <1>1, <2>1, CommandOfCall, ReplyIsBytes
  <2>6. Coming' = Reply(m)
    <3>1. Coming' = target'.rdbuf \o Reply(m)'
      BY <2>3 DEF Coming, Reply
    <3> QED BY <1>1, <1>2, <2>4, <2>5, <3>1, NothingBefore
  <2>7. /\ c.recv # <<>> => Fits(c, Reply(m))
        /\ c.recv = <<>> => Reply(m) = <<>>
    BY <1>1, <1>2, <2>1, ReplyFits
  <2>8. CASE /\ c.recv # <<>> /\ call'[t].at = "avail"
             /\ SamePiece(c, call'[t]) /\ call'[t].got = c.got
             /\ call'[t].recv = c.recv /\ result'[t] = result[t]
    <3>1. PICK d, s : d = call'[t] /\ s = Reply(m)
      OBVIOUS
    <3>2. Fits(d, s) /\ (c.op = "read" => ReadSoFar(d)) /\ d.op = c.op
      BY <1>2, <2>7, <2>8, <3>1, FitsSame, AsksSame DEF SamePiece
    <3>3. AnswerOf(t)'
      BY <1>1, <1>2, <2>6, <2>8, <3>1, <3>2 DEF AnswerOf, Waiting, Asking
    <3> QED BY <2>8, <3>3 DEF RightOf
  <2>9. c.recv = <<>> => c.op \notin {"read", "readsoc", "exec", "info"}
    BY <1>2 DEF Asks
  <2>10. CASE /\ c.recv = <<>> /\ call'[t].at = "fill"
              /\ call'[t].op = c.op /\ call'[t].got = c.got
              /\ result'[t] = result[t]
    <3>1. Coming' = <<>>
      BY <2>6, <2>7, <2>10
    <3>2. AnswerOf(t)'
      BY <1>2, <2>9, <2>10, <3>1 DEF AnswerOf, Waiting, Asking
    <3> QED BY <2>10, <3>2 DEF RightOf
  <2>11. CASE c.recv = <<>> /\ Ended(t, c, "A_OK")
    <3>1. Coming' = <<>>
      BY <2>6, <2>7, <2>11
    <3> QED BY <2>9, <2>11, <3>1, NoCallAnswer DEF Ended, RightOf
  <2> QED BY <1>4, <2>8, <2>10, <2>11, AdvanceFacts
<1> QED BY <1>3, <1>4, PutFacts

\* Every answer is the one that was asked for.
LEMMA AnswerKept ==
  ASSUME Types, Types', OneCredit, OneCaller, Words, Prompt, BufferInv,
         AnswerInv, ReadExact, AnswerMatches, [Next]_vars
  PROVE  AnswerInv' /\ ReadExact' /\ AnswerMatches'
<1>0. CallTypes /\ LoaderTypes /\ CallTypes'
  BY DEF Types
<1>a. \A t \in Tasks : AnswerOf(t) /\ RightOf(t)
  <2>1. \A t \in Tasks : AnswerOf(t)
    BY DEF AnswerInv, AnswerOf
  <2>2. \A t \in Tasks : RightOf(t)
    BY DEF ReadExact, AnswerMatches, RightOf
  <2> QED BY <2>1, <2>2
<1>b. ASSUME \A t \in Tasks : AnswerOf(t)' /\ RightOf(t)'
      PROVE  AnswerInv' /\ ReadExact' /\ AnswerMatches'
  <2>1. AnswerInv'
    BY <1>b DEF AnswerInv, AnswerOf
  <2>2. ReadExact' /\ AnswerMatches'
    BY <1>b DEF ReadExact, AnswerMatches, RightOf
  <2> QED BY <2>1, <2>2
<1>c. ASSUME NEW t \in Tasks, AnswerOf(t)', RightOf(t)'
      PROVE  \A u \in Tasks : AnswerOf(u)' /\ RightOf(u)'
  BY <1>c DEF OneCaller
<1>d. "slow" \notin Happens /\ "reply" \notin Happens
  BY DEF Prompt
<1>1. CASE BMIInit
  <2>1. ASSUME NEW t \in Tasks PROVE AnswerOf(t)' /\ RightOf(t)'
    <3>1. /\ call[t].at = "none" /\ call[t].op = "none" /\ call' = call
          /\ result'[t].op = "none"
      BY <1>0, <1>1 DEF BMIInit, Idle, NoResult, CallTypes, CallOk
    <3>2. target'.box = <<>> /\ target'.rdbuf = <<>>
      BY <1>1, LoaderFresh DEF BMIInit
    <3>3. Coming' = <<>> /\ call[t].got = <<>>
      BY <1>a, <3>1, <3>2 DEF Coming, AnswerOf, Waiting, Asking
    <3> QED BY <3>1, <3>3 DEF AnswerOf, RightOf, Waiting, Asking
  <2> QED BY <1>b, <2>1
<1>2. CASE LoaderRuns
  <2>1. /\ target.box # <<>> /\ target.box \in Seq(CommandRec)
        /\ target.credit \in Nat
        /\ target' = Loaded(Head(target.box))
        /\ call' = call /\ result' = result
    BY <1>0, <1>2, LoaderFields DEF LoaderRuns
  <2>2. /\ target'.box = Tail(target.box)
        /\ target'.rdbuf = target.rdbuf \o Reply(Head(target.box))
    BY Zenon, <1>0, <2>1, LoadedFields
  <2>3. Tail(target.box) = <<>>
    BY <2>1, OneInAll DEF OneCredit
  <2>4. target'.box = <<>> /\ Coming' = Coming
    BY <2>1, <2>2, <2>3 DEF Coming
  <2>5. ASSUME NEW t \in Tasks PROVE AnswerOf(t)' /\ RightOf(t)'
    BY <1>a, <2>1, <2>4 DEF AnswerOf, RightOf
  <2> QED BY <1>b, <2>5
<1>3. ASSUME NEW t \in Tasks, Call(t)
      PROVE  AnswerOf(t)' /\ RightOf(t)'
  <2>1. call[t].op = "none" /\ Kept(t) /\ SameBox
    BY <1>0, <1>3, CallFacts
  <2>2. Coming' = <<>>
    <3>1. call[t].at = "none"
      BY <1>0, <2>1 DEF CallTypes, CallOk
    <3>2. Coming = <<>>
      BY <1>a, <3>1 DEF AnswerOf, Waiting, Asking
    <3> QED BY <2>1, <3>2, ComingSame DEF Kept
  <2>3. CASE /\ call'[t] = NoCall
             /\ \/ result'[t].op = "done" \/ result'[t].status = "A_ERROR"
                \/ /\ result'[t].op \in {"read", "write"}
                   /\ result'[t].len = 0 /\ result'[t].got = <<>>
    <3>1. AnswerOf(t)'
      BY <2>2, <2>3, NoCallAnswer
    <3> QED BY <2>3, <3>1 DEF RightOf
  <2>4. CASE /\ result'[t] = result[t] /\ call'[t].at = "test"
             /\ call'[t].got = <<>>
             /\ \/ call'[t].op = "done" /\ call'[t].recv = <<>>
                \/ /\ call'[t].op = "info"
                   /\ call'[t].recv = <<4, 4, InfoSize - 4>>
    BY <1>a, <2>2, <2>4 DEF AnswerOf, RightOf, Waiting, Asking, Asks
  <2>5. CASE /\ result'[t] = result[t] /\ call'[t].at = "fill"
             /\ call'[t].addr = 0
             /\ call'[t].op \in {"read", "write"} => call'[t].left > 0
             /\ call'[t].left = call'[t].len /\ call'[t].got = <<>>
    <3>1. call'[t].op = "read" => call'[t].len \in ReadLengths
      BY <1>0 DEF CallTypes, CallOk
    <3>2. call'[t].op = "read" => ReadSoFar(call'[t])
      BY <2>5, <3>1 DEF ReadSoFar, Words
    <3> QED BY <1>a, <2>2, <2>5, <3>2 DEF AnswerOf, RightOf, Waiting, Asking
  <2> QED BY <1>0, <1>3, <2>3, <2>4, <2>5, CallFacts
<1>4. ASSUME NEW t \in Tasks, Fill(t)
      PROVE  AnswerOf(t)' /\ RightOf(t)'
  <2>1. /\ call[t].at = "fill" /\ call'[t].at = "test"
        /\ SamePiece(call[t], call'[t]) /\ call'[t].got = call[t].got
        /\ call'[t].recv =
              CASE call[t].op = "read" -> <<Rxlen(call[t])>>
                [] call[t].op \in {"exec", "readsoc"} -> <<4>>
                [] OTHER -> <<>>
        /\ result'[t] = result[t] /\ target' = target
    BY <1>0, <1>4, FillFacts
  <2>2. Coming' = <<>>
    <3>1. Coming = <<>>
      BY <1>a, <2>1 DEF AnswerOf, Waiting, Asking
    <3> QED BY <2>1, <3>1, LoaderSame, ComingSame
  <2>3. call[t].op # "info"
    BY <2>1 DEF BufferInv
  <2>4. call[t].op = "read" => Rxlen(call[t]) = 4
    <3>1. call[t] \in CallRec
      BY <1>0 DEF CallTypes
    <3> QED BY <1>a, <3>1, PieceBounds DEF AnswerOf, ReadSoFar
  <2>5. call'[t].op = call[t].op /\ Asks(call'[t])
    BY <2>1, <2>3, <2>4 DEF SamePiece, Asks
  <2>6. call[t].op = "read" => ReadSoFar(call'[t])
    BY <1>a, <2>1 DEF AnswerOf, ReadSoFar, SamePiece
  <2>7. call[t].op # "read" => call'[t].got = <<>>
    BY <1>a, <2>1 DEF AnswerOf, Waiting, Asking
  <2> QED BY <1>a, <2>1, <2>2, <2>5, <2>6, <2>7 DEF AnswerOf, RightOf, Waiting, Asking
<1>5. ASSUME NEW t \in Tasks, Test(t) \/ Credit(t) \/ Send(t)
      PROVE  AnswerOf(t)' /\ RightOf(t)'
  <2>1. Asking(call[t]) /\ Kept(t) /\ SameBox
    BY <1>0, <1>5, AskFacts
  <2>2. Coming' = <<>>
    <3>1. Coming = <<>>
      BY <1>a, <2>1 DEF AnswerOf, Waiting, Asking
    <3> QED BY <2>1, <3>1, ComingSame DEF Kept
  <2>3. CASE Ended(t, call[t], "A_ERROR")
    BY <2>2, <2>3, NoCallAnswer DEF Ended, RightOf
  <2>4. CASE /\ Asking(call'[t]) \/ call'[t].at = "put"
             /\ SamePiece(call[t], call'[t])
             /\ call'[t].got = call[t].got /\ call'[t].recv = call[t].recv
             /\ result'[t] = result[t]
    <3>1. PICK c, d : c = call[t] /\ d = call'[t]
      OBVIOUS
    <3>2. /\ Asks(d) /\ (d.op = "read" => ReadSoFar(d))
          /\ d.op # "read" => d.got = <<>>
      BY <1>a, <2>1, <2>4, <3>1, AsksSame DEF AnswerOf, Waiting, Asking, SamePiece
    <3> QED BY <1>a, <2>2, <2>4, <3>1, <3>2 DEF AnswerOf, RightOf, Waiting, Asking
  <2> QED BY <1>0, <1>5, <2>3, <2>4, AskFacts
<1>6. ASSUME NEW t \in Tasks, Avail(t)
      PROVE  AnswerOf(t)' /\ RightOf(t)'
  <2>1. /\ call[t].at = "avail" /\ target' = target
        /\ Head(call[t].recv) < 4 \/ Len(target.rdbuf) >= 4
        /\ call'[t].at = "get" /\ SamePiece(call[t], call'[t])
        /\ call'[t].got = call[t].got /\ call'[t].recv = call[t].recv
        /\ result'[t] = result[t]
    BY <1>0, <1>6, <1>d, AvailFacts
  <2>2. Coming' = Coming /\ Fits(call[t], Coming)
    BY <1>a, <2>1, LoaderSame, ComingSame DEF AnswerOf, Waiting, Asking
  <2>3. PICK c, d, s : c = call[t] /\ d = call'[t] /\ s = Coming
    OBVIOUS
  <2>4. /\ Fits(d, s) /\ d.op = c.op
        /\ d.op = "read" => ReadSoFar(d)
    BY <1>a, <2>1, <2>2, <2>3, FitsSame, AsksSame DEF AnswerOf, SamePiece
  <2>5. target.box = <<>>
    <3>1. Head(call[t].recv) >= 4 /\ Head(call[t].recv) \in Nat
      <4>1. Head(call[t].recv) \in Nat
        BY <1>0, <2>1 DEF CallTypes, CallOk, CallRec
      <4> QED BY <2>2, <4>1, FirstWord
    <3>2. target.rdbuf # <<>>
      BY <2>1, <3>1
    <3> QED BY <1>a, <2>1, <3>2 DEF AnswerOf, Waiting, Asking
  <2> QED BY <1>a, <2>1, <2>2, <2>3, <2>4, <2>5
          DEF AnswerOf, RightOf, Waiting, Asking
<1>7. ASSUME NEW t \in Tasks, Put(t) \/ Get(t)
      PROVE  AnswerOf(t)' /\ RightOf(t)'
  BY <1>0, <1>7, <1>a, <1>d, PutKept, GetKept
<1>8. CASE UNCHANGED vars
  BY <1>8 DEF vars, AnswerInv, AnswerOf, ReadExact, AnswerMatches, Coming,
              Reply, Prompt, Happens
<1>9. ASSUME NEW t \in Tasks, Call(t) \/ TaskStep(t)
      PROVE  AnswerInv' /\ ReadExact' /\ AnswerMatches'
  <2>1. AnswerOf(t)' /\ RightOf(t)'
    BY <1>3, <1>4, <1>5, <1>6, <1>7, <1>9 DEF TaskStep
  <2> QED BY <1>b, <1>c, <2>1
<1> QED BY <1>1, <1>2, <1>8, <1>9 DEF Next

-----------------------------------------------------------------------------
(***************************************************************************)
(* The theorems.                                                           *)
(***************************************************************************)
LEMMA InitInv == Init => IInv
<1> SUFFICES ASSUME Init PROVE IInv
  OBVIOUS
<1>1. PICK h \in Settings : target = Loader(0, h)
  BY DEF Init
<1>2. /\ target.credit = 1 /\ target.box = <<>> /\ target.rdbuf = <<>>
      /\ target.done = FALSE /\ target.boots = 0 /\ target.happens = h
  BY <1>1 DEF Loader
<1>3. \A t \in Tasks : call[t] = NoCall /\ result[t] = NoResult
  BY DEF Init
<1>4. /\ NoCall.at = "none" /\ NoCall.op = "none" /\ NoCall.got = <<>>
      /\ NoResult.op = "none"
  BY DEF NoCall, NoResult
<1>5. Types
  <2>1. LoaderTypes
    <3>1. \A a \in Addresses : a \in Nat /\ Before(a) \in Int
      BY LongestIsLongest DEF Before
    <3>2. 0 \in 0 .. MaxBoots
      BY BmiAssumption
    <3> QED BY <1>1, <3>1, <3>2 DEF Loader, LoaderTypes, LoaderRec
  <2>2. CallTypes
    <3>1. NoCall \in CallRec /\ CallOk(NoCall) /\ NoResult \in ResultRec
      BY NoCallIsOk DEF CallOk
    <3> QED BY <3>1 DEF Init, CallTypes
  <2> QED BY <2>1, <2>2, NoBufferIsOk DEF Init, Types
<1>6. CreditInv
  BY <1>2, <1>3, <1>4 DEF CreditInv, OneCredit, Holds, Asking, Idle
<1>7. BufferInv /\ DoneInv
  BY <1>2, <1>3, <1>4 DEF BufferInv, DoneInv, DoneOf, Asking
<1>8. WrittenInv
  BY <1>3, <1>4 DEF WrittenInv, WrittenOf
<1>12. PastInv
  <2>1. \A t \in Tasks : call[t].op # "write"
    BY <1>3, <1>4
  <2>2. target.mem = [a \in Addresses |-> Before(a)] /\ target.box = <<>>
    BY <1>1 DEF Loader
  <2> QED BY <2>1, <2>2 DEF PastInv
<1>9. Coming = <<>>
  BY <1>2 DEF Coming
<1>10. AnswerInv
  BY <1>3, <1>4, <1>9 DEF AnswerInv, AnswerOf, Waiting, Asking
<1>11. ReadExact /\ AnswerMatches
  BY <1>3, <1>4 DEF ReadExact, AnswerMatches
<1> QED BY <1>5, <1>6, <1>7, <1>8, <1>10, <1>11, <1>12 DEF IInv

\* Every step keeps the invariant.
LEMMA NextInv == IInv /\ [Next]_vars => IInv'
<1> SUFFICES ASSUME IInv, [Next]_vars PROVE IInv'
  OBVIOUS
<1>1. Types /\ CreditInv /\ (OneCaller => OneCredit)
  BY DEF IInv, CreditInv, OneCaller
<1>2. /\ OneCaller' => OneCaller
      /\ Prompt' => Prompt
      /\ Serial' => Serial
  <2>1. target'.happens = target.happens
    BY <1>1, HappensKept
  <2> QED BY <2>1 DEF OneCaller, Prompt, Happens, Serial
<1>3. Types' /\ CreditInv'
  BY <1>1, <1>2, TypesKept, CreditKept DEF CreditInv
<1>4. OneCaller => BufferInv' /\ DoneInv' /\ WrittenInv' /\ PastInv'
  BY <1>1, BufferKept, DoneKept, WrittenKept, PastKept DEF IInv
<1>5. OneCaller /\ Words /\ Prompt =>
        AnswerInv' /\ ReadExact' /\ AnswerMatches'
  BY <1>1, <1>3, AnswerKept DEF IInv
<1> QED BY <1>2, <1>3, <1>4, <1>5 DEF IInv

\* The inductive invariant.
THEOREM InvariantHolds == Spec => []IInv
BY InitInv, NextInv, PTL DEF Spec

(***************************************************************************)
(* However many tasks use BMI, if their calls follow one another, and      *)
(* whatever fails: a command is written only with the loader's credit, so  *)
(* it never finds the loader at another, although the byte the credit is   *)
(* read into keeps the value of the last command (bmiBufferSend).          *)
(***************************************************************************)
THEOREM FlowIsControlled == Spec => []FlowControl
<1>1. IInv => FlowControl
  BY DEF IInv, CreditInv, OneCredit, FlowControl
<1> QED BY <1>1, InvariantHolds, PTL

\* The reading of the invariant in the terms of the model.
LEMMA ProtocolFollows ==
  ASSUME IInv, OneCaller, Words
  PROVE  ProtocolKept
<1>1. FlowControl
  BY DEF IInv, CreditInv, OneCredit, FlowControl
<1>2. DoneIsLast
  <2>1. target.done => target.box = <<>>
    BY DEF IInv, CreditInv, OneCredit, OneCaller
  <2>2. target.box \in Seq(CommandRec)
    BY LoaderFields DEF IInv, Types
  <2>3. target.box # <<>> /\ Head(target.box).id = "done" =>
          \E i \in 1 .. Len(target.box) : target.box[i].id = "done"
    <3>1. target.box # <<>> => 1 \in 1 .. Len(target.box)
                               /\ Head(target.box) = target.box[1]
      BY <2>2
    <3> QED BY <3>1
  <2> QED BY <2>1, <2>3 DEF IInv, DoneInv, DoneOf, DoneIsLast
<1>3. AnswerMatches
  <2>1. CASE Prompt
    BY <2>1 DEF IInv
  <2>2. CASE ~Prompt
    BY <2>2 DEF AnswerMatches
  <2> QED BY <2>1, <2>2
<1> QED BY <1>1, <1>2, <1>3 DEF ProtocolKept

\* The same for the target's memory.
LEMMA MemoryFollows ==
  ASSUME IInv, OneCaller, Words
  PROVE  MemoryExact
<1>0. Types /\ CallTypes /\ LoaderTypes
  BY DEF IInv, Types
<1>1. TypeOK
  <2>1. bmiDone \in BOOLEAN
    BY <1>0 DEF Types
  <2>2. pBMICmdBuf.id \in AllOps \cup {"NULL", "zero"}
    BY <1>0 DEF Types, CommandOk, CommandRec
  <2>3. target.credit \in Nat /\ target.boots \in 0 .. MaxBoots
    BY <1>0, LoaderFields
  <2>4. ASSUME NEW t \in Tasks
        PROVE  /\ call[t].op \in AllOps /\ result[t].op \in AllOps
               /\ result[t].status \in Statuses
               /\ call[t].at \in {"none", "fill", "test", "credit", "send",
                                 "put", "avail", "get"}
               /\ (call[t].at = "none") <=> (call[t].op = "none")
    <3>1. CallOk(call[t]) /\ call[t] \in CallRec /\ result[t] \in ResultRec
      BY <1>0 DEF CallTypes
    <3>2. call[t].op \in AllOps /\ call[t].at \in Places
      BY <3>1 DEF CallRec
    <3>3. result[t].op \in AllOps /\ result[t].status \in Statuses
      BY <3>1 DEF ResultRec
    <3>4. (call[t].at = "none") <=> (call[t].op = "none")
      BY <3>1 DEF CallOk
    <3> QED BY <3>2, <3>3, <3>4 DEF Places
  <2> QED BY Zenon, <2>1, <2>2, <2>3, <2>4 DEF TypeOK
<1>2. WriteExact
  <2>1. ASSUME NEW t \in Tasks, Quiet, result[t].op = "write",
               result[t].status = "A_OK"
        PROVE  \A a \in 0 .. result[t].len - 1 : target.mem[a] = Given(a)
    <3>1. call[t].op = "none" /\ target.box = <<>>
      BY <2>1 DEF Quiet, Idle
    <3>2. Landed(result[t].len)
      BY <2>1, <3>1 DEF IInv, WrittenInv, WrittenOf
    <3> QED BY <3>1, <3>2 DEF Landed, Boxed
  <2>2. \A a \in Addresses : a >= target.asked => target.mem[a] = Before(a)
    BY DEF IInv, PastInv
  <2> QED BY <2>1, <2>2 DEF WriteExact
<1>3. ReadExact
  <2>1. CASE Prompt
    BY <2>1 DEF IInv
  <2>2. CASE ~Prompt
    BY <2>2 DEF ReadExact
  <2> QED BY <2>1, <2>2
<1> QED BY <1>1, <1>2, <1>3 DEF MemoryExact

(***************************************************************************)
(* While one task uses BMI, for transfers of any length cut into pieces of *)
(* any size, with time outs and bus errors: a write reported done is in    *)
(* the target's memory byte for byte, no write changes anything after the  *)
(* word its last byte is in, and a read gives what was there if no answer  *)
(* was given up (BMIWriteMemory, BMIReadMemory).                           *)
(* Reads are of whole words: bmiBufferReceive does not wait for less.      *)
(***************************************************************************)
THEOREM MemoryIsExact == Spec => [](OneCaller /\ Words => MemoryExact)
<1>1. IInv => (OneCaller /\ Words => MemoryExact)
  BY MemoryFollows
<1> QED BY <1>1, InvariantHolds, PTL

(***************************************************************************)
(* Under the same conditions a command is only written with a credit, none *)
(* follows BMI_DONE, BMIDone reports A_OK only when its command was sent,  *)
(* and every answer read is the one to the command just sent.              *)
(***************************************************************************)
THEOREM ProtocolIsKept == Spec => [](OneCaller /\ Words => ProtocolKept)
<1>1. IInv => (OneCaller /\ Words => ProtocolKept)
  BY ProtocolFollows
<1> QED BY <1>1, InvariantHolds, PTL
=============================================================================
