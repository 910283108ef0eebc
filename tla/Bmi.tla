-------------------------------- MODULE Bmi --------------------------------
(***************************************************************************)
(* The boot loader messages (common_src/bmi/bmi.c) and the target's boot   *)
(* loader at the other end of mailbox 0.                                   *)
(*                                                                         *)
(* A call of a BMI function is a record: it fills the one command buffer   *)
(* ("fill"), waits for the target's command credit by looking at the       *)
(* shared *pBMICmdCredits ("test") and reading the counter that gives the  *)
(* credit away into it ("credit"), looks at it once more ("send"), writes  *)
(* the command ("put"), waits for the answer's bytes ("avail") and reads   *)
(* them ("get"); one step is one access of the bus or one look at the      *)
(* shared credit, so the target, and other tasks, act in between.  The     *)
(* driver's own calls come one after another, from Driver_Init and from    *)
(* the flash requests of ath_ioctl_handler_ext; nothing in bmi.c keeps two *)
(* tasks apart ("together").                                               *)
(* The boot of the target is Driver_Init's power up; its loader gives one  *)
(* credit when it starts and one when a command is done.                   *)
(* Memory is a function from addresses to bytes, a register is a word.     *)
(***************************************************************************)
EXTENDS Integers, Sequences, FiniteSets

CONSTANTS
  Tasks,        \* tasks that call BMI functions
  Ops,          \* functions they call
  ReadLengths,  \* lengths of what they read
  WriteLengths, \* and write
  Chunk,        \* BMI_DATASZ_MAX - header
  Polls,        \* BMI_COMMUNICATION_TIMEOUT
  MaxCalls,     \* bound: calls of a session
  MaxBoots,     \* bound: boots of the target
  Settings      \* what may happen, a set of sets: "slow": the loader may
                \* miss a time out, "bus": the bus may fail before a command
                \* is sent, "reply": when its answer is read, "closed": a
                \* task calls after BMIDone, "together": a task calls while
                \* another one's call runs

ASSUME BmiAssumption ==
          /\ Chunk \in Nat \ {0} /\ Chunk % 4 = 0 /\ Polls \in Nat \ {0}
          /\ ReadLengths \cup WriteLengths \subseteq Nat
          /\ \E n \in ReadLengths \cup WriteLengths \cup {0} :
               \A k \in ReadLengths \cup WriteLengths : k <= n
          /\ MaxCalls \in Nat /\ MaxBoots \in Nat

VARIABLES
  bmiDone,
  pBMICmdBuf,      \* the command buffer, NoBuffer when there is none
  pBMICmdCredits,  \* the byte that the credit is read into
  target,          \* the loader, the setting it is in, and where the longest
                   \* write asked for ends, in words
  call,            \* of each task
  result           \* what each task's last call returned
vars == <<bmiDone, pBMICmdBuf, pBMICmdCredits, target, call, result>>

Lengths == ReadLengths \cup WriteLengths \cup {0}
Longest == CHOOSE n \in Lengths : \A k \in Lengths : k <= n
Addresses == 0 .. Longest + 3
Word(v) == <<v, v, v, v>>
Sentinel == 255          \* TARGET_VERSION_SENTINAL
InfoSize == 12           \* sizeof(struct bmi_target_info)
Version == 7
Garbage == 254           \* a byte read from an empty mailbox
Before(a) == 100 + a     \* what an address holds when the target boots
Given(i) == i            \* byte i of the caller's buffer, or past its end

Command == [id |-> "none", addr |-> 0, data |-> <<>>, len |-> 0]
NoBuffer == [Command EXCEPT !.id = "NULL"]
Empty == [Command EXCEPT !.id = "zero"]

NoCall == [op |-> "none", at |-> "none", len |-> 0, addr |-> 0, left |-> 0,
           polls |-> 0, recv |-> <<>>, got |-> <<>>]
NoResult == [op |-> "none", status |-> "A_OK", len |-> 0, got |-> <<>>]

\* What may happen to this target.
Happens == target.happens
Serial == "together" \notin Happens

\* A number of bytes made a multiple of a word.
Padded(n) == ((n + 3) \div 4) * 4

Loader(n, h) == [credit |-> 1, box |-> <<>>, rdbuf |-> <<>>, soc |-> 0,
              mem |-> [a \in Addresses |-> Before(a)], done |-> FALSE,
              boots |-> n, calls |-> 0, happens |-> h, asked |-> 0]

Init == /\ bmiDone = TRUE
        /\ pBMICmdBuf = NoBuffer /\ pBMICmdCredits = 0
        /\ \E h \in Settings : target = Loader(0, h)
        /\ call = [t \in Tasks |-> NoCall]
        /\ result = [t \in Tasks |-> NoResult]

Idle(t) == call[t].op = "none"
Open == pBMICmdBuf # NoBuffer

-----------------------------------------------------------------------------
\* The end of a call: its status and what it gives back.
Return(t, c, status) ==
  /\ call' = [call EXCEPT ![t] = NoCall]
  /\ result' = [result EXCEPT ![t] = [op |-> c.op, status |-> status,
                                      len |-> c.len, got |-> c.got]]

\* Driver_Init powers the target up and opens BMI.
BMIInit ==
  /\ \A t \in Tasks : Idle(t)
  /\ target.boots < MaxBoots
  /\ target' = Loader(target.boots + 1, Happens)
  /\ bmiDone' = FALSE
  /\ pBMICmdBuf' = IF Open THEN pBMICmdBuf ELSE Empty
  /\ result' = [t \in Tasks |-> NoResult]
  /\ UNCHANGED <<pBMICmdCredits, call>>

\* BMIDone marks BMI closed before it sends its command.
BMIDone(t) ==
  LET c == [NoCall EXCEPT !.op = "done", !.at = "test", !.polls = Polls]
  IN IF bmiDone
     THEN Return(t, c, "A_OK") /\ UNCHANGED <<bmiDone, pBMICmdCredits>>
     ELSE /\ bmiDone' = TRUE
          /\ pBMICmdCredits' = 0
          /\ call' = [call EXCEPT ![t] = c]
          /\ UNCHANGED result

\* BMIGetTargetInfo: a word, a second one, and the rest of the structure.
BMIGetTargetInfo(t) ==
  LET c == [NoCall EXCEPT !.op = "info", !.at = "test", !.polls = Polls,
                          !.recv = <<4, 4, InfoSize - 4>>]
  IN /\ IF bmiDone
        THEN Return(t, c, "A_ERROR") /\ UNCHANGED pBMICmdCredits
        ELSE /\ call' = [call EXCEPT ![t] = c]
             /\ pBMICmdCredits' = 0
             /\ UNCHANGED result
     /\ UNCHANGED bmiDone

\* The functions that use the command buffer clear it before they look at
\* bmiDone.
Buffered(t, op, n) ==
  LET c == [NoCall EXCEPT !.op = op, !.at = "fill", !.len = n, !.left = n]
  IN /\ IF bmiDone THEN Return(t, c, "A_ERROR")
        ELSE IF op \in {"read", "write"} /\ n = 0 THEN Return(t, c, "A_OK")
        ELSE call' = [call EXCEPT ![t] = c] /\ UNCHANGED result
     /\ UNCHANGED <<bmiDone, pBMICmdCredits>>

BMIReadMemory(t, n) == "read" \in Ops /\ Buffered(t, "read", n)
BMIWriteMemory(t, n) == "write" \in Ops /\ Buffered(t, "write", n)
BMIExecute(t) == "exec" \in Ops /\ Buffered(t, "exec", 4)
BMIReadSOCRegister(t) == "readsoc" \in Ops /\ Buffered(t, "readsoc", 4)
BMIWriteSOCRegister(t) == "writesoc" \in Ops /\ Buffered(t, "writesoc", 4)

\* A call is counted, and the end of a write of n bytes noted.
Called(n) == [target EXCEPT !.calls = @ + 1,
                            !.asked = IF Padded(n) > @ THEN Padded(n) ELSE @]

\* BMIDone frees what the other functions use: no other call runs then.
Call(t) ==
  /\ Idle(t)
  /\ target.boots > 0 /\ target.calls < MaxCalls
  /\ "closed" \in Happens \/ (Open /\ \A u \in Tasks : result[u].op # "done")
  /\ Serial => \A u \in Tasks : Idle(u)
  /\ \/ /\ \/ "done" \in Ops /\ BMIDone(t) /\ \A u \in Tasks : Idle(u)
           \/ "info" \in Ops /\ BMIGetTargetInfo(t)
        /\ target' = Called(0) /\ UNCHANGED pBMICmdBuf
     \/ /\ \/ \E n \in ReadLengths : BMIReadMemory(t, n)
           \/ BMIExecute(t) \/ BMIReadSOCRegister(t) \/ BMIWriteSOCRegister(t)
        /\ target' = Called(0) /\ pBMICmdBuf' = Empty
     \/ \E n \in WriteLengths :
          BMIWriteMemory(t, n) /\ target' = Called(n) /\ pBMICmdBuf' = Empty

-----------------------------------------------------------------------------
MUT_Txlen(c) == IF c.left < Chunk THEN Padded(c.left + 1) ELSE Chunk

\* The bytes of the next piece: what is left, made a multiple of a word, or
\* a whole chunk.
Txlen(c) == IF c.left < Chunk THEN Padded(c.left) ELSE Chunk
Rxlen(c) == IF c.left < 4 THEN c.left ELSE 4

\* The command for the next piece of a call.
CommandOf(c) ==
  CASE c.op = "write" ->
         [id |-> "write", addr |-> c.addr, len |-> Txlen(c),
          data |-> [i \in 1 .. Txlen(c) |-> Given(c.len - c.left + i - 1)]]
    [] c.op = "read" -> [id |-> "read", addr |-> c.addr, len |-> Rxlen(c),
                         data |-> <<>>]
    [] c.op \in {"exec", "writesoc"} ->
         [id |-> c.op, addr |-> 0, len |-> 4, data |-> Word(9)]
    [] OTHER -> [Command EXCEPT !.id = c.op]

\* Mutant: the credit byte keeps what the command before left in it.
MUT_Fill(t) ==
  LET c == call[t]
  IN /\ c.at = "fill"
     /\ pBMICmdBuf' = CommandOf(c)
     /\ call' = [call EXCEPT
           ![t].at = "test", ![t].polls = Polls,
           ![t].recv = CASE c.op = "read" -> <<Rxlen(c)>>
                         [] c.op \in {"exec", "readsoc"} -> <<4>>
                         [] OTHER -> <<>>]
     /\ UNCHANGED <<bmiDone, pBMICmdCredits, target, result>>

\* The buffer is filled and the shared credit cleared for the command.
Fill(t) ==
  LET c == call[t]
  IN /\ c.at = "fill"
     /\ pBMICmdBuf' = CommandOf(c)
     /\ pBMICmdCredits' = 0
     /\ call' = [call EXCEPT
           ![t].at = "test", ![t].polls = Polls,
           ![t].recv = CASE c.op = "read" -> <<Rxlen(c)>>
                         [] c.op \in {"exec", "readsoc"} -> <<4>>
                         [] OTHER -> <<>>]
     /\ UNCHANGED <<bmiDone, target, result>>

\* Mutant: the polls are not counted.
MUT_TestForever(t) ==
  /\ call[t].at = "test"
  /\ call' = [call EXCEPT ![t].at = IF pBMICmdCredits = 0 THEN "credit"
                                   ELSE "send"]
  /\ UNCHANGED <<bmiDone, pBMICmdBuf, pBMICmdCredits, target, result>>

\* The loop of bmiBufferSend looks at the shared credit before each read.
Test(t) ==
  LET c == call[t]
      more == c.polls > 0 /\ pBMICmdCredits = 0
  IN /\ c.at = "test"
     /\ call' = [call EXCEPT
           ![t].at = IF more THEN "credit" ELSE "send",
           ![t].polls = IF more THEN @ - 1 ELSE @]
     /\ UNCHANGED <<bmiDone, pBMICmdBuf, pBMICmdCredits, target, result>>

\* A read of the counter takes the credit, if there is one; a read that
\* fails ends the loop.
Credit(t) ==
  /\ call[t].at = "credit"
  /\ \/ /\ target.credit > 0 \/ "slow" \in Happens
        /\ pBMICmdCredits' = target.credit
        /\ target' = [target EXCEPT !.credit = IF @ > 0 THEN @ - 1 ELSE 0]
        /\ call' = [call EXCEPT ![t].at = "test"]
     \/ /\ "bus" \in Happens
        /\ call' = [call EXCEPT ![t].at = "send"]
        /\ UNCHANGED <<pBMICmdCredits, target>>
  /\ UNCHANGED <<bmiDone, pBMICmdBuf, result>>

\* The command is sent if the shared credit is now there.
Send(t) ==
  /\ call[t].at = "send"
  /\ \/ /\ pBMICmdCredits # 0
        /\ call' = [call EXCEPT ![t].at = "put"]
        /\ UNCHANGED result
     \/ /\ pBMICmdCredits = 0
        /\ Return(t, call[t], "A_ERROR")
  /\ UNCHANGED <<bmiDone, pBMICmdBuf, pBMICmdCredits, target>>

\* What follows a command that was sent, or an answer that was read.
Advance(t, c) ==
  LET moved == IF c.op = "write" THEN Txlen(c) ELSE Rxlen(c)
      left == IF moved > c.left THEN 0 ELSE c.left - moved
  IN IF c.recv # <<>>
     THEN /\ call' = [call EXCEPT ![t] = [c EXCEPT !.at = "avail",
                                                  !.polls = Polls]]
          /\ UNCHANGED <<result, pBMICmdBuf>>
     ELSE IF c.op \in {"read", "write"} /\ left > 0
     THEN /\ call' = [call EXCEPT ![t] = [c EXCEPT !.at = "fill",
                         !.left = left, !.addr = @ + moved]]
          /\ UNCHANGED <<result, pBMICmdBuf>>
     ELSE /\ Return(t, c, "A_OK")
          /\ pBMICmdBuf' = IF c.op = "done" THEN NoBuffer ELSE pBMICmdBuf

\* The write of the command: BMIDone and BMIGetTargetInfo send a word of
\* their own, the others what the command buffer now holds.
Put(t) ==
  LET c == call[t]
  IN /\ c.at = "put"
     /\ \/ /\ target' = [target EXCEPT !.box = Append(@,
                IF c.op \in {"done", "info"} THEN CommandOf(c)
                ELSE pBMICmdBuf)]
           /\ Advance(t, c)
        \/ /\ "bus" \in Happens
           /\ Return(t, c, "A_ERROR")
           /\ UNCHANGED <<target, pBMICmdBuf>>
     /\ UNCHANGED <<bmiDone, pBMICmdCredits>>

\* bmiBufferReceive looks for a word, unless less than a word is asked for;
\* only BMIExecute waits without a limit.
Avail(t) ==
  LET c == call[t]
  IN /\ c.at = "avail"
     /\ \/ /\ Head(c.recv) < 4 \/ Len(target.rdbuf) >= 4
           /\ call' = [call EXCEPT ![t].at = "get"]
           /\ UNCHANGED result
        \/ /\ Head(c.recv) >= 4 /\ Len(target.rdbuf) < 4
           /\ "slow" \in Happens /\ c.op # "exec"
           /\ IF c.polls > 1
              THEN call' = [call EXCEPT ![t].polls = @ - 1]
                   /\ UNCHANGED result
              ELSE Return(t, c, "A_ERROR")
        \/ /\ "reply" \in Happens
           /\ Return(t, c, "A_ERROR")
     /\ UNCHANGED <<bmiDone, pBMICmdBuf, pBMICmdCredits, target>>

Get(t) ==
  LET c == call[t]
      n == Head(c.recv)
      have == Len(target.rdbuf)
      read == [i \in 1 .. n |-> IF i <= have THEN target.rdbuf[i]
                                ELSE Garbage]
      now == [c EXCEPT !.recv = Tail(@), !.got = @ \o read]
  IN /\ c.at = "get"
     /\ \/ /\ target' = [target EXCEPT !.rdbuf = SubSeq(@, n + 1, have)]
           /\ IF c.op = "info" /\ c.got = <<>> /\ read # Word(Sentinel)
              THEN Return(t, now, "A_ERROR") /\ UNCHANGED pBMICmdBuf
              ELSE IF c.op = "info" /\ Len(c.got) = 4
                      /\ read # Word(InfoSize)
              THEN Return(t, now, "A_ASSERT") /\ UNCHANGED pBMICmdBuf
              ELSE Advance(t, now)
        \/ /\ "reply" \in Happens
           /\ Return(t, c, "A_ERROR")
           /\ UNCHANGED <<target, pBMICmdBuf>>
     /\ UNCHANGED <<bmiDone, pBMICmdCredits>>

-----------------------------------------------------------------------------
\* The loader's answer to a command.
Info == Word(Sentinel) \o Word(InfoSize) \o Word(Version) \o Word(6)
Reply(cmd) ==
  CASE cmd.id = "read" ->
         [i \in 1 .. cmd.len |-> target.mem[cmd.addr + i - 1]]
    [] cmd.id = "exec" -> Word(8)
    [] cmd.id = "readsoc" -> Word(target.soc)
    [] cmd.id = "info" -> Info
    [] OTHER -> <<>>

\* The loader carries out a command, answers and gives the next credit.
Loaded(cmd) ==
  [target EXCEPT
    !.box = Tail(@),
    !.rdbuf = @ \o Reply(cmd),
    !.soc = IF cmd.id = "writesoc" THEN cmd.data[1] ELSE @,
    !.mem = IF cmd.id # "write" THEN @
            ELSE [a \in Addresses |->
                    IF a \in cmd.addr .. cmd.addr + cmd.len - 1
                    THEN cmd.data[a - cmd.addr + 1] ELSE @[a]],
    !.done = @ \/ cmd.id = "done",
    !.credit = IF cmd.id = "done" THEN @ ELSE @ + 1]

LoaderRuns ==
  /\ target.box # <<>> /\ ~target.done
  /\ target' = Loaded(Head(target.box))
  /\ UNCHANGED <<bmiDone, pBMICmdBuf, pBMICmdCredits, call, result>>

TaskStep(t) == \/ Fill(t) \/ Test(t) \/ Credit(t) \/ Send(t) \/ Put(t)
               \/ Avail(t) \/ Get(t)

Next == \/ BMIInit \/ LoaderRuns
        \/ \E t \in Tasks : Call(t) \/ TaskStep(t)

Spec == Init /\ [][Next]_vars
FairSpec == Spec /\ \A t \in Tasks : WF_vars(TaskStep(t))

-----------------------------------------------------------------------------
Statuses == {"A_OK", "A_ERROR", "A_ASSERT"}
AllOps == {"none", "done", "info", "read", "write", "exec", "readsoc",
           "writesoc"}

(* The calls, the buffer and the loader have their types: a task uses the  *)
(* bus only within a call.                                                 *)
TypeOK ==
  /\ bmiDone \in BOOLEAN
  /\ pBMICmdBuf.id \in AllOps \cup {"NULL", "zero"}
  /\ target.credit \in Nat /\ target.boots \in 0 .. MaxBoots
  /\ \A t \in Tasks :
       /\ call[t].op \in AllOps /\ result[t].op \in AllOps
       /\ result[t].status \in Statuses
       /\ call[t].at \in {"none", "fill", "test", "credit", "send", "put",
                         "avail", "get"}
       /\ (call[t].at = "none") <=> (call[t].op = "none")

(* bmi_msg.h: "The Host can only issue a command once the Target gives it  *)
(* a BMI Command Credit": a command never finds the loader at another one, *)
(* if calls follow one another.                                            *)
FlowControl == Serial => Len(target.box) + target.credit <= 1

(* bmi_msg.h: once the host has issued BMI_DONE the opportunity to use BMI *)
(* ends: no command follows it, and a BMIDone that returned A_OK was sent. *)
DoneIsLast ==
  /\ target.done => target.box = <<>>
  /\ \A t \in Tasks :
       (result[t].op = "done" /\ result[t].status = "A_OK")
         => target.done \/ \E i \in 1 .. Len(target.box) :
                              target.box[i].id = "done"

Quiet == target.box = <<>> /\ \A t \in Tasks : Idle(t)

(* After a BMIWriteMemory that returned A_OK the target's memory holds the *)
(* caller's bytes, in the order of the pieces they were cut into.  Its     *)
(* last piece is made a multiple of a word, so up to three bytes after     *)
(* them may be overwritten; no byte after those is changed.                *)
WriteExact ==
  /\ \A t \in Tasks :
       (/\ Serial /\ Quiet
        /\ result[t].op = "write" /\ result[t].status = "A_OK")
         => \A a \in 0 .. result[t].len - 1 : target.mem[a] = Given(a)
  /\ Serial => \A a \in Addresses :
       a >= target.asked => target.mem[a] = Before(a)

(* bmi_msg.h, "Host reads AR6K memory": a BMIReadMemory that returned A_OK *)
(* gives the bytes at the address asked for, if no answer was ever given   *)
(* up and calls follow one another.                                        *)
Prompt == Happens \cap {"slow", "reply", "together"} = {}
ReadExact ==
  \A t \in Tasks :
    (Prompt /\ result[t].op = "read" /\ result[t].status = "A_OK")
      => /\ Len(result[t].got) = result[t].len
         /\ \A i \in 1 .. result[t].len :
              result[t].got[i] \in {Before(i - 1), Given(i - 1)}

(* bmi_msg.h, "Read a 32-bit Target SOC register" and "Fetch the 4-byte    *)
(* Target information": an answer is the one to the command just sent, if  *)
(* none was given up before.                                               *)
AnswerMatches ==
  \A t \in Tasks :
    Prompt /\ result[t].status = "A_OK" =>
      /\ result[t].op = "readsoc" => result[t].got \in {Word(0), Word(9)}
      /\ result[t].op = "exec" => result[t].got = Word(8)
      /\ result[t].op = "info" => result[t].got = Info

(* Every call but BMIExecute ends although the loader may never answer:    *)
(* the polls of bmiBufferSend and bmiBufferReceive are counted.            *)
CallsEnd ==
  \A t \in Tasks :
    ("slow" \in Happens /\ ~Idle(t) /\ call[t].op # "exec") ~> Idle(t)

(***************************************************************************)
(* A read of the target's memory that is reported done gave the bytes      *)
(* asked for; a write put the bytes asked for in their place, and changed  *)
(* nothing after the word that the last of them is in, if calls follow one *)
(* another.                                                                *)
(***************************************************************************)
MemoryExact == TypeOK /\ WriteExact /\ ReadExact

(***************************************************************************)
(* The boot protocol is kept: a command only with a credit, none after     *)
(* BMI_DONE, and the answer read is that to the command just sent.         *)
(***************************************************************************)
ProtocolKept == FlowControl /\ DoneIsLast /\ AnswerMatches
=============================================================================
