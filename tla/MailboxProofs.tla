--------------------------- MODULE MailboxProofs ---------------------------
(***************************************************************************)
(* Proofs about Mailbox for any set of senders, any number of commands and *)
(* any socket pair that holds at least two bytes.                          *)
(***************************************************************************)
EXTENDS Mailbox, TLAPS

\* The constructors establish the inductive invariant.
LEMMA InitInductive == Init => Inductive
<1>. SUFFICES ASSUME Init PROVE Inductive
  OBVIOUS
<1>1. TypeOK
  <2>1. log \in Seq(Commands) /\ rcvd \in Seq(Commands)
    BY DEF Init
  <2>2. sends \in [Senders -> 0 .. MaxSends]
    BY MaxSendsAssumption DEF Init
  <2>. QED
    BY <2>1, <2>2 DEF Init, TypeOK, Null, SenderPcs, ReaderPcs
<1>2. PointersOrdered /\ OneWriter /\ ReaderMode /\ BytesAccounted
  BY DEF Init, PointersOrdered, OneWriter, ReaderMode, BytesAccounted, Owes, Null, InSend
<1>3. ReadsLog /\ LogInOrder
  BY DEF Init, ReadsLog, LogInOrder
<1>. QED
  BY <1>1, <1>2, <1>3 DEF Init, Inductive

\* ypipe_t::read with an item reads a published cell and leaves c alone.
LEMMA ReadItemEffect ==
    ASSUME TypeOK, PointersOrdered, ReadItem
    PROVE  /\ front < w /\ front' = front + 1 /\ front' <= r' /\ r' <= w /\ c' = c
           /\ rcvd' = Append(rcvd, log[front + 1]) /\ r' \in Nat
           /\ log[front + 1] \in Commands
<1>1. /\ front < w /\ front' = front + 1 /\ front' <= r' /\ r' <= w /\ c' = c
      /\ rcvd' = Append(rcvd, log[front + 1]) /\ r' \in Nat
  BY DEF TypeOK, PointersOrdered, ReadItem, HasItem, Prefetched, CheckRead, Null
<1>2. front + 1 \in 1 .. Len(log)
  BY <1>1 DEF TypeOK, PointersOrdered
<1>. QED
  BY <1>1, <1>2 DEF TypeOK

\* Writing the next command of a sender keeps the log in order.
LEMMA LogExtended ==
    ASSUME TypeOK, LogInOrder, NEW s \in Senders,
           sends' = [sends EXCEPT ![s] = @ + 1],
           log' = Append(log, <<s, sends[s] + 1>>)
    PROVE  LogInOrder'
<1>. DEFINE n == Len(log) + 1
<1>1. /\ Len(log) \in Nat /\ Len(log') = n
      /\ \A i \in 1 .. Len(log) : log'[i] = log[i] /\ log[i] \in Commands
      /\ log'[n] = <<s, sends[s] + 1>>
  BY DEF TypeOK
<1>2. /\ \A t \in Senders : sends[t] \in Nat /\ sends'[t] \in Nat /\ sends'[t] >= sends[t]
      /\ sends'[s] = sends[s] + 1
      /\ \A t \in Senders : t # s => sends'[t] = sends[t]
  BY DEF TypeOK
<1>3. \A i \in 1 .. Len(log) : log[i][1] \in Senders /\ log[i][2] \in Nat
  BY <1>1 DEF Commands
<1>4. \A i \in 1 .. Len(log') : log'[i][2] <= sends'[log'[i][1]]
  BY <1>1, <1>2, <1>3 DEF LogInOrder
<1>5. ASSUME NEW t \in Senders, NEW k \in 1 .. sends'[t]
      PROVE  \E i \in 1 .. Len(log') : log'[i] = <<t, k>>
  <2>1. CASE t = s /\ k = sends[s] + 1
    BY <1>1, <2>1
  <2>2. CASE ~(t = s /\ k = sends[s] + 1)
    <3>1. k \in 1 .. sends[t]
      BY <1>2, <1>5, <2>2
    <3>2. PICK i \in 1 .. Len(log) : log[i] = <<t, k>>
      BY <3>1 DEF LogInOrder
    <3>. QED
      BY <1>1, <3>2
  <2>. QED
    BY <2>1, <2>2
<1>6. ASSUME NEW i \in 1 .. Len(log'), NEW k \in 1 .. (log'[i][2] - 1)
      PROVE  \E j \in 1 .. (i - 1) : log'[j] = <<log'[i][1], k>>
  <2>1. CASE i = n
    <3>1. k \in 1 .. sends[s]
      BY <1>1, <1>2, <1>6, <2>1
    <3>2. PICK j \in 1 .. Len(log) : log[j] = <<s, k>>
      BY <3>1 DEF LogInOrder
    <3>. QED
      BY <1>1, <2>1, <3>2
  <2>2. CASE i # n
    <3>1. i \in 1 .. Len(log)
      BY <1>1, <1>6, <2>2
    <3>2. PICK j \in 1 .. (i - 1) : log[j] = <<log[i][1], k>>
      BY <1>1, <1>6, <3>1 DEF LogInOrder
    <3>. QED
      BY <1>1, <3>1, <3>2
  <2>. QED
    BY <2>1, <2>2
<1>7. ASSUME NEW i \in 1 .. Len(log'), NEW j \in 1 .. Len(log'), log'[i] = log'[j]
      PROVE  i = j
  <2>1. \A l \in 1 .. Len(log) : log[l] # <<s, sends[s] + 1>>
    BY <1>2, <1>3 DEF LogInOrder
  <2>. QED
    BY <1>1, <1>7, <2>1 DEF LogInOrder
<1>. QED
  BY <1>4, <1>5, <1>6, <1>7 DEF LogInOrder

\* Every step of a sender or of the reader keeps the inductive invariant.
LEMMA StepInductive == Inductive /\ [Next]_vars => Inductive'
<1>. SUFFICES ASSUME Inductive, [Next]_vars PROVE Inductive'
  OBVIOUS
<1>1. CASE PollIn
  <2>1. TypeOK'
    BY <1>1 DEF Inductive, PollIn, TypeOK, Commands, SenderPcs, ReaderPcs, Null, pipeVars, senderVars, readerVars
  <2>2. PointersOrdered'
    BY <1>1 DEF Inductive, PollIn, TypeOK, PointersOrdered, ReaderMode, Null, pipeVars, senderVars, readerVars
  <2>3. OneWriter'
    BY <1>1 DEF Inductive, PollIn, TypeOK, PointersOrdered, OneWriter, InSend, SenderPcs, Null, pipeVars, senderVars, readerVars
  <2>4. ReaderMode'
    BY <1>1 DEF Inductive, PollIn, TypeOK, PointersOrdered, ReaderMode, Null, pipeVars, senderVars, readerVars
  <2>5. BytesAccounted'
    BY <1>1 DEF Inductive, PollIn, TypeOK, PointersOrdered, ReaderMode, BytesAccounted, Owes, Null, pipeVars, senderVars, readerVars
  <2>6. ReadsLog'
    BY <1>1 DEF Inductive, PollIn, TypeOK, PointersOrdered, ReadsLog, pipeVars, senderVars, readerVars
  <2>7. LogInOrder'
    BY <1>1 DEF Inductive, PollIn, TypeOK, PointersOrdered, LogInOrder, Commands, pipeVars, senderVars, readerVars
  <2>8. ~aborted'
    BY <1>1, CapacityAssumption DEF Inductive, PollIn, TypeOK, PointersOrdered, ReaderMode, BytesAccounted, Owes, Null, pipeVars, senderVars, readerVars
  <2>. QED
    BY <2>1, <2>2, <2>3, <2>4, <2>5, <2>6, <2>7, <2>8 DEF Inductive
<1>2. CASE RecvActive
  <2>0. ReadItem
    BY <1>2 DEF RecvActive
  <2>1. /\ front < w /\ front' = front + 1 /\ front' <= r' /\ r' <= w /\ c' = c
        /\ rcvd' = Append(rcvd, log[front + 1]) /\ r' \in Nat
        /\ log[front + 1] \in Commands
    BY <2>0, ReadItemEffect DEF Inductive
  <2>2. TypeOK'
    BY <1>2, <2>1 DEF Inductive, RecvActive, TypeOK, Commands, SenderPcs, ReaderPcs, Null, pipeVars, senderVars, readerVars
  <2>3. PointersOrdered'
    BY <1>2, <2>1 DEF Inductive, RecvActive, TypeOK, PointersOrdered, ReaderMode, Null, pipeVars, senderVars, readerVars
  <2>4. OneWriter'
    BY <1>2, <2>1 DEF Inductive, RecvActive, TypeOK, PointersOrdered, OneWriter, InSend, SenderPcs, Null, pipeVars, senderVars, readerVars
  <2>5. ReaderMode'
    BY <1>2, <2>1 DEF Inductive, RecvActive, TypeOK, PointersOrdered, ReaderMode, Null, pipeVars, senderVars, readerVars
  <2>6. BytesAccounted'
    BY <1>2, <2>1 DEF Inductive, RecvActive, TypeOK, PointersOrdered, ReaderMode, BytesAccounted, Owes, Null, pipeVars, senderVars, readerVars
  <2>7. ReadsLog'
    <3>1. Len(rcvd') = Len(rcvd) + 1 /\ rcvd'[Len(rcvd) + 1] = log[front + 1]
          /\ \A i \in 1 .. Len(rcvd) : rcvd'[i] = rcvd[i]
      BY <2>1 DEF Inductive, TypeOK
    <3>2. log' = log
      BY <1>2 DEF RecvActive
    <3>. QED
      BY <2>1, <3>1, <3>2 DEF Inductive, TypeOK, ReadsLog
  <2>8. LogInOrder'
    BY <1>2 DEF Inductive, RecvActive, LogInOrder, senderVars
  <2>9. ~aborted'
    BY <1>2, <2>1, <2>0, CapacityAssumption DEF Inductive, RecvActive, TypeOK, PointersOrdered, ReaderMode, BytesAccounted, Owes, Null, pipeVars, senderVars, readerVars
  <2>. QED
    BY <2>2, <2>3, <2>4, <2>5, <2>6, <2>7, <2>8, <2>9 DEF Inductive
<1>3. CASE RecvEmpty
  <2>1. TypeOK'
    BY <1>3 DEF Inductive, RecvEmpty, HasItem, Prefetched, CheckRead, TypeOK, Commands, SenderPcs, ReaderPcs, Null, pipeVars, senderVars, readerVars
  <2>2. PointersOrdered'
    BY <1>3 DEF Inductive, RecvEmpty, HasItem, Prefetched, CheckRead, TypeOK, PointersOrdered, ReaderMode, Null, pipeVars, senderVars, readerVars
  <2>3. OneWriter'
    BY <1>3 DEF Inductive, RecvEmpty, HasItem, Prefetched, CheckRead, TypeOK, PointersOrdered, OneWriter, InSend, SenderPcs, Null, pipeVars, senderVars, readerVars
  <2>4. ReaderMode'
    BY <1>3 DEF Inductive, RecvEmpty, HasItem, Prefetched, CheckRead, TypeOK, PointersOrdered, ReaderMode, Null, pipeVars, senderVars, readerVars
  <2>5. BytesAccounted'
    BY <1>3 DEF Inductive, RecvEmpty, HasItem, Prefetched, CheckRead, TypeOK, PointersOrdered, ReaderMode, BytesAccounted, Owes, Null, pipeVars, senderVars, readerVars
  <2>6. ReadsLog'
    BY <1>3 DEF Inductive, RecvEmpty, HasItem, Prefetched, CheckRead, TypeOK, PointersOrdered, ReadsLog, pipeVars, senderVars, readerVars
  <2>7. LogInOrder'
    BY <1>3 DEF Inductive, RecvEmpty, HasItem, Prefetched, CheckRead, TypeOK, PointersOrdered, LogInOrder, Commands, pipeVars, senderVars, readerVars
  <2>8. ~aborted'
    BY <1>3, CapacityAssumption DEF Inductive, RecvEmpty, TypeOK, PointersOrdered, ReaderMode, BytesAccounted, Owes, Null, pipeVars, senderVars, readerVars
  <2>. QED
    BY <2>1, <2>2, <2>3, <2>4, <2>5, <2>6, <2>7, <2>8 DEF Inductive
<1>4. CASE RecvSignal
  <2>1. TypeOK'
    <3>1. bytes' \in Nat
      BY <1>4 DEF Inductive, RecvSignal, TypeOK
    <3>2. aborted' \in BOOLEAN
      BY <1>4 DEF Inductive, RecvSignal, TypeOK
    <3>. QED
      BY <1>4, <3>1, <3>2 DEF Inductive, RecvSignal, TypeOK, ReaderPcs, pipeVars, senderVars
  <2>2. PointersOrdered'
    BY <1>4 DEF Inductive, RecvSignal, TypeOK, PointersOrdered, ReaderMode, Null, pipeVars, senderVars, readerVars
  <2>3. OneWriter'
    BY <1>4 DEF Inductive, RecvSignal, TypeOK, PointersOrdered, OneWriter, InSend, SenderPcs, Null, pipeVars, senderVars, readerVars
  <2>4. ReaderMode'
    BY <1>4 DEF Inductive, RecvSignal, TypeOK, PointersOrdered, ReaderMode, Null, pipeVars, senderVars, readerVars
  <2>5. BytesAccounted'
    BY <1>4 DEF Inductive, RecvSignal, TypeOK, PointersOrdered, ReaderMode, BytesAccounted, Owes, Null, pipeVars, senderVars, readerVars
  <2>6. ReadsLog'
    BY <1>4 DEF Inductive, RecvSignal, TypeOK, PointersOrdered, ReadsLog, pipeVars, senderVars, readerVars
  <2>7. LogInOrder'
    BY <1>4 DEF Inductive, RecvSignal, TypeOK, PointersOrdered, LogInOrder, Commands, pipeVars, senderVars, readerVars
  <2>8. ~aborted'
    BY <1>4, CapacityAssumption DEF Inductive, RecvSignal, TypeOK, PointersOrdered, ReaderMode, BytesAccounted, Owes, Null, pipeVars, senderVars, readerVars
  <2>. QED
    BY <2>1, <2>2, <2>3, <2>4, <2>5, <2>6, <2>7, <2>8 DEF Inductive
<1>5. CASE Wait
  <2>1. TypeOK'
    BY <1>5 DEF Inductive, Wait, TypeOK, Commands, SenderPcs, ReaderPcs, Null, pipeVars, senderVars, readerVars
  <2>2. PointersOrdered'
    BY <1>5 DEF Inductive, Wait, TypeOK, PointersOrdered, ReaderMode, Null, pipeVars, senderVars, readerVars
  <2>3. OneWriter'
    BY <1>5 DEF Inductive, Wait, TypeOK, PointersOrdered, OneWriter, InSend, SenderPcs, Null, pipeVars, senderVars, readerVars
  <2>4. ReaderMode'
    <3>1. bytes > 0 => c # Null /\ front < c
      BY <1>5 DEF Inductive, Wait, TypeOK, PointersOrdered, ReaderMode, BytesAccounted, Null
    <3>. QED
      BY <1>5, <3>1 DEF Inductive, Wait, TypeOK, ReaderMode, pipeVars
  <2>5. BytesAccounted'
    BY <1>5 DEF Inductive, Wait, TypeOK, PointersOrdered, ReaderMode, BytesAccounted, Owes, Null, pipeVars, senderVars, readerVars
  <2>6. ReadsLog'
    BY <1>5 DEF Inductive, Wait, TypeOK, PointersOrdered, ReadsLog, pipeVars, senderVars, readerVars
  <2>7. LogInOrder'
    BY <1>5 DEF Inductive, Wait, TypeOK, PointersOrdered, LogInOrder, Commands, pipeVars, senderVars, readerVars
  <2>8. ~aborted'
    BY <1>5, CapacityAssumption DEF Inductive, Wait, TypeOK, PointersOrdered, ReaderMode, BytesAccounted, Owes, Null, pipeVars, senderVars, readerVars
  <2>. QED
    BY <2>1, <2>2, <2>3, <2>4, <2>5, <2>6, <2>7, <2>8 DEF Inductive
<1>6. CASE RecvWoken
  <2>0. ReadItem /\ UNCHANGED aborted
    <3>1. HasItem
      BY <1>6 DEF Inductive, RecvWoken, HasItem, Prefetched, TypeOK, PointersOrdered, ReaderMode, Null
    <3>. QED BY <1>6, <3>1 DEF RecvWoken
  <2>1. /\ front < w /\ front' = front + 1 /\ front' <= r' /\ r' <= w /\ c' = c
        /\ rcvd' = Append(rcvd, log[front + 1]) /\ r' \in Nat
        /\ log[front + 1] \in Commands
    BY <2>0, ReadItemEffect DEF Inductive
  <2>2. TypeOK'
    BY <1>6, <2>1 DEF Inductive, RecvWoken, TypeOK, Commands, SenderPcs, ReaderPcs, Null, pipeVars, senderVars, readerVars
  <2>3. PointersOrdered'
    BY <1>6, <2>1 DEF Inductive, RecvWoken, TypeOK, PointersOrdered, ReaderMode, Null, pipeVars, senderVars, readerVars
  <2>4. OneWriter'
    BY <1>6, <2>1 DEF Inductive, RecvWoken, TypeOK, PointersOrdered, OneWriter, InSend, SenderPcs, Null, pipeVars, senderVars, readerVars
  <2>5. ReaderMode'
    BY <1>6, <2>1 DEF Inductive, RecvWoken, TypeOK, PointersOrdered, ReaderMode, Null, pipeVars, senderVars, readerVars
  <2>6. BytesAccounted'
    BY <1>6, <2>1 DEF Inductive, RecvWoken, TypeOK, PointersOrdered, ReaderMode, BytesAccounted, Owes, Null, pipeVars, senderVars, readerVars
  <2>7. ReadsLog'
    <3>1. Len(rcvd') = Len(rcvd) + 1 /\ rcvd'[Len(rcvd) + 1] = log[front + 1]
          /\ \A i \in 1 .. Len(rcvd) : rcvd'[i] = rcvd[i]
      BY <2>1 DEF Inductive, TypeOK
    <3>2. log' = log
      BY <1>6 DEF RecvWoken
    <3>. QED
      BY <2>1, <3>1, <3>2 DEF Inductive, TypeOK, ReadsLog
  <2>8. LogInOrder'
    BY <1>6 DEF Inductive, RecvWoken, LogInOrder, senderVars
  <2>9. ~aborted'
    BY <1>6, <2>1, <2>0, CapacityAssumption DEF Inductive, RecvWoken, TypeOK, PointersOrdered, ReaderMode, BytesAccounted, Owes, Null, pipeVars, senderVars, readerVars
  <2>. QED
    BY <2>2, <2>3, <2>4, <2>5, <2>6, <2>7, <2>8, <2>9 DEF Inductive
<1>7. ASSUME NEW s \in Senders, LockAndWrite(s) PROVE Inductive'
  <2>1. TypeOK'
    <3>1. <<s, sends[s] + 1>> \in Commands /\ sends[s] + 1 \in 0 .. MaxSends
      BY <1>7, MaxSendsAssumption DEF Inductive, LockAndWrite, TypeOK, Commands
    <3>2. log' \in Seq(Commands) /\ Len(log) \in Nat
      BY <1>7, <3>1 DEF Inductive, LockAndWrite, TypeOK
    <3>. QED
      BY <1>7, <3>1, <3>2 DEF Inductive, LockAndWrite, TypeOK, SenderPcs, Null, readerVars
  <2>2. PointersOrdered'
    <3>1. Len(log) \in Nat /\ Len(log') = Len(log) + 1
      BY <1>7 DEF Inductive, LockAndWrite, TypeOK
    <3>2. w = f
      BY <1>7 DEF Inductive, LockAndWrite, TypeOK, PointersOrdered, OneWriter, InSend
    <3>. QED
      BY <1>7, <3>1, <3>2 DEF Inductive, LockAndWrite, TypeOK, PointersOrdered, Null
  <2>3. OneWriter'
    BY <1>7 DEF Inductive, LockAndWrite, TypeOK, PointersOrdered, OneWriter, InSend, SenderPcs, Null, pipeVars, senderVars, readerVars
  <2>4. ReaderMode'
    BY <1>7 DEF Inductive, LockAndWrite, TypeOK, PointersOrdered, ReaderMode, Null, pipeVars, senderVars, readerVars
  <2>5. BytesAccounted'
    BY <1>7 DEF Inductive, LockAndWrite, TypeOK, PointersOrdered, ReaderMode, BytesAccounted, Owes, Null, pipeVars, senderVars, readerVars
  <2>6. ReadsLog'
    <3>1. \A i \in 1 .. Len(log) : log'[i] = log[i]
      BY <1>7 DEF Inductive, LockAndWrite, TypeOK
    <3>2. front <= Len(log)
      BY DEF Inductive, TypeOK, PointersOrdered
    <3>. QED
      BY <1>7, <3>1, <3>2 DEF Inductive, LockAndWrite, TypeOK, ReadsLog, readerVars
  <2>7. LogInOrder'
    BY <1>7, LogExtended DEF Inductive, LockAndWrite
  <2>8. ~aborted'
    BY <1>7, CapacityAssumption DEF Inductive, LockAndWrite, TypeOK, PointersOrdered, ReaderMode, BytesAccounted, Owes, Null, pipeVars, senderVars, readerVars
  <2>. QED
    BY <2>1, <2>2, <2>3, <2>4, <2>5, <2>6, <2>7, <2>8 DEF Inductive
<1>8. ASSUME NEW s \in Senders, FlushCas(s) PROVE Inductive'
  <2>1. TypeOK'
    BY <1>8 DEF Inductive, FlushCas, TypeOK, Commands, SenderPcs, ReaderPcs, Null, pipeVars, senderVars, readerVars
  <2>2. PointersOrdered'
    BY <1>8 DEF Inductive, FlushCas, TypeOK, PointersOrdered, ReaderMode, Null, pipeVars, senderVars, readerVars
  <2>3. OneWriter'
    BY <1>8 DEF Inductive, FlushCas, TypeOK, PointersOrdered, OneWriter, InSend, SenderPcs, Null, pipeVars, senderVars, readerVars
  <2>4. ReaderMode'
    BY <1>8 DEF Inductive, FlushCas, TypeOK, PointersOrdered, ReaderMode, Null, pipeVars, senderVars, readerVars
  <2>5. BytesAccounted'
    <3>1. CASE c = w
      <4>1. \A t \in Senders : Owes(t)' <=> Owes(t)
        BY <1>8, <3>1 DEF Inductive, FlushCas, TypeOK, Owes
      <4>2. c' # Null /\ c # Null
        BY <1>8, <3>1 DEF Inductive, FlushCas, TypeOK, Null
      <4>. QED
        BY <1>8, <4>1, <4>2 DEF Inductive, FlushCas, BytesAccounted, readerVars
    <3>2. CASE c # w
      <4>1. \A t \in Senders : Owes(t)' <=> Owes(t)
        BY <1>8, <3>2 DEF Inductive, FlushCas, TypeOK, Owes
      <4>. QED
        BY <1>8, <3>2, <4>1 DEF Inductive, FlushCas, BytesAccounted, readerVars
    <3>. QED BY <3>1, <3>2
  <2>6. ReadsLog'
    BY <1>8 DEF Inductive, FlushCas, TypeOK, PointersOrdered, ReadsLog, pipeVars, senderVars, readerVars
  <2>7. LogInOrder'
    BY <1>8, ZenonT(60) DEF Inductive, FlushCas, TypeOK, PointersOrdered, LogInOrder, Commands, pipeVars, senderVars, readerVars
  <2>8. ~aborted'
    BY <1>8, CapacityAssumption DEF Inductive, FlushCas, TypeOK, PointersOrdered, ReaderMode, BytesAccounted, Owes, Null, pipeVars, senderVars, readerVars
  <2>. QED
    BY <2>1, <2>2, <2>3, <2>4, <2>5, <2>6, <2>7, <2>8 DEF Inductive
<1>9. ASSUME NEW s \in Senders, FlushSet(s) PROVE Inductive'
  <2>1. TypeOK'
    BY <1>9 DEF Inductive, FlushSet, TypeOK, Commands, SenderPcs, ReaderPcs, Null, pipeVars, senderVars, readerVars
  <2>2. PointersOrdered'
    BY <1>9 DEF Inductive, FlushSet, TypeOK, PointersOrdered, ReaderMode, Null, pipeVars, senderVars, readerVars
  <2>3. OneWriter'
    BY <1>9 DEF Inductive, FlushSet, TypeOK, PointersOrdered, OneWriter, InSend, SenderPcs, Null, pipeVars, senderVars, readerVars
  <2>4. ReaderMode'
    <3>1. c = Null /\ front < f /\ ~active
      BY <1>9 DEF Inductive, FlushSet, TypeOK, PointersOrdered, OneWriter, ReaderMode, Null
    <3>. QED
      BY <1>9, <3>1 DEF Inductive, FlushSet, TypeOK, ReaderMode, readerVars, Null
  <2>5. BytesAccounted'
    <3>1. c = Null /\ ~active /\ c' # Null
      BY <1>9 DEF Inductive, FlushSet, TypeOK, OneWriter, ReaderMode, Null
    <3>2. \A t \in Senders : ~Owes(t)
      BY <3>1 DEF Inductive, BytesAccounted
    <3>3. \A t \in Senders : Owes(t)' <=> t = s
      BY <1>9, <3>2 DEF Inductive, FlushSet, TypeOK, Owes
    <3>. QED
      BY <1>9, <3>1, <3>2, <3>3 DEF Inductive, FlushSet, BytesAccounted, readerVars
  <2>6. ReadsLog'
    BY <1>9 DEF Inductive, FlushSet, TypeOK, PointersOrdered, ReadsLog, pipeVars, senderVars, readerVars
  <2>7. LogInOrder'
    BY <1>9 DEF Inductive, FlushSet, TypeOK, PointersOrdered, LogInOrder, Commands, pipeVars, senderVars, readerVars
  <2>8. ~aborted'
    BY <1>9, CapacityAssumption DEF Inductive, FlushSet, TypeOK, PointersOrdered, ReaderMode, BytesAccounted, Owes, Null, pipeVars, senderVars, readerVars
  <2>. QED
    BY <2>1, <2>2, <2>3, <2>4, <2>5, <2>6, <2>7, <2>8 DEF Inductive
<1>10. ASSUME NEW s \in Senders, Unlock(s) PROVE Inductive'
  <2>1. TypeOK'
    BY <1>10 DEF Inductive, Unlock, TypeOK, Commands, SenderPcs, ReaderPcs, Null, pipeVars, senderVars, readerVars
  <2>2. PointersOrdered'
    BY <1>10 DEF Inductive, Unlock, TypeOK, PointersOrdered, ReaderMode, Null, pipeVars, senderVars, readerVars
  <2>3. OneWriter'
    BY <1>10 DEF Inductive, Unlock, TypeOK, PointersOrdered, OneWriter, InSend, SenderPcs, Null, pipeVars, senderVars, readerVars
  <2>4. ReaderMode'
    BY <1>10 DEF Inductive, Unlock, TypeOK, PointersOrdered, ReaderMode, Null, pipeVars, senderVars, readerVars
  <2>5. BytesAccounted'
    BY <1>10 DEF Inductive, Unlock, TypeOK, PointersOrdered, ReaderMode, BytesAccounted, Owes, Null, pipeVars, senderVars, readerVars
  <2>6. ReadsLog'
    BY <1>10 DEF Inductive, Unlock, TypeOK, PointersOrdered, ReadsLog, pipeVars, senderVars, readerVars
  <2>7. LogInOrder'
    BY <1>10 DEF Inductive, Unlock, TypeOK, PointersOrdered, LogInOrder, Commands, pipeVars, senderVars, readerVars
  <2>8. ~aborted'
    BY <1>10, CapacityAssumption DEF Inductive, Unlock, TypeOK, PointersOrdered, ReaderMode, BytesAccounted, Owes, Null, pipeVars, senderVars, readerVars
  <2>. QED
    BY <2>1, <2>2, <2>3, <2>4, <2>5, <2>6, <2>7, <2>8 DEF Inductive
<1>11. ASSUME NEW s \in Senders, Signal(s) PROVE Inductive'
  <2>1. TypeOK'
    <3>1. bytes' \in Nat
      BY <1>11 DEF Inductive, Signal, TypeOK
    <3>2. aborted' \in BOOLEAN
      BY <1>11 DEF Inductive, Signal, TypeOK
    <3>. QED
      BY <1>11, <3>1, <3>2 DEF Inductive, Signal, TypeOK, SenderPcs, pipeVars, readerVars
  <2>2. PointersOrdered'
    BY <1>11 DEF Inductive, Signal, TypeOK, PointersOrdered, ReaderMode, Null, pipeVars, senderVars, readerVars
  <2>3. OneWriter'
    BY <1>11 DEF Inductive, Signal, TypeOK, PointersOrdered, OneWriter, InSend, SenderPcs, Null, pipeVars, senderVars, readerVars
  <2>4. ReaderMode'
    BY <1>11 DEF Inductive, Signal, TypeOK, PointersOrdered, ReaderMode, Null, pipeVars, senderVars, readerVars
  <2>5. BytesAccounted'
    <3>1. Owes(s) /\ c # Null /\ ~active
      BY <1>11 DEF Inductive, Signal, BytesAccounted, Owes
    <3>2. \A t \in Senders : ~Owes(t)'
      BY <1>11, <3>1 DEF Inductive, Signal, TypeOK, BytesAccounted, Owes
    <3>3. bytes = IF rpc = "drain" THEN 1 ELSE 0
      BY <3>1 DEF Inductive, BytesAccounted
    <3>4. bytes' = bytes + 1
      BY <1>11, <3>3, CapacityAssumption DEF Signal
    <3>. QED
      BY <1>11, <3>1, <3>2, <3>3, <3>4 DEF Inductive, Signal, BytesAccounted, pipeVars, readerVars
  <2>6. ReadsLog'
    BY <1>11 DEF Inductive, Signal, TypeOK, PointersOrdered, ReadsLog, pipeVars, senderVars, readerVars
  <2>7. LogInOrder'
    BY <1>11 DEF Inductive, Signal, TypeOK, PointersOrdered, LogInOrder, Commands, pipeVars, senderVars, readerVars
  <2>8. ~aborted'
    BY <1>11, CapacityAssumption DEF Inductive, Signal, TypeOK, PointersOrdered, ReaderMode, BytesAccounted, Owes, Null, pipeVars, senderVars, readerVars
  <2>. QED
    BY <2>1, <2>2, <2>3, <2>4, <2>5, <2>6, <2>7, <2>8 DEF Inductive
<1>12. CASE UNCHANGED vars
  <2>. USE <1>12 DEF vars, pipeVars, senderVars, readerVars, Inductive
  <2>1. TypeOK' /\ PointersOrdered'
    BY DEF TypeOK, PointersOrdered
  <2>2. OneWriter' /\ ReaderMode'
    BY DEF OneWriter, ReaderMode
  <2>3. BytesAccounted'
    BY DEF BytesAccounted, Owes
  <2>4. ReadsLog' /\ LogInOrder'
    BY DEF ReadsLog, LogInOrder
  <2>. QED
    BY <2>1, <2>2, <2>3, <2>4
<1>13. CASE Next
  <2>1. CASE Recv
    BY <2>1, <1>1, <1>2, <1>3, <1>4, <1>5, <1>6 DEF Recv
  <2>2. ASSUME NEW s \in Senders, LockAndWrite(s) \/ SendStep(s) PROVE Inductive'
    BY <2>2, <1>7, <1>8, <1>9, <1>10, <1>11 DEF SendStep
  <2>3. Recv \/ \E s \in Senders : LockAndWrite(s) \/ SendStep(s)
    BY <1>13 DEF Next
  <2>. QED
    BY <2>1, <2>2, <2>3
<1>. QED
  BY <1>12, <1>13

\* Inductive is an invariant of the specification.
THEOREM InductiveInvariant == Spec => []Inductive
<1>. QED
  BY InitInductive, StepInductive, PTL DEF Spec

\* Every variable keeps its type.
THEOREM TypeCorrect == Spec => []TypeOK
<1>1. Inductive => TypeOK
  BY DEF Inductive
<1>. QED
  BY <1>1, InductiveInvariant, PTL

\* No assertion of mailbox_t::recv or of the signaler ever fails.
THEOREM NoAssertionFails == Spec => []NeverAborts
<1>1. Inductive => NeverAborts
  BY DEF Inductive, NeverAborts
<1>. QED
  BY <1>1, InductiveInvariant, PTL

\* A reader never sleeps on a published command without a byte that wakes it
\* being in the socket or about to be sent.
THEOREM WakeUpNeverLost == Spec => []NoLostWakeup
<1>1. Inductive => NoLostWakeup
  BY DEF Inductive, TypeOK, PointersOrdered, BytesAccounted, NoLostWakeup, Null
<1>. QED
  BY <1>1, InductiveInvariant, PTL

\* The socket pair never holds more than two bytes, for any number of senders.
THEOREM SocketNeverFills == Spec => []SignalsBounded
<1>1. Inductive => SignalsBounded
  BY DEF Inductive, BytesAccounted, SignalsBounded
<1>. QED
  BY <1>1, InductiveInvariant, PTL

\* Commands arrive once each and in the order of their sender.
THEOREM SendersInOrder == Spec => []PerSenderFifo
<1>1. Inductive => PerSenderFifo
  <2>. SUFFICES ASSUME Inductive PROVE PerSenderFifo
    OBVIOUS
  <2>1. /\ Len(rcvd) = front /\ front \in Nat /\ front <= Len(log)
        /\ \A i \in 1 .. front : rcvd[i] = log[i]
    BY DEF Inductive, TypeOK, PointersOrdered, ReadsLog
  <2>2. Len(log) \in Nat /\ \A i \in 1 .. Len(log) : log[i][2] \in Nat
    BY DEF Inductive, TypeOK, Commands
  <2>3. ASSUME NEW i \in 1 .. Len(rcvd), NEW k \in 1 .. (rcvd[i][2] - 1)
        PROVE  \E j \in 1 .. (i - 1) : rcvd[j] = <<rcvd[i][1], k>>
    <3>1. i \in 1 .. Len(log) /\ k \in 1 .. (log[i][2] - 1)
      BY <2>1, <2>2, <2>3
    <3>2. PICK j \in 1 .. (i - 1) : log[j] = <<log[i][1], k>>
      BY <3>1 DEF Inductive, LogInOrder
    <3>. QED
      BY <2>1, <2>2, <2>3, <3>2
  <2>4. ASSUME NEW i \in 1 .. Len(rcvd), NEW j \in 1 .. Len(rcvd), rcvd[i] = rcvd[j]
        PROVE  i = j
    BY <2>1, <2>2, <2>4 DEF Inductive, LogInOrder
  <2>. QED
    BY <2>3, <2>4 DEF PerSenderFifo
<1>. QED
  BY <1>1, InductiveInvariant, PTL

-----------------------------------------------------------------------------
(* The mailbox implements the command channel (its safety part).           *)

\* The commands published so far, as the channel sees them.
Posted == [i \in 1 .. w |-> log[i]]

LEMMA PostedFacts ==
    ASSUME Inductive
    PROVE  /\ Posted \in Seq(Commands) /\ Len(Posted) = w
           /\ \A i \in 1 .. w : Posted[i] = log[i] /\ log[i] \in Commands
<1>1. \A i \in 1 .. w : log[i] \in Commands
  BY DEF Inductive, TypeOK, PointersOrdered
<1>2. w \in Nat
  BY DEF Inductive, TypeOK
<1>. QED
  BY <1>1, <1>2 DEF Posted

\* Moving w and the flushed pointer over the pending cell posts its command.
LEMMA PublishIsPost ==
    ASSUME Inductive, w < f, w' = f, log' = log, rcvd' = rcvd
    PROVE  \E s \in Senders, k \in 1 .. MaxSends : Channel!Post(s, k)
<1>1. f = w + 1 /\ f = Len(log) /\ w \in Nat /\ f \in 1 .. Len(log)
  BY DEF Inductive, TypeOK, PointersOrdered
<1>2. PICK s \in Senders, k \in 1 .. MaxSends : log[f] = <<s, k>>
  <2>1. log \in Seq(Commands)
    BY DEF Inductive, TypeOK
  <2>2. log[f] \in Commands
    BY <1>1, <2>1
  <2>. QED
    BY <2>2 DEF Commands
<1>3. Posted' = Append(Posted, <<s, k>>)
  BY <1>1, <1>2, PostedFacts DEF Posted
<1>4. ~(\E i \in 1 .. Len(Posted) : Posted[i] = <<s, k>>)
  <2>1. \A i \in 1 .. w : i \in 1 .. Len(log) /\ i # f
    BY <1>1
  <2>2. \A i \in 1 .. w : log[i] # log[f]
    BY <1>1, <2>1 DEF Inductive, LogInOrder
  <2>. QED
    BY <1>2, <2>2, PostedFacts
<1>5. ASSUME NEW j \in 1 .. (k - 1)
      PROVE  \E i \in 1 .. Len(Posted) : Posted[i] = <<s, j>>
  <2>1. log[f][1] = s /\ log[f][2] = k
    BY <1>2
  <2>2. PICK i \in 1 .. (f - 1) : log[i] = <<s, j>>
    BY <1>1, <1>5, <2>1 DEF Inductive, LogInOrder
  <2>. QED
    BY <1>1, <2>2, PostedFacts
<1>6. Channel!Post(s, k)
  BY <1>3, <1>4, <1>5 DEF Channel!Post, Channel!IsPosted, Posted
<1>. QED
  BY <1>6

\* A read of the pipe takes the oldest posted command.
LEMMA ReadIsTake ==
    ASSUME Inductive, ReadItem, log' = log, w' = w
    PROVE  Channel!Take
<1>1. front < w /\ rcvd' = Append(rcvd, log[front + 1]) /\ Len(rcvd) = front
  BY ReadItemEffect DEF Inductive, ReadsLog
<1>2. Posted[front + 1] = log[front + 1] /\ Len(Posted) = w
  BY <1>1, PostedFacts DEF Inductive, TypeOK
<1>3. Posted' = Posted
  BY DEF Posted
<1>. QED
  BY <1>1, <1>2, <1>3 DEF Channel!Take, Posted

\* Every step of the mailbox posts a command, takes one, or changes nothing
\* the channel shows.
LEMMA StepRefines == Inductive /\ [Next]_vars => [Channel!Next]_(Channel!chVars)
<1>. SUFFICES ASSUME Inductive, [Next]_vars
              PROVE  Channel!Next \/ (Posted' = Posted /\ rcvd' = rcvd)
  BY DEF Channel!chVars, Posted
<1>1. CASE w' = w /\ log' = log /\ rcvd' = rcvd
  BY <1>1 DEF Posted
<1>2. CASE RecvActive \/ RecvWoken
  <2>1. CASE RecvActive
    BY <2>1, ReadIsTake DEF RecvActive, Channel!Next
  <2>2. CASE RecvWoken
    <3>1. HasItem
      BY <2>2 DEF Inductive, RecvWoken, HasItem, Prefetched, TypeOK, PointersOrdered,
                  ReaderMode, Null
    <3>. QED
      BY <2>2, <3>1, ReadIsTake DEF RecvWoken, Channel!Next
  <2>. QED
    BY <1>2, <2>1, <2>2
<1>3. ASSUME NEW s \in Senders, LockAndWrite(s)
      PROVE  Posted' = Posted /\ rcvd' = rcvd
  <2>1. \A i \in 1 .. Len(log) : log'[i] = log[i]
    BY <1>3 DEF LockAndWrite, Inductive, TypeOK
  <2>2. \A i \in 1 .. w : log'[i] = log[i]
    BY <2>1 DEF Inductive, TypeOK, PointersOrdered
  <2>. QED
    BY <1>3, <2>2 DEF LockAndWrite, Posted, readerVars
<1>4. ASSUME NEW s \in Senders, FlushCas(s), w' # w
      PROVE  Channel!Next
  <2>1. w < f /\ w' = f /\ log' = log /\ rcvd' = rcvd
    BY <1>4 DEF FlushCas, Inductive, OneWriter, readerVars
  <2>. QED
    BY <2>1, PublishIsPost DEF Channel!Next
<1>5. ASSUME NEW s \in Senders, FlushSet(s)
      PROVE  Channel!Next
  <2>1. w < f /\ w' = f /\ log' = log /\ rcvd' = rcvd
    BY <1>5 DEF FlushSet, Inductive, OneWriter, readerVars
  <2>. QED
    BY <2>1, PublishIsPost DEF Channel!Next
<1>6. CASE PollIn \/ RecvEmpty \/ RecvSignal \/ Wait \/ UNCHANGED vars
  BY <1>1, <1>6 DEF PollIn, RecvEmpty, RecvSignal, Wait, vars, pipeVars, readerVars
<1>7. ASSUME NEW s \in Senders, FlushCas(s), w' = w
      PROVE  Posted' = Posted /\ rcvd' = rcvd
  BY <1>7 DEF FlushCas, Posted, readerVars
<1>8. ASSUME NEW s \in Senders, Unlock(s) \/ Signal(s)
      PROVE  Posted' = Posted /\ rcvd' = rcvd
  BY <1>8 DEF Unlock, Signal, Posted, pipeVars, readerVars
<1>9. CASE Next
  <2>1. Recv \/ \E s \in Senders : LockAndWrite(s) \/ SendStep(s)
    BY <1>9 DEF Next
  <2>2. CASE Recv
    BY <2>2, <1>2, <1>6 DEF Recv
  <2>3. ASSUME NEW s \in Senders, LockAndWrite(s) \/ SendStep(s)
        PROVE  Channel!Next \/ (Posted' = Posted /\ rcvd' = rcvd)
    BY <2>3, <1>3, <1>4, <1>5, <1>7, <1>8 DEF SendStep
  <2>. QED
    BY <2>1, <2>2, <2>3
<1>. QED
  BY <1>6, <1>9

\* Whatever the interleaving of its senders, a mailbox behaves as a FIFO
\* channel of commands.
THEOREM MailboxIsChannel == Spec => Channel!Init /\ [][Channel!Next]_(Channel!chVars)
<1>1. Init => Channel!Init
  <2>. SUFFICES ASSUME Init PROVE Channel!Init
    OBVIOUS
  <2>1. Posted = <<>>
    BY DEF Init, Posted
  <2>. QED
    BY <2>1 DEF Init, Channel!Init, Posted
<1>. QED
  BY <1>1, StepRefines, InductiveInvariant, PTL DEF Spec

=============================================================================
