----------------------- MODULE ConversationMemory_proofs -----------------------
(***************************************************************************)
(* Theorems about ConversationMemory, for any callers, any number of calls *)
(* and any window and token limit.  One lemma for each part of IInv says   *)
(* that every step preserves it; it looks at the actions that can disturb  *)
(* that part one by one.                                                   *)
(***************************************************************************)
EXTENDS ConversationMemory, FiniteSetTheorems, SequenceTheorems, TLAPS

USE CallersAssumption, KindsAssumption, StoresAssumption, BoundAssumption,
    TokensAssumption, FlagsAssumption

Places == {"idle", "load", "run", "saveUser", "saveAI", "check", "prune", "set", "insert"}

LEMMA AloneIsOne == Alone => \A c, d \in Callers : c = d
<1> SUFFICES ASSUME Alone PROVE \A c, d \in Callers : c = d
  OBVIOUS
<1>1. PICK e : Callers = {e}
  BY FS_Singleton DEF Alone
<1> QED
  BY <1>1

(* The window has room for a message.                                      *)
LEMMA WindowPositive ==
    /\ ConversationWindowSize \in Nat \ {0}
    /\ ConversationWindowSize * defaultMessageSize \in Nat
    /\ ConversationWindowSize * defaultMessageSize >= 2
  BY DEF ConversationWindowSize, defaultConversationWindowSize, defaultMessageSize

LEMMA MessageTypes ==
    ASSUME NEW n \in CallNumbers
    PROVE  Human(n) \in Message /\ AI(n) \in Message
  BY DEF Human, AI, Message

(* What is left of a sequence behind its first k elements.                 *)
LEMMA LastPart ==
    ASSUME NEW S, NEW s \in Seq(S), NEW k \in 0..Len(s)
    PROVE  /\ SubSeq(s, k + 1, Len(s)) \in Seq(S)
           /\ Len(SubSeq(s, k + 1, Len(s))) = Len(s) - k
           /\ \A i \in 1..(Len(s) - k) : SubSeq(s, k + 1, Len(s))[i] = s[k + i]
<1> DEFINE m == k + 1
<1>1. /\ Len(s) \in Nat /\ k \in Nat /\ k <= Len(s) /\ DOMAIN s = 1..Len(s)
      /\ \A i \in 1..Len(s) : s[i] \in S
  BY LenProperties
<1>2. m \in Int /\ Len(s) \in Int /\ \A i \in m..Len(s) : s[i] \in S
  BY <1>1
<1>3. /\ m <= Len(s) => Len(s) - m + 1 = Len(s) - k
      /\ ~(m <= Len(s)) => Len(s) - k = 0
      /\ Len(s) - m + 1 = Len(s) - k
      /\ \A i \in 1..(Len(s) - k) : m + i - 1 = k + i
  <2>1. k \in Int /\ Len(s) \in Int /\ m = k + 1 /\ k <= Len(s)
    BY <1>1
  <2> QED
    BY <2>1
<1> HIDE DEF m
<1>4. /\ SubSeq(s, m, Len(s)) \in Seq(S)
      /\ Len(SubSeq(s, m, Len(s))) = IF m <= Len(s) THEN Len(s) - m + 1 ELSE 0
      /\ \A i \in 1..(Len(s) - m + 1) : SubSeq(s, m, Len(s))[i] = s[m + i - 1]
  BY <1>2, SubSeqProperties
<1>5. /\ SubSeq(s, m, Len(s)) \in Seq(S)
      /\ Len(SubSeq(s, m, Len(s))) = Len(s) - k
      /\ \A i \in 1..(Len(s) - k) : SubSeq(s, m, Len(s))[i] = s[k + i]
  BY <1>3, <1>4
<1> QED
  BY <1>5 DEF m

(* What is kept of a history by the window, element by element.            *)
LEMMA CutProperties ==
    ASSUME NEW h \in Seq(Message)
    PROVE  /\ cutMessages(h) \in Seq(Message)
           /\ Len(cutMessages(h)) <= Len(h)
           /\ \A j \in DOMAIN cutMessages(h) :
                 /\ Len(h) - Len(cutMessages(h)) + j \in DOMAIN h
                 /\ cutMessages(h)[j] = h[Len(h) - Len(cutMessages(h)) + j]
           /\ Len(cutMessages(h)) <= ConversationWindowSize * defaultMessageSize
           /\ h # <<>> => cutMessages(h) # <<>>
<1> DEFINE W == ConversationWindowSize * defaultMessageSize
<1>w. W \in Nat /\ W >= 2
  BY WindowPositive
<1> HIDE DEF W
<1>l. Len(h) \in Nat /\ DOMAIN h = 1..Len(h) /\ \A j \in 1..Len(h) : h[j] \in Message
  BY LenProperties
<1>1. CASE Len(h) > W
  <2> DEFINE k == Len(h) - W
  <2>1. cutMessages(h) = SubSeq(h, k + 1, Len(h))
    BY <1>1 DEF cutMessages, LastOf, W
  <2>2. k \in 0..Len(h) /\ Len(h) - k = W
    BY <1>1, <1>w, <1>l
  <2> HIDE DEF k
  <2>3. /\ SubSeq(h, k + 1, Len(h)) \in Seq(Message)
        /\ Len(SubSeq(h, k + 1, Len(h))) = Len(h) - k
        /\ \A i \in 1..(Len(h) - k) : SubSeq(h, k + 1, Len(h))[i] = h[k + i]
    BY <2>2, LastPart
  <2> USE DEF k
  <2>4. /\ cutMessages(h) \in Seq(Message) /\ Len(cutMessages(h)) = W
        /\ \A i \in 1..W : cutMessages(h)[i] = h[Len(h) - W + i]
    BY <2>1, <2>2, <2>3
  <2>5. DOMAIN cutMessages(h) = 1..W
    BY <2>4, LenProperties
  <2>6. cutMessages(h) # <<>>
    BY <1>w, <2>4, EmptySeq
  <2>7. \A j \in 1..W : Len(h) - W + j \in 1..Len(h)
    BY <1>1, <1>w, <1>l
  <2> QED
    BY <1>1, <1>w, <1>l, <2>4, <2>5, <2>6, <2>7 DEF W
<1>2. CASE ~(Len(h) > W)
  <2>1. cutMessages(h) = h
    BY <1>2 DEF cutMessages, W
  <2> QED
    BY <1>2, <1>w, <1>l, <2>1 DEF W
<1> QED
  BY <1>1, <1>2

LEMMA TailOfHistory ==
    ASSUME NEW h \in Seq(Message), h # <<>>
    PROVE  /\ Tail(h) \in Seq(Message)
           /\ Len(Tail(h)) = Len(h) - 1 /\ Len(h) \in Nat \ {0}
           /\ DOMAIN h = 1..Len(h) /\ DOMAIN Tail(h) = 1..(Len(h) - 1)
           /\ \A j \in DOMAIN Tail(h) : Tail(h)[j] = h[j + 1]
  BY HeadTailProperties, EmptySeq, LenProperties
(* What a failed insertion leaves is the first part of what was given.     *)
LEMMA HalfTypes ==
    ASSUME NEW c \in Callers, fetched[c] \in Seq(Message)
    PROVE  \A h \in HalfInserted(c) :
              /\ h \in Seq(Message)
              /\ Len(h) <= Len(fetched[c])
              /\ \A j \in DOMAIN h : j \in DOMAIN fetched[c] /\ h[j] = fetched[c][j]
              /\ store # "stepwise" => h = <<>>
<1> TAKE h \in HalfInserted(c)
<1>1. Len(fetched[c]) \in Nat /\ DOMAIN fetched[c] = 1..Len(fetched[c])
      /\ \A i \in 1..Len(fetched[c]) : fetched[c][i] \in Message
  BY LenProperties
<1>2. PICK n \in 0..Len(fetched[c]) :
         h = SubSeq(fetched[c], 1, n) /\ (store # "stepwise" => n = 0)
  <2>1. PICK n \in IF store = "stepwise" THEN 0..Len(fetched[c]) ELSE {0} :
           h = SubSeq(fetched[c], 1, n)
    BY DEF HalfInserted
  <2>2. n \in 0..Len(fetched[c]) /\ (store # "stepwise" => n = 0)
    BY <1>1, <2>1
  <2> QED
    BY <2>1, <2>2
<1>3. /\ SubSeq(fetched[c], 1, n) \in Seq(Message)
      /\ Len(SubSeq(fetched[c], 1, n)) = IF 1 <= n THEN n - 1 + 1 ELSE 0
      /\ \A i \in 1..(n - 1 + 1) : SubSeq(fetched[c], 1, n)[i] = fetched[c][1 + i - 1]
  <2>1. \A i \in 1..n : fetched[c][i] \in Message
    BY <1>1
  <2>2. 1 \in Int /\ n \in Int
    BY <1>1
  <2> QED
    BY <2>1, <2>2, SubSeqProperties
<1>4. h \in Seq(Message) /\ Len(h) = n /\ \A i \in 1..n : h[i] = fetched[c][i]
  BY <1>1, <1>2, <1>3
<1>5. DOMAIN h = 1..n
  BY <1>4, LenProperties
<1>6. n = 0 => h = <<>>
  BY <1>4, EmptySeq
<1> QED
  BY <1>1, <1>2, <1>4, <1>5, <1>6
-----------------------------------------------------------------------------
LEMMA InitIInv == Init => IInv
<1> SUFFICES ASSUME Init PROVE IInv
  OBVIOUS
<1>1. TypeOK
  <2>0. written = <<>> /\ Len(written) = 0 /\ cleared = 0 /\ open = FALSE
    BY EmptySeq DEF Init
  <2>1. open \in BOOLEAN /\ ~open /\ cleared \in 0..Len(written)
    <3>1. cleared \in 0..Len(written)
      <4>1. 0 \in 0..0
        OBVIOUS
      <4> QED
        BY <4>1, <2>0, Zenon
    <3> QED
      BY <2>0, <3>1
  <2>2. /\ kind \in Kinds /\ store \in Stores /\ calls \in 0..MaxCalls
        /\ call \in [Callers -> 0..MaxCalls] /\ outcome \in [CallNumbers -> Outcomes]
    BY DEF Init, Outcomes
  <2> QED
    BY <2>1, <2>2, EmptySeq DEF Init, TypeOK
<1>2. CallInv /\ PlaceInv /\ EventsInv
  BY DEF Init, CallInv, PlaceInv, EventsInv, CallNumbers
<1>3. DOMAIN written = {} /\ DOMAIN history = {} /\ Len(history) = 0 /\ Len(written) = 0
  BY EmptySeq DEF Init
<1>4. WrittenInv
  BY <1>3 DEF Init, WrittenInv
<1>5. OrderInv /\ RecentInv /\ OrphanInv /\ BoundInv
  BY <1>3 DEF Init, OrderInv, InOrder, RecentInv, Recent, OrphanInv, Orphans, BoundInv,
              Replacing
<1>7. ForgotInv
  BY <1>3 DEF Init, ForgotInv, ForgetsByFailure, Replacing
<1>6. LatestInv /\ ChainSeesLastExchange
  BY DEF Init, LatestInv, Replacing, ChainSeesLastExchange
<1> QED
  BY <1>1, <1>2, <1>4, <1>5, <1>6, <1>7 DEF IInv


(* A caller in the middle of a call.                                       *)
LEMMA Busy ==
    ASSUME TypeOK, CallInv, NEW c \in Callers, pc[c] # "idle"
    PROVE  /\ call[c] \in CallNumbers /\ call[c] \in 1..MaxCalls /\ call[c] <= calls
           /\ outcome[call[c]] = "none"
           /\ \A d \in Callers : call[d] = call[c] => d = c
           /\ Alone => call[c] = calls
  BY DEF TypeOK, CallInv, CallNumbers

Told == Seq({"start", "end", "error"})

LEMMA Pair == ASSUME NEW a, NEW b PROVE <<a>> \o <<b>> = <<a, b>>
<1> DEFINE S == {a, b}
<1>1. <<a>> \in Seq(S) /\ b \in S /\ <<a, b>> \in Seq(S) /\ <<b>> \in Seq(S)
  OBVIOUS
<1>2. Len(<<a>>) = 1 /\ Len(<<b>>) = 1 /\ Len(<<a, b>>) = 2
      /\ <<a>>[1] = a /\ <<b>>[1] = b /\ <<a, b>>[1] = a /\ <<a, b>>[2] = b
  OBVIOUS
<1> HIDE DEF S
<1>3. /\ <<a>> \o <<b>> \in Seq(S)
      /\ Len(<<a>> \o <<b>>) = Len(<<a>>) + Len(<<b>>)
      /\ \A i \in 1..(Len(<<a>>) + Len(<<b>>)) : (<<a>> \o <<b>>)[i] =
            IF i <= Len(<<a>>) THEN <<a>>[i] ELSE <<b>>[i - Len(<<a>>)]
  BY <1>1, ConcatProperties
<1> DEFINE s == <<a>> \o <<b>>  t == <<a, b>>  x == <<a>>  y == <<b>>
<1>4. /\ s \in Seq(S) /\ t \in Seq(S)
      /\ Len(x) = 1 /\ Len(y) = 1 /\ x[1] = a /\ y[1] = b
      /\ Len(t) = 2 /\ t[1] = a /\ t[2] = b
  BY <1>1, <1>2, <1>3
<1>5. /\ Len(s) = Len(x) + Len(y)
      /\ \A i \in 1..(Len(x) + Len(y)) : s[i] = IF i <= Len(x) THEN x[i] ELSE y[i - Len(x)]
  BY <1>3
<1> HIDE DEF s, t, x, y
<1>6. Len(s) = Len(t) /\ \A i \in 1..Len(s) : s[i] = t[i]
  <2>1. Len(s) = 2 /\ s[1] = x[1] /\ s[2] = y[2 - 1]
    BY <1>4, <1>5
  <2> QED
    BY <1>4, <2>1
<1>7. s = t
  BY <1>4, <1>6, SeqEqual
<1> QED
  BY <1>7 DEF s, t

LEMMA EventLists ==
    /\ <<"start">> \in Told /\ <<"end">> \in Told /\ <<"error">> \in Told /\ <<>> \in Told
    /\ \A e, f \in Told : e \o f \in Told
    /\ <<>> \o <<"start">> = <<"start">>
    /\ <<"start">> \o <<"end">> = <<"start", "end">>
    /\ <<"start">> \o <<"error">> = <<"start", "error">>
<1>1. <<"start">> \in Told /\ <<"end">> \in Told /\ <<"error">> \in Told /\ <<>> \in Told
  BY DEF Told
<1>2. \A e, f \in Told : e \o f \in Told
  BY ConcatProperties DEF Told
<1>3. <<>> \o <<"start">> = <<"start">>
  BY <1>1, ConcatEmptySeq DEF Told
<1>4. <<"start">> \o <<"end">> = <<"start", "end">>
  BY Pair
<1>5. <<"start">> \o <<"error">> = <<"start", "error">>
  BY Pair
<1> QED
  BY <1>1, <1>2, <1>3, <1>4, <1>5

LEMMA TypeStep == ASSUME TypeOK, CallInv, [Next]_vars PROVE TypeOK'
<1>0. CASE UNCHANGED vars
  BY <1>0 DEF TypeOK, vars
<1> SUFFICES ASSUME NEW c \in Callers, Call(c) \/ Clear(c) PROVE TypeOK'
  BY <1>0 DEF Next
<1>a. /\ pc[c] \in Places /\ call[c] \in 0..MaxCalls /\ calls \in 0..MaxCalls
      /\ history \in Seq(Message) /\ written \in Seq(Message) /\ fetched[c] \in Seq(Message)
      /\ Len(written) \in Nat /\ cleared \in 0..Len(written)
      /\ events \in [CallNumbers -> Told]
  BY LenProperties DEF TypeOK, Places, Told
<1>t. ASSUME NEW es \in Told, Tell(c, es)
      PROVE  events' \in [CallNumbers -> Told]
  BY <1>a, <1>t, EventLists DEF Tell
<1>r. ASSUME NEW o \in Outcomes, Return(c, o)
      PROVE  /\ outcome' \in [CallNumbers -> Outcomes]
             /\ pc' \in [Callers -> Places]
  BY <1>r DEF Return, Goto, TypeOK, Places
<1>g. ASSUME NEW p \in Places, Goto(c, p)
      PROVE  pc' \in [Callers -> Places]
  BY <1>g DEF Goto, TypeOK, Places
<1>o. {"ok", "loadError", "chainError", "saveError"} \subseteq Outcomes
  BY DEF Outcomes
<1>m. ASSUME NEW m \in Message, Add(m)
      PROVE  history' \in Seq(Message) /\ written' \in Seq(Message)
             /\ (cleared' = cleared => cleared' \in 0..Len(written'))
  BY <1>a, <1>m, AppendProperties DEF Add
<1>1. CASE Begin(c)
  BY <1>1, <1>a, EmptySeq DEF TypeOK, Begin, Goto
<1>2. CASE LoadMemoryVariables(c)
  <2>1. Loadable \in Seq(Message)
    BY <1>a, CutProperties, EmptySeq DEF Loadable
  <2>2. events' \in [CallNumbers -> Told]
    BY <1>2, <1>t, EventLists DEF LoadMemoryVariables
  <2> QED
    BY <1>2, <2>1, <2>2 DEF TypeOK, LoadMemoryVariables, Goto, Told
<1>3. CASE LoadFails(c) \/ SaveFails(c)
  <2>1. outcome' \in [CallNumbers -> Outcomes] /\ pc' \in [Callers -> Places]
    BY <1>3, <1>r, <1>o DEF LoadFails, SaveFails
  <2> QED
    BY <1>3, <2>1 DEF TypeOK, LoadFails, SaveFails, Places
<1>4. CASE ChainFails(c) \/ ChainSucceeds(c)
  <2>1. events' \in [CallNumbers -> Told]
    BY <1>4, <1>t, EventLists DEF ChainFails, ChainSucceeds
  <2>2. outcome' \in [CallNumbers -> Outcomes] /\ pc' \in [Callers -> Places]
    BY <1>4, <1>r, <1>g, <1>o DEF ChainFails, ChainSucceeds, Places, TypeOK
  <2> QED
    BY <1>4, <2>1, <2>2 DEF TypeOK, ChainFails, ChainSucceeds, Told, Places
<1>5. CASE AddUserMessage(c) \/ AddAIMessage(c)
  <2>1. call[c] \in CallNumbers
    BY <1>5, Busy DEF AddUserMessage, AddAIMessage
  <2>2. history' \in Seq(Message) /\ written' \in Seq(Message) /\ cleared' \in 0..Len(written')
    BY <1>5, <1>m, <2>1, MessageTypes DEF AddUserMessage, AddAIMessage
  <2>3. outcome' \in [CallNumbers -> Outcomes] /\ pc' \in [Callers -> Places]
    BY <1>5, <1>r, <1>g, <1>o DEF AddUserMessage, AddAIMessage, Places, TypeOK
  <2> QED
    BY <1>5, <2>2, <2>3 DEF TypeOK, AddUserMessage, AddAIMessage, Places
<1>6. CASE Check(c) \/ Prune(c)
  <2>1. outcome' \in [CallNumbers -> Outcomes] /\ pc' \in [Callers -> Places]
    BY <1>6, <1>r, <1>g, <1>o DEF Check, Prune, Places, TypeOK
  <2>2. cutMessages(history) \in Seq(Message)
    BY <1>a, CutProperties
  <2>3. history # <<>> => Tail(history) \in Seq(Message)
    BY <1>a, TailOfHistory
  <2>4. fetched' \in [Callers -> Seq(Message)]
    BY <1>6, <2>2, <2>3 DEF TypeOK, Check, Prune
  <2> QED
    BY <1>6, <2>1, <2>4 DEF TypeOK, Check, Prune, Places
<1>7. CASE \/ SetMessages(c) \/ SetMessagesFails(c)
           \/ ClearMessages(c) \/ InsertMessages(c) \/ PruneFails(c)
  <2>1. outcome' \in [CallNumbers -> Outcomes] /\ pc' \in [Callers -> Places]
    BY <1>7, <1>r, <1>g, <1>o DEF SetMessages, SetMessagesFails, ClearMessages,
                                  InsertMessages, PruneFails, AfterSet, Places, TypeOK
  <2>2. \A h \in HalfInserted(c) : history \o h \in Seq(Message)
    <3>1. HalfInserted(c) \subseteq Seq(Message)
      BY <1>a, HalfTypes
    <3> QED
      BY <1>a, <3>1, ConcatProperties
  <2>3. history \o fetched[c] \in Seq(Message) /\ <<>> \in Seq(Message)
    BY <1>a, ConcatProperties, EmptySeq
  <2>4. history' \in Seq(Message)
    BY <1>7, <1>a, <2>2, <2>3 DEF SetMessages, SetMessagesFails, ClearMessages,
                                  InsertMessages, PruneFails
  <2> QED
    <3>1. CASE SetMessagesFails(c)
      <4>1. open' \in BOOLEAN /\ store = "script" /\ Overwrite
        BY <3>1 DEF SetMessagesFails, TypeOK
      <4> QED
        BY <3>1, <4>1, <2>1, <2>4 DEF TypeOK, SetMessagesFails, Places
    <3>2. CASE ~SetMessagesFails(c)
      BY <1>7, <3>2, <2>1, <2>4 DEF TypeOK, SetMessages, ClearMessages, InsertMessages,
                                    PruneFails, Places
    <3> QED
      BY <3>1, <3>2
<1>8. CASE Clear(c)
  <2>1. history' \in Seq(Message)
    BY <1>8, <1>a, EmptySeq DEF Clear
  <2> QED
    BY <1>8, <1>a, <2>1 DEF TypeOK, Clear
<1> QED
  BY <1>1, <1>2, <1>3, <1>4, <1>5, <1>6, <1>7, <1>8 DEF Call, SaveContext
(***************************************************************************)
(* What a step does with calls and places: it begins a call, it takes a    *)
(* call one place further, it returns from it or it leaves them alone.     *)
(***************************************************************************)
Moves(c) ==
    /\ pc[c] # "idle"
    /\ \E p \in Places \ {"idle"} : Goto(c, p)
    /\ UNCHANGED <<call, calls, outcome>>

Returns(c) ==
    /\ pc[c] # "idle"
    /\ \E o \in Outcomes \ {"none"} : Return(c, o)
    /\ UNCHANGED <<call, calls>>

LEMMA Shape ==
    ASSUME NEW c \in Callers, Call(c) \/ Clear(c)
    PROVE  Begin(c) \/ Moves(c) \/ Returns(c) \/ UNCHANGED <<pc, call, calls, outcome>>
<1>1. CASE LoadMemoryVariables(c) \/ AddUserMessage(c) \/ ClearMessages(c)
  BY <1>1 DEF LoadMemoryVariables, AddUserMessage, ClearMessages, Moves, Places
<1>2. CASE \/ LoadFails(c) \/ ChainFails(c) \/ SaveFails(c) \/ SetMessagesFails(c)
           \/ PruneFails(c)
  BY <1>2 DEF LoadFails, ChainFails, SaveFails, SetMessagesFails, PruneFails, Returns, Outcomes
<1>3. CASE ChainSucceeds(c) \/ AddAIMessage(c)
  BY <1>3 DEF ChainSucceeds, AddAIMessage, Moves, Returns, Places, Outcomes
<1>4. CASE Check(c) \/ Prune(c)
  BY <1>4 DEF Check, Prune, Moves, Returns, Places, Outcomes
<1>5. CASE SetMessages(c) \/ InsertMessages(c)
  BY <1>5 DEF SetMessages, InsertMessages, AfterSet, Moves, Returns, Places, Outcomes
<1>6. CASE Clear(c)
  BY <1>6 DEF Clear
<1> QED
  BY <1>1, <1>2, <1>3, <1>4, <1>5, <1>6 DEF Call, SaveContext

LEMMA CallStep == ASSUME TypeOK, CallInv, [Next]_vars PROVE CallInv'
<1>0. CASE UNCHANGED vars
  BY <1>0 DEF CallInv, vars, Alone
<1> SUFFICES ASSUME NEW c \in Callers, Call(c) \/ Clear(c) PROVE CallInv'
  BY <1>0 DEF Next
<1>t. /\ call \in [Callers -> 0..MaxCalls] /\ calls \in 0..MaxCalls
      /\ pc \in [Callers -> Places] /\ outcome \in [CallNumbers -> Outcomes]
  BY DEF TypeOK, Places
<1>o. Alone => \A d \in Callers : d = c
  BY AloneIsOne
<1>1. CASE Begin(c)
  <2>1. /\ call' = [call EXCEPT ![c] = calls + 1] /\ calls' = calls + 1
        /\ pc' = [pc EXCEPT ![c] = "load"] /\ outcome' = outcome
        /\ calls + 1 \in CallNumbers
    BY <1>1, <1>t DEF Begin, Goto, CallNumbers
  <2>2. outcome[calls + 1] = "none"
    BY <2>1, <1>t DEF CallInv
  <2>3. call'[c] = calls + 1 /\ pc'[c] = "load"
        /\ \A d \in Callers \ {c} : call'[d] = call[d] /\ pc'[d] = pc[d]
    BY <2>1, <1>t
  <2>4. \A d \in Callers : call'[d] <= calls' /\ (pc'[d] # "idle" => call'[d] > 0)
    BY <2>1, <2>3, <1>t DEF CallInv
  <2>5. \A d \in Callers :
           call'[d] > 0 => (outcome'[call'[d]] = "none" <=> pc'[d] # "idle")
    BY <2>1, <2>2, <2>3, <1>t DEF CallInv
  <2>6. \A d, e \in Callers : call'[d] > 0 /\ call'[d] = call'[e] => d = e
    BY <2>1, <2>3, <1>t DEF CallInv
  <2>7. Alone => \A d \in Callers : call'[d] = calls'
    BY <2>1, <2>3, <1>o
  <2>8. \A n \in CallNumbers : n > calls' => outcome'[n] = "none"
    BY <2>1, <1>t DEF CallInv, CallNumbers
  <2>9. \A n \in CallNumbers : n <= calls' /\ outcome'[n] = "none" =>
           \E d \in Callers : call'[d] = n
    <3> SUFFICES ASSUME NEW n \in CallNumbers, n <= calls, outcome[n] = "none"
                 PROVE  \E d \in Callers : call'[d] = n
      BY <2>1, <2>3, <1>t DEF CallNumbers
    <3>1. PICK d \in Callers : call[d] = n
      BY DEF CallInv
    <3>2. d # c
      BY <3>1, <1>1, <1>t DEF CallInv, Begin, CallNumbers
    <3> QED
      BY <3>1, <3>2, <2>3
  <2> QED
    BY <2>4, <2>5, <2>6, <2>7, <2>8, <2>9 DEF CallInv, Alone
<1>2. CASE Moves(c)
  <2>1. \A d \in Callers : pc'[d] # "idle" <=> pc[d] # "idle"
    BY <1>2, <1>t DEF Moves, Goto
  <2> QED
    BY <1>2, <2>1 DEF Moves, CallInv, Alone
<1>3. CASE Returns(c)
  <2>1. PICK o \in Outcomes \ {"none"} : Return(c, o)
    BY <1>3 DEF Returns
  <2>2. /\ call' = call /\ calls' = calls /\ pc[c] # "idle"
        /\ pc'[c] = "idle" /\ \A d \in Callers \ {c} : pc'[d] = pc[d]
    BY <1>3, <2>1, <1>t DEF Returns, Return, Goto
  <2>3. /\ call[c] \in CallNumbers /\ call[c] <= calls
        /\ \A d \in Callers : call[d] = call[c] => d = c
    BY <2>2, Busy
  <2>4. /\ outcome'[call[c]] # "none"
        /\ \A n \in CallNumbers \ {call[c]} : outcome'[n] = outcome[n]
    BY <2>1, <2>3, <1>t DEF Return
  <2>5. \A d \in Callers \ {c} : call[d] > 0 => call[d] \in CallNumbers \ {call[c]}
    BY <2>3, <1>t DEF CallNumbers
  <2>6. \A d \in Callers :
           call'[d] > 0 => (outcome'[call'[d]] = "none" <=> pc'[d] # "idle")
    BY <2>2, <2>4, <2>5 DEF CallInv
  <2>7. \A d \in Callers : pc'[d] # "idle" => call'[d] > 0
    BY <2>2 DEF CallInv
  <2>8. \A n \in CallNumbers :
           /\ n > calls => outcome'[n] = "none"
           /\ n <= calls /\ outcome'[n] = "none" => \E d \in Callers : call[d] = n
    BY <2>3, <2>4, <1>t DEF CallInv, CallNumbers
  <2> QED
    BY <2>2, <2>6, <2>7, <2>8 DEF CallInv, Alone
<1>4. CASE UNCHANGED <<pc, call, calls, outcome>>
  BY <1>4 DEF CallInv, Alone
<1> QED
  BY <1>1, <1>2, <1>3, <1>4, Shape

LEMMA PlaceStep == ASSUME TypeOK, PlaceInv, [Next]_vars PROVE PlaceInv'
<1>0. CASE UNCHANGED vars
  BY <1>0 DEF PlaceInv, OneStep, vars, Alone
<1> SUFFICES ASSUME NEW c \in Callers, Call(c) \/ Clear(c) PROVE PlaceInv'
  BY <1>0 DEF Next
<1>t. pc \in [Callers -> Places] /\ kind \in {"simple", "buffer", "window", "token"}
  BY DEF TypeOK, Places
<1>k. kind' = kind /\ store' = store
  BY DEF Call, SaveContext, Begin, LoadMemoryVariables, LoadFails, ChainFails, ChainSucceeds,
         SaveFails, AddUserMessage, AddAIMessage, Check, Prune, SetMessages,
         SetMessagesFails, ClearMessages, InsertMessages, PruneFails, Clear
<1>o. Alone => \A d \in Callers : d = c
  BY AloneIsOne
<1>h. ASSUME NEW p \in Places, Goto(c, p), PlaceInv,
             p \in {"saveUser", "saveAI"} => kind # "simple",
             p \in {"check", "set", "insert"} => kind \in {"window", "token"},
             p = "prune" => kind = "token",
             p = "insert" => ~OneStep /\ history' = <<>>
      PROVE  PlaceInv'
  <2>1. pc'[c] = p /\ \A d \in Callers \ {c} : pc'[d] = pc[d]
    BY <1>h, <1>t DEF Goto
  <2>2. Alone' = Alone
    BY DEF Alone
  <2> QED
    BY <1>h, <1>k, <1>o, <2>1, <2>2 DEF PlaceInv, OneStep
<1>1. CASE Begin(c) \/ LoadMemoryVariables(c) \/ LoadFails(c) \/ ChainFails(c) \/ SaveFails(c)
  BY <1>1, <1>h DEF Begin, LoadMemoryVariables, LoadFails, ChainFails, SaveFails, Return, Places
<1>2. CASE ChainSucceeds(c) \/ AddUserMessage(c) \/ AddAIMessage(c)
  <2>1. CASE Goto(c, "idle")
    BY <2>1, <1>h DEF Places
  <2>2. CASE Goto(c, "saveUser") /\ kind # "simple"
    BY <2>2, <1>h DEF Places
  <2>3. CASE Goto(c, "saveAI") /\ kind # "simple"
    BY <2>3, <1>h DEF Places
  <2>4. CASE Goto(c, "check") /\ kind \in {"window", "token"}
    BY <2>4, <1>h DEF Places
  <2> QED
    BY <1>2, <2>1, <2>2, <2>3, <2>4
       DEF ChainSucceeds, AddUserMessage, AddAIMessage, Return, PlaceInv
<1>3. CASE \/ Check(c) \/ Prune(c) \/ SetMessages(c) \/ SetMessagesFails(c)
           \/ InsertMessages(c) \/ PruneFails(c)
  <2>1. CASE Goto(c, "idle")
    BY <2>1, <1>h DEF Places
  <2>2. CASE Goto(c, "set") /\ kind \in {"window", "token"}
    BY <2>2, <1>h DEF Places
  <2>3. CASE Goto(c, "prune") /\ kind = "token"
    BY <2>3, <1>h DEF Places
  <2>4. CASE Goto(c, "check") /\ kind \in {"window", "token"}
    BY <2>4, <1>h DEF Places
  <2> QED
    BY <1>3, <2>1, <2>2, <2>3, <2>4
       DEF Check, Prune, SetMessages, SetMessagesFails, InsertMessages, PruneFails, AfterSet,
           Return, PlaceInv
<1>4. CASE ClearMessages(c)
  BY <1>4, <1>h DEF ClearMessages, PlaceInv, Places
<1>5. CASE Clear(c)
  <2>1. pc' = pc /\ (Alone => pc[c] = "idle") /\ Alone' = Alone
    BY <1>5 DEF Clear, Alone
  <2> QED
    BY <1>k, <1>o, <2>1 DEF PlaceInv, OneStep
<1> QED
  BY <1>1, <1>2, <1>3, <1>4, <1>5 DEF Call, SaveContext
LEMMA EventsStep == ASSUME TypeOK, CallInv, EventsInv, [Next]_vars PROVE EventsInv'
<1>0. CASE UNCHANGED vars
  BY <1>0 DEF EventsInv, vars
<1> SUFFICES ASSUME NEW c \in Callers, Call(c) \/ Clear(c) PROVE EventsInv'
  BY <1>0 DEF Next
<1>t. /\ call \in [Callers -> 0..MaxCalls] /\ calls \in 0..MaxCalls
      /\ pc \in [Callers -> Places] /\ outcome \in [CallNumbers -> Outcomes]
      /\ events \in [CallNumbers -> Told]
  BY DEF TypeOK, Places, Told
<1> DEFINE At(p) == CASE p = "load" -> <<>>
                      [] p = "run" -> <<"start">>
                      [] OTHER -> <<"start", "end">>
<1>b. ASSUME pc[c] # "idle"
      PROVE  /\ call[c] \in CallNumbers /\ call[c] <= calls
             /\ events[call[c]] = At(pc[c])
             /\ \A d \in Callers : call[d] = call[c] => d = c
  BY <1>b, Busy DEF EventsInv
<1>e. ASSUME NEW es \in Told, pc[c] # "idle", Tell(c, es)
      PROVE  /\ events'[call[c]] = events[call[c]] \o es
             /\ \A n \in CallNumbers \ {call[c]} : events'[n] = events[n]
  BY <1>e, <1>b, <1>t DEF Tell
<1>m. ASSUME NEW p \in Places \ {"idle"}, pc[c] # "idle", Goto(c, p),
             UNCHANGED <<call, calls, outcome>>,
             events'[call[c]] = At(p),
             \A n \in CallNumbers \ {call[c]} : events'[n] = events[n]
      PROVE  EventsInv'
  <2>1. pc'[c] = p /\ \A d \in Callers \ {c} : pc'[d] = pc[d]
    BY <1>m, <1>t DEF Goto
  <2>2. \A d \in Callers \ {c} : pc[d] # "idle" =>
           call[d] \in CallNumbers \ {call[c]} /\ events'[call[d]] = events[call[d]]
    BY <1>m, <1>b, Busy
  <2>3. \A d \in Callers : pc'[d] # "idle" => events'[call'[d]] = At(pc'[d])
    BY <1>m, <2>1, <2>2 DEF EventsInv
  <2>4. outcome[call[c]] = "none"
    BY <1>m, Busy
  <2>5. \A n \in CallNumbers :
          /\ n > calls' => events'[n] = <<>>
          /\ outcome'[n] = "loadError" => events'[n] = <<>>
          /\ outcome'[n] = "chainError" => events'[n] = <<"start", "error">>
          /\ outcome'[n] \in {"ok", "saveError"} => events'[n] = <<"start", "end">>
    BY <1>m, <1>b, <2>4, <1>t DEF EventsInv, CallNumbers
  <2> QED
    BY <2>3, <2>5 DEF EventsInv
<1>r. ASSUME NEW o \in Outcomes \ {"none"}, pc[c] # "idle", Return(c, o),
             UNCHANGED <<call, calls>>,
             \A n \in CallNumbers \ {call[c]} : events'[n] = events[n],
             o = "loadError" => events'[call[c]] = <<>>,
             o = "chainError" => events'[call[c]] = <<"start", "error">>,
             o \in {"ok", "saveError"} => events'[call[c]] = <<"start", "end">>
      PROVE  EventsInv'
  <2>1. pc'[c] = "idle" /\ \A d \in Callers \ {c} : pc'[d] = pc[d]
    BY <1>r, <1>t DEF Goto, Return
  <2>2. \A d \in Callers \ {c} : pc[d] # "idle" =>
           call[d] \in CallNumbers \ {call[c]} /\ events'[call[d]] = events[call[d]]
    BY <1>r, <1>b, Busy
  <2>3. \A d \in Callers : pc'[d] # "idle" => events'[call'[d]] = At(pc'[d])
    BY <1>r, <2>1, <2>2 DEF EventsInv
  <2>4. outcome'[call[c]] = o /\ \A n \in CallNumbers \ {call[c]} : outcome'[n] = outcome[n]
    BY <1>r, <1>b, <1>t DEF Return
  <2>5. \A n \in CallNumbers :
          /\ n > calls' => events'[n] = <<>>
          /\ outcome'[n] = "loadError" => events'[n] = <<>>
          /\ outcome'[n] = "chainError" => events'[n] = <<"start", "error">>
          /\ outcome'[n] \in {"ok", "saveError"} => events'[n] = <<"start", "end">>
    BY <1>r, <1>b, <2>4, <1>t DEF EventsInv, CallNumbers
  <2> QED
    BY <2>3, <2>5 DEF EventsInv
<1>1. CASE Begin(c)
  <2>1. /\ call' = [call EXCEPT ![c] = calls + 1] /\ calls' = calls + 1
        /\ pc' = [pc EXCEPT ![c] = "load"] /\ UNCHANGED <<outcome, events>>
        /\ calls + 1 \in CallNumbers /\ calls + 1 > calls
    BY <1>1, <1>t DEF Begin, Goto, CallNumbers
  <2>2. call'[c] = calls + 1 /\ pc'[c] = "load"
        /\ \A d \in Callers \ {c} : call'[d] = call[d] /\ pc'[d] = pc[d]
    BY <2>1, <1>t
  <2>3. \A d \in Callers : pc'[d] # "idle" => events'[call'[d]] = At(pc'[d])
    BY <2>1, <2>2, <1>t DEF EventsInv
  <2>4. \A n \in CallNumbers : n > calls' => n > calls
    BY <2>1, <1>t DEF CallNumbers
  <2> QED
    BY <2>1, <2>3, <2>4 DEF EventsInv
<1>2. CASE LoadMemoryVariables(c)
  BY <1>2, <1>b, <1>e, <1>m, EventLists DEF LoadMemoryVariables, Places
<1>3. CASE LoadFails(c)
  BY <1>3, <1>b, <1>r DEF LoadFails, Outcomes
<1>4. CASE ChainFails(c)
  BY <1>4, <1>b, <1>e, <1>r, EventLists DEF ChainFails, Outcomes
<1>5. CASE ChainSucceeds(c)
  <2>1. /\ pc[c] # "idle" /\ events'[call[c]] = <<"start", "end">>
        /\ \A n \in CallNumbers \ {call[c]} : events'[n] = events[n]
    BY <1>5, <1>b, <1>e, EventLists DEF ChainSucceeds
  <2> QED
    BY <1>5, <2>1, <1>r, <1>m DEF ChainSucceeds, Outcomes, Places
<1>6. CASE SaveContext(c)
  <2>1. /\ events' = events
        /\ pc[c] \in {"saveUser", "saveAI", "check", "prune", "set", "insert"}
        /\ UNCHANGED <<call, calls>>
        /\ \/ \E p \in {"saveAI", "check", "prune", "set", "insert"} :
                Goto(c, p) /\ outcome' = outcome
           \/ \E o \in {"ok", "saveError"} : Return(c, o)
    BY <1>6 DEF SaveContext, SaveFails, AddUserMessage, AddAIMessage, Check, Prune, SetMessages,
         SetMessagesFails, ClearMessages, InsertMessages, PruneFails, AfterSet
  <2>2. events'[call[c]] = <<"start", "end">>
    BY <2>1, <1>b
  <2>3. CASE \E p \in {"saveAI", "check", "prune", "set", "insert"} :
                Goto(c, p) /\ outcome' = outcome
    BY <2>1, <2>2, <2>3, <1>m DEF Places
  <2>4. CASE \E o \in {"ok", "saveError"} : Return(c, o)
    BY <2>1, <2>2, <2>4, <1>r DEF Outcomes
  <2> QED
    BY <2>1, <2>3, <2>4
<1>7. CASE Clear(c)
  BY <1>7 DEF Clear, EventsInv
<1> QED
  BY <1>1, <1>2, <1>3, <1>4, <1>5, <1>6, <1>7 DEF Call

(* What is in a sequence of messages after one more.                       *)
LEMMA Appended ==
    ASSUME NEW s \in Seq(Message), NEW m \in Message
    PROVE  /\ Append(s, m) \in Seq(Message) /\ Append(s, m) # <<>>
           /\ Len(s) \in Nat /\ Len(Append(s, m)) = Len(s) + 1
           /\ DOMAIN s = 1..Len(s) /\ DOMAIN Append(s, m) = 1..(Len(s) + 1)
           /\ \A i \in DOMAIN s : i \in DOMAIN Append(s, m) /\ Append(s, m)[i] = s[i]
           /\ Append(s, m)[Len(s) + 1] = m
           /\ \A i \in DOMAIN Append(s, m) : i \in DOMAIN s \/ i = Len(s) + 1
<1>1. Len(s) \in Nat /\ DOMAIN s = 1..Len(s)
  BY LenProperties
<1>2. /\ Append(s, m) \in Seq(Message) /\ Append(s, m) # <<>>
      /\ Len(Append(s, m)) = Len(s) + 1
      /\ \A i \in 1..Len(s) : Append(s, m)[i] = s[i]
      /\ Append(s, m)[Len(s) + 1] = m
  BY AppendProperties
<1>3. DOMAIN Append(s, m) = 1..(Len(s) + 1)
  BY <1>2, LenProperties
<1> QED
  BY <1>1, <1>2, <1>3

(* The messages of a call in hand are new.                                 *)
LEMMA Fresh ==
    ASSUME TypeOK, CallInv, WrittenInv, NEW c \in Callers, NEW m,
           \/ pc[c] = "saveUser" /\ m = Human(call[c])
           \/ pc[c] = "saveAI" /\ m = AI(call[c])
    PROVE  m \in Message /\ m.call = call[c] /\ \A i \in DOMAIN written : written[i] # m
<1>1. call[c] \in CallNumbers
  BY Busy
<1>2. m \in Message
  BY <1>1, MessageTypes
<1>3. m.call = call[c]
  BY DEF Human, AI
<1>4. \A i \in DOMAIN written : written[i] # m
  BY <1>3 DEF WrittenInv
<1> QED
  BY <1>2, <1>3, <1>4

LEMMA WrittenStep == ASSUME TypeOK, CallInv, WrittenInv, [Next]_vars PROVE WrittenInv'
<1>0. CASE UNCHANGED vars
  BY <1>0 DEF WrittenInv, vars
<1> SUFFICES ASSUME NEW c \in Callers, Call(c) \/ Clear(c) PROVE WrittenInv'
  BY <1>0 DEF Next
<1>t. /\ call \in [Callers -> 0..MaxCalls] /\ calls \in 0..MaxCalls
      /\ pc \in [Callers -> Places] /\ written \in Seq(Message)
      /\ DOMAIN written = 1..Len(written) /\ Len(written) \in Nat
      /\ \A i \in DOMAIN written : written[i] \in Message /\ written[i].call \in CallNumbers
  <2>1. written \in Seq(Message)
    BY DEF TypeOK
  <2>2. Len(written) \in Nat /\ DOMAIN written = 1..Len(written)
        /\ \A i \in DOMAIN written : written[i] \in Message
    BY <2>1, LenProperties
  <2>3. \A m \in Message : m.call \in CallNumbers
    BY DEF Message
  <2> QED
    BY <2>1, <2>2, <2>3 DEF TypeOK, Places
<1>1. CASE Begin(c)
  <2>1. /\ call'[c] = calls + 1 /\ calls' = calls + 1 /\ written' = written
        /\ \A d \in Callers \ {c} : call'[d] = call[d] /\ pc'[d] = pc[d]
    BY <1>1, <1>t DEF Begin, Goto
  <2>2. \A i \in DOMAIN written : written[i].call <= calls /\ written[i].call \in CallNumbers
    BY <1>t DEF WrittenInv
  <2>3. \A i \in DOMAIN written : written[i].call # call'[c] /\ written[i].call <= calls'
    BY <1>t, <2>1, <2>2 DEF CallNumbers
  <2>4. \A i \in DOMAIN written : written[i] # AI(call'[c])
    BY <2>3 DEF AI
  <2> QED
    BY <2>1, <2>3, <2>4 DEF WrittenInv
<1>2. CASE LoadMemoryVariables(c) \/ ChainSucceeds(c)
  <2>1. /\ UNCHANGED <<call, calls, written>> /\ pc[c] \in {"load", "run"}
        /\ pc'[c] \in {"run", "saveUser", "idle"}
        /\ \A d \in Callers \ {c} : pc'[d] = pc[d]
    BY <1>2, <1>t DEF LoadMemoryVariables, ChainSucceeds, Goto, Return
  <2> QED
    BY <2>1 DEF WrittenInv
<1>3. CASE AddUserMessage(c) \/ AddAIMessage(c)
  <2> DEFINE m == IF pc[c] = "saveUser" THEN Human(call[c]) ELSE AI(call[c])
  <2>1. /\ UNCHANGED <<call, calls>> /\ written' = Append(written, m)
        /\ pc[c] \in {"saveUser", "saveAI"}
        /\ pc[c] = "saveUser" => pc'[c] = "saveAI"
        /\ pc[c] = "saveAI" => pc'[c] \in {"idle", "check"}
        /\ \A d \in Callers \ {c} : pc'[d] = pc[d]
    BY <1>3, <1>t DEF AddUserMessage, AddAIMessage, Goto, Return, Add
  <2>2. m \in Message /\ m.call = call[c] /\ \A i \in DOMAIN written : written[i] # m
    BY <2>1, Fresh
  <2>3. /\ call[c] \in CallNumbers /\ call[c] <= calls
        /\ \A d \in Callers : call[d] = call[c] => d = c
    BY <2>1, Busy
  <2>m. \/ m = Human(call[c]) /\ pc[c] = "saveUser"
        \/ m = AI(call[c]) /\ pc[c] = "saveAI"
    BY <2>1
  <2> HIDE DEF m
  <2>4. /\ \A i \in DOMAIN written : i \in DOMAIN written' /\ written'[i] = written[i]
        /\ written'[Len(written) + 1] = m
        /\ \A i \in DOMAIN written' : i \in DOMAIN written \/ i = Len(written) + 1
    BY <2>1, <2>2, <1>t, Appended
  <2>5. \A i, j \in DOMAIN written' : written'[i] = written'[j] => i = j
    BY <2>2, <2>4 DEF WrittenInv
  <2>6. \A i \in DOMAIN written' : written'[i].call <= calls'
    BY <2>1, <2>2, <2>3, <2>4 DEF WrittenInv
  <2>7. ASSUME NEW d \in Callers \ {c}, NEW i \in DOMAIN written'
        PROVE  /\ pc'[d] \in {"load", "run", "saveUser"} => written'[i].call # call'[d]
               /\ pc'[d] = "saveAI" => written'[i] # AI(call'[d])
    <3>1. CASE i \in DOMAIN written
      BY <2>1, <2>4, <3>1 DEF WrittenInv
    <3>2. CASE i = Len(written) + 1
      BY <2>1, <2>2, <2>3, <2>4, <3>2 DEF AI
    <3> QED
      BY <2>4, <3>1, <3>2
  <2>8. ASSUME NEW i \in DOMAIN written'
        PROVE  /\ pc'[c] \notin {"load", "run", "saveUser"}
               /\ pc'[c] = "saveAI" => written'[i] # AI(call'[c])
    <3>1. CASE i \in DOMAIN written
      BY <2>1, <2>4, <3>1 DEF WrittenInv, AI
    <3>2. CASE i = Len(written) + 1
      BY <2>1, <2>m, <2>4, <3>2 DEF AI, Human
    <3> QED
      BY <2>1, <2>4, <3>1, <3>2
  <2> QED
    BY <2>5, <2>6, <2>7, <2>8 DEF WrittenInv
<1>4. CASE \/ LoadFails(c) \/ ChainFails(c) \/ SaveFails(c) \/ Check(c) \/ Prune(c)
           \/ SetMessages(c) \/ SetMessagesFails(c) \/ ClearMessages(c)
           \/ InsertMessages(c) \/ PruneFails(c)
  <2>1. /\ UNCHANGED <<call, calls, written>>
        /\ pc'[c] \in {"idle", "check", "prune", "set", "insert"}
        /\ \A d \in Callers \ {c} : pc'[d] = pc[d]
    BY <1>4, <1>t DEF LoadFails, ChainFails, SaveFails, Check, Prune, SetMessages,
         SetMessagesFails, ClearMessages, InsertMessages, PruneFails, AfterSet, Goto, Return
  <2> QED
    BY <2>1 DEF WrittenInv
<1>5. CASE Clear(c)
  BY <1>5 DEF Clear, WrittenInv
<1> QED
  BY <1>1, <1>2, <1>3, <1>4, <1>5 DEF Call, SaveContext
-----------------------------------------------------------------------------
(* A step of one caller leaves the rest of the state of the others alone.  *)
LEMMA Others ==
    ASSUME TypeOK, NEW c \in Callers, Call(c) \/ Clear(c)
    PROVE  /\ kind' = kind /\ store' = store
           /\ \A d \in Callers \ {c} :
                 /\ pc'[d] = pc[d] /\ call'[d] = call[d]
                 /\ loaded'[d] = loaded[d] /\ fetched'[d] = fetched[d]
<1>1. /\ kind' = kind /\ store' = store
      /\ pc' = pc \/ (\E p \in Places : Goto(c, p))
      /\ call' = call \/ call' = [call EXCEPT ![c] = calls + 1]
      /\ loaded' = loaded \/ (\E s \in {<<>>, Loadable} : loaded' = [loaded EXCEPT ![c] = s])
      /\ fetched' = fetched \/ (\E s \in {<<>>, cutMessages(history), Tail(history)} :
                                   fetched' = [fetched EXCEPT ![c] = s])
  <2>1. CASE Begin(c)
    BY <2>1 DEF Begin, Places
  <2>2. CASE LoadMemoryVariables(c) \/ LoadFails(c) \/ ChainFails(c) \/ ChainSucceeds(c)
    BY <2>2 DEF LoadMemoryVariables, LoadFails, ChainFails, ChainSucceeds, Return, Places
  <2>3. CASE SaveFails(c) \/ AddUserMessage(c) \/ AddAIMessage(c)
    BY <2>3 DEF SaveFails, AddUserMessage, AddAIMessage, Return, Places
  <2>4. CASE Check(c) \/ Prune(c)
    BY <2>4 DEF Check, Prune, Return, Places
  <2>5. CASE \/ SetMessages(c) \/ SetMessagesFails(c) \/ ClearMessages(c)
             \/ InsertMessages(c) \/ PruneFails(c)
    BY <2>5 DEF SetMessages, SetMessagesFails, ClearMessages, InsertMessages, PruneFails,
                AfterSet, Return, Places
  <2>6. CASE Clear(c)
    BY <2>6 DEF Clear
  <2> QED
    BY <2>1, <2>2, <2>3, <2>4, <2>5, <2>6 DEF Call, SaveContext
<1> QED
  BY <1>1 DEF Goto, TypeOK

(* What a step does with the messages.                                     *)
Stays == UNCHANGED <<history, written, cleared>>

Keeps(c) ==
    /\ Stays
    /\ pc'[c] \notin {"set", "insert"}
    /\ pc[c] = "saveAI" => Return(c, "saveError")

Adds(c) ==
    /\ \/ pc[c] = "saveUser" /\ Add(Human(call[c])) /\ pc'[c] = "saveAI" /\ outcome' = outcome
       \/ pc[c] = "saveAI" /\ Add(AI(call[c])) /\ pc'[c] \in {"idle", "check"}
    /\ UNCHANGED <<cleared, fetched>>

Fetches(c) ==
    /\ Stays /\ outcome' = outcome
    /\ pc'[c] = "set"
    /\ \/ pc[c] = "check" /\ kind = "window" /\ fetched'[c] = cutMessages(history)
       \/ /\ pc[c] = "prune" /\ kind = "token"
          /\ history # <<>> /\ fetched'[c] = Tail(history)

HalfInserts(c) ==
    /\ pc[c] = "insert"
    /\ \E h \in HalfInserted(c) : history' = history \o h
    /\ Return(c, "saveError")
    /\ UNCHANGED <<written, cleared, fetched>>

LEMMA Effect ==
    ASSUME TypeOK, PlaceInv, NEW c \in Callers, Call(c) \/ Clear(c)
    PROVE  \/ Keeps(c) \/ Adds(c) \/ Fetches(c)
           \/ SetMessages(c) \/ SetMessagesFails(c)
           \/ ClearMessages(c) \/ InsertMessages(c) \/ HalfInserts(c)
           \/ Clear(c)
<1>t. /\ pc \in [Callers -> Places] /\ fetched \in [Callers -> Seq(Message)]
  BY DEF TypeOK, Places
<1>1. CASE Begin(c) \/ LoadMemoryVariables(c) \/ LoadFails(c) \/ ChainFails(c) \/ ChainSucceeds(c)
  BY <1>1, <1>t DEF Begin, LoadMemoryVariables, LoadFails, ChainFails, ChainSucceeds, Return,
                    Goto, Stays, Keeps
<1>2. CASE SaveFails(c)
  BY <1>2, <1>t DEF SaveFails, Return, Goto, Stays, Keeps
<1>3. CASE AddUserMessage(c) \/ AddAIMessage(c)
  BY <1>3, <1>t DEF AddUserMessage, AddAIMessage, Return, Goto, Adds
<1>4. CASE Check(c) \/ Prune(c)
  <2>1. Stays /\ pc[c] \in {"check", "prune"}
    BY <1>4 DEF Check, Prune, Stays
  <2>2. CASE Goto(c, "idle") \/ Goto(c, "prune")
    BY <2>1, <2>2, <1>t DEF Goto, Keeps
  <2>3. CASE /\ pc[c] = "check" /\ kind = "window" /\ Goto(c, "set") /\ outcome' = outcome
             /\ fetched' = [fetched EXCEPT ![c] = cutMessages(history)]
    BY <2>1, <2>3, <1>t DEF Goto, Fetches
  <2>4. CASE /\ pc[c] = "prune" /\ history # <<>> /\ Goto(c, "set") /\ outcome' = outcome
             /\ fetched' = [fetched EXCEPT ![c] = Tail(history)]
    BY <2>1, <2>4, <1>t DEF Goto, Fetches, PlaceInv
  <2> QED
    BY <1>4, <2>2, <2>3, <2>4 DEF Check, Prune, Return
<1>5. CASE PruneFails(c)
  <2>1. CASE pc[c] = "insert"
    BY <1>5, <2>1 DEF PruneFails, HalfInserts
  <2>2. CASE pc[c] # "insert"
    BY <1>5, <2>2, <1>t DEF PruneFails, Return, Goto, Stays, Keeps
  <2> QED
    BY <2>1, <2>2
<1> QED
  BY <1>1, <1>2, <1>3, <1>4, <1>5 DEF Call, SaveContext
-----------------------------------------------------------------------------
(***************************************************************************)
(* The order of messages.  s is in the order of w if every element of s is *)
(* in w and earlier elements of s come earlier in w.                       *)
(***************************************************************************)
Ordered(s, w) ==
    /\ \A j \in DOMAIN s : \E i \in DOMAIN w : w[i] = s[j]
    /\ \A j, k \in DOMAIN s : \A a, b \in DOMAIN w :
          j < k /\ w[a] = s[j] /\ w[b] = s[k] => a < b

LEMMA OrderedPart ==
    ASSUME NEW s \in Seq(Message), NEW w \in Seq(Message), NEW t \in Seq(Message),
           NEW k \in Nat, Ordered(s, w),
           \A j \in DOMAIN t : j + k \in DOMAIN s /\ t[j] = s[j + k]
    PROVE  Ordered(t, w)
<1>1. DOMAIN t = 1..Len(t) /\ Len(t) \in Nat
  BY LenProperties
<1>2. \A j, l \in DOMAIN t : j < l => j + k < l + k
  BY <1>1
<1> QED
  BY <1>2 DEF Ordered

LEMMA OrderedGrows ==
    ASSUME NEW s \in Seq(Message), NEW w \in Seq(Message), NEW m \in Message,
           Ordered(s, w), \A i \in DOMAIN w : w[i] # m
    PROVE  Ordered(s, Append(w, m)) /\ Ordered(Append(s, m), Append(w, m))
<1> DEFINE v == Append(w, m)  t == Append(s, m)
<1>w. /\ Len(w) \in Nat /\ DOMAIN w = 1..Len(w) /\ DOMAIN v = 1..(Len(w) + 1)
      /\ \A i \in DOMAIN w : i \in DOMAIN v /\ v[i] = w[i]
      /\ v[Len(w) + 1] = m /\ Len(w) + 1 \in DOMAIN v
      /\ \A i \in DOMAIN v : i \in DOMAIN w \/ i = Len(w) + 1
  BY Appended
<1>s. /\ Len(s) \in Nat /\ DOMAIN s = 1..Len(s) /\ DOMAIN t = 1..(Len(s) + 1)
      /\ \A i \in DOMAIN s : i \in DOMAIN t /\ t[i] = s[i]
      /\ t[Len(s) + 1] = m
      /\ \A i \in DOMAIN t : i \in DOMAIN s \/ i = Len(s) + 1
  BY Appended
<1> HIDE DEF v, t
<1>1. \A j \in DOMAIN s : s[j] # m
  BY DEF Ordered
<1>2. \A j \in DOMAIN s : \A a \in DOMAIN v : v[a] = s[j] => a \in DOMAIN w /\ w[a] = s[j]
  BY <1>w, <1>1
<1>3. Ordered(s, v)
  BY <1>w, <1>2 DEF Ordered
<1>4. \A j \in DOMAIN t : \E i \in DOMAIN v : v[i] = t[j]
  BY <1>w, <1>s, <1>3 DEF Ordered
<1>5. ASSUME NEW j \in DOMAIN t, NEW k \in DOMAIN t, NEW a \in DOMAIN v, NEW b \in DOMAIN v,
             j < k, v[a] = t[j], v[b] = t[k]
      PROVE  a < b
  <2>1. j \in DOMAIN s
    BY <1>5, <1>s
  <2>2. CASE k \in DOMAIN s
    BY <1>5, <1>s, <1>3, <2>1, <2>2 DEF Ordered
  <2>3. CASE k = Len(s) + 1
    <3>1. a \in DOMAIN w
      BY <1>5, <1>s, <1>2, <2>1
    <3>2. b = Len(w) + 1
      BY <1>5, <1>s, <1>w, <2>3
    <3> QED
      BY <3>1, <3>2, <1>w
  <2> QED
    BY <2>2, <2>3, <1>s
<1>6. Ordered(t, v)
  BY <1>4, <1>5 DEF Ordered
<1> QED
  BY <1>3, <1>6 DEF v, t

LEMMA OrderStep ==
    ASSUME TypeOK, CallInv, PlaceInv, WrittenInv, OrderInv, [Next]_vars
    PROVE  OrderInv'
<1>0. CASE UNCHANGED vars
  BY <1>0 DEF OrderInv, InOrder, Replacing, Alone, OneStep, vars
<1> SUFFICES ASSUME NEW c \in Callers, Call(c) \/ Clear(c), Alone \/ OneStep
             PROVE  /\ Ordered(history', written')
                    /\ \A d \in Callers : pc'[d] \in {"set", "insert"} =>
                          Ordered(fetched'[d], written')
  <2>1. store' = store /\ Alone' = Alone
    <3>1. CASE UNCHANGED vars
      BY <3>1 DEF vars, Alone
    <3>2. CASE Next
      BY <3>2, Others DEF Next, Alone
    <3> QED
      BY <3>1, <3>2
  <2> QED
    BY <1>0, <2>1 DEF OrderInv, InOrder, Ordered, Replacing, Next, OneStep
<1>t. /\ history \in Seq(Message) /\ written \in Seq(Message)
      /\ fetched \in [Callers -> Seq(Message)] /\ pc \in [Callers -> Places]
  BY DEF TypeOK, Places
<1>o. /\ Ordered(history, written)
      /\ \A d \in Callers : pc[d] \in {"set", "insert"} => Ordered(fetched[d], written)
  BY DEF OrderInv, InOrder, Ordered, Replacing
<1>e. Ordered(<<>>, written)
  BY EmptySeq DEF Ordered
<1>d. \A d \in Callers \ {c} : pc'[d] = pc[d] /\ fetched'[d] = fetched[d]
  BY Others
<1>1. CASE Keeps(c)
  BY <1>1, <1>o, <1>d DEF Keeps, Stays
<1>2. CASE Adds(c)
  <2>1. PICK m : /\ history' = Append(history, m) /\ written' = Append(written, m)
                 /\ \/ pc[c] = "saveUser" /\ m = Human(call[c])
                    \/ pc[c] = "saveAI" /\ m = AI(call[c])
    BY <1>2 DEF Adds, Add
  <2>2. m \in Message /\ \A i \in DOMAIN written : written[i] # m
    BY <2>1, Fresh
  <2>3. pc'[c] \notin {"set", "insert"}
    BY <1>2 DEF Adds
  <2>4. Ordered(history', written')
    BY <1>t, <1>o, <2>1, <2>2, OrderedGrows
  <2>5. \A d \in Callers \ {c} : pc'[d] \in {"set", "insert"} =>
           Ordered(fetched'[d], written')
    BY <1>t, <1>o, <1>d, <2>1, <2>2, OrderedGrows
  <2> QED
    BY <2>3, <2>4, <2>5
<1>3. CASE Fetches(c)
  <2>1. Ordered(fetched'[c], written)
    <3>1. CASE fetched'[c] = cutMessages(history)
      <4> DEFINE k == Len(history) - Len(cutMessages(history))
      <4>1. /\ k \in Nat /\ cutMessages(history) \in Seq(Message)
            /\ \A j \in DOMAIN cutMessages(history) :
                  /\ j + k \in DOMAIN history
                  /\ cutMessages(history)[j] = history[j + k]
        <5>1. /\ cutMessages(history) \in Seq(Message)
              /\ Len(cutMessages(history)) <= Len(history)
              /\ \A j \in DOMAIN cutMessages(history) :
                   /\ k + j \in DOMAIN history
                   /\ cutMessages(history)[j] = history[k + j]
          BY <1>t, CutProperties
        <5>2. /\ Len(history) \in Nat /\ Len(cutMessages(history)) \in Nat
              /\ DOMAIN cutMessages(history) = 1..Len(cutMessages(history))
          BY <1>t, <5>1, LenProperties
        <5>3. k \in Nat /\ \A j \in DOMAIN cutMessages(history) : j + k = k + j
          BY <5>1, <5>2
        <5> QED
          BY <5>1, <5>3
      <4> HIDE DEF k
      <4> QED
        BY <3>1, <4>1, <1>t, <1>o, OrderedPart
    <3>2. CASE history # <<>> /\ fetched'[c] = Tail(history)
      <4>1. /\ Tail(history) \in Seq(Message)
            /\ DOMAIN history = 1..Len(history) /\ DOMAIN Tail(history) = 1..(Len(history) - 1)
            /\ Len(history) \in Nat
            /\ \A j \in DOMAIN Tail(history) : Tail(history)[j] = history[j + 1]
        BY <1>t, <3>2, TailOfHistory
      <4>2. \A j \in DOMAIN Tail(history) : j + 1 \in DOMAIN history
        BY <4>1
      <4> QED
        BY <3>2, <4>1, <4>2, <1>t, <1>o, OrderedPart
    <3> QED
      BY <1>3, <3>1, <3>2 DEF Fetches
  <2> QED
    BY <1>3, <1>o, <1>d, <2>1 DEF Fetches, Stays
<1>4. CASE SetMessages(c)
  BY <1>4, <1>o, <1>d DEF SetMessages
<1>5. CASE ClearMessages(c)
  BY <1>5, <1>o, <1>d, <1>e DEF ClearMessages
<1>6. CASE InsertMessages(c)
  <2>1. pc[c] = "insert" /\ history = <<>> /\ fetched[c] \in Seq(Message)
    BY <1>6, <1>t DEF InsertMessages, PlaceInv
  <2>2. history' = fetched[c] /\ written' = written /\ fetched' = fetched
    BY <1>6, <2>1, ConcatEmptySeq DEF InsertMessages
  <2> QED
    BY <1>o, <1>d, <2>1, <2>2
<1>7. CASE HalfInserts(c)
  <2>1. pc[c] = "insert" /\ history = <<>> /\ fetched[c] \in Seq(Message)
    BY <1>7, <1>t DEF HalfInserts, PlaceInv
  <2>2. PICK h \in HalfInserted(c) : history' = history \o h
    BY <1>7 DEF HalfInserts
  <2>3. h \in Seq(Message) /\ \A j \in DOMAIN h : j + 0 \in DOMAIN fetched[c]
                                                 /\ h[j] = fetched[c][j + 0]
    <3>1. h \in Seq(Message) /\ DOMAIN h = 1..Len(h) /\ Len(h) \in Nat
      BY <2>1, HalfTypes, LenProperties
    <3>2. \A j \in DOMAIN h : j + 0 = j
      BY <3>1
    <3> QED
      BY <2>1, <3>1, <3>2, HalfTypes
  <2>4. Ordered(h, written)
    BY <1>o, <1>t, <2>1, <2>3, OrderedPart, 0 \in Nat
  <2>5. history' = h
    BY <2>1, <2>2, <2>3, ConcatEmptySeq
  <2> QED
    BY <1>7, <1>o, <1>d, <2>1, <2>4, <2>5 DEF HalfInserts
<1>8. CASE Clear(c)
  BY <1>8, <1>o, <1>d, <1>e DEF Clear
<1>9. CASE SetMessagesFails(c)
  <2>1. /\ pc[c] = "set" /\ pc'[c] = "idle" /\ UNCHANGED <<written, cleared, fetched>>
        /\ history' \in {history, <<>>, fetched[c]}
    BY <1>9, <1>t DEF SetMessagesFails, Return, Goto
  <2> QED
    BY <2>1, <1>o, <1>d, <1>e
<1> QED
  BY <1>1, <1>2, <1>3, <1>4, <1>5, <1>6, <1>7, <1>8, <1>9, Effect
-----------------------------------------------------------------------------
(* A failed save stays failed, so KeepsOrder is never regained.            *)
LEMMA FailedStaysFailed ==
    ASSUME TypeOK, CallInv, NEW c \in Callers, Call(c) \/ Clear(c)
    PROVE  /\ \A n \in CallNumbers : outcome[n] = "saveError" => outcome'[n] = "saveError"
           /\ KeepsOrder' => KeepsOrder
<1>t. outcome \in [CallNumbers -> Outcomes]
  BY DEF TypeOK
<1>1. \A n \in CallNumbers : outcome[n] = "saveError" => outcome'[n] = "saveError"
  <2>1. CASE outcome' = outcome
    BY <2>1
  <2>2. CASE Returns(c)
    <3>1. PICK o \in Outcomes : outcome' = [outcome EXCEPT ![call[c]] = o]
      BY <2>2 DEF Returns, Return
    <3>2. outcome[call[c]] = "none" /\ call[c] \in CallNumbers
      BY <2>2, Busy DEF Returns
    <3> QED
      BY <3>1, <3>2, <1>t
  <2> QED
    BY <2>1, <2>2, Shape DEF Begin, Moves
<1>2. store' = store
  BY Others
<1> QED
  BY <1>1, <1>2 DEF KeepsOrder

(***************************************************************************)
(* The latest messages.  Latest(s, w, k) is Recent(s) for what was written *)
(* and cleared being w and k.                                              *)
(***************************************************************************)
Latest(s, w, k) ==
    /\ Len(s) <= Len(w) - k
    /\ \A j \in DOMAIN s : s[j] = w[Len(w) - Len(s) + j]

LEMMA LatestEmpty ==
    ASSUME NEW w \in Seq(Message), NEW k \in 0..Len(w)
    PROVE  Latest(<<>>, w, k)
<1>1. Len(w) \in Nat /\ Len(<<>>) = 0 /\ DOMAIN <<>> = {}
  BY LenProperties, EmptySeq
<1> QED
  BY <1>1 DEF Latest

LEMMA LatestAppend ==
    ASSUME NEW s \in Seq(Message), NEW w \in Seq(Message), NEW m \in Message,
           NEW k \in 0..Len(w), Latest(s, w, k)
    PROVE  Latest(Append(s, m), Append(w, m), k)
<1> DEFINE v == Append(w, m)  t == Append(s, m)
<1>w. /\ Len(w) \in Nat /\ Len(v) = Len(w) + 1 /\ DOMAIN w = 1..Len(w)
      /\ \A i \in DOMAIN w : v[i] = w[i]
      /\ v[Len(w) + 1] = m
  BY Appended
<1>s. /\ Len(s) \in Nat /\ Len(t) = Len(s) + 1 /\ DOMAIN s = 1..Len(s)
      /\ \A i \in DOMAIN s : t[i] = s[i]
      /\ t[Len(s) + 1] = m
      /\ \A i \in DOMAIN t : i \in DOMAIN s \/ i = Len(s) + 1
  BY Appended
<1> HIDE DEF v, t
<1>1. Len(s) <= Len(w) - k /\ \A j \in DOMAIN s : s[j] = w[Len(w) - Len(s) + j]
  BY DEF Latest
<1>2. Len(t) <= Len(v) - k
  BY <1>1, <1>w, <1>s
<1>3. ASSUME NEW j \in DOMAIN t PROVE t[j] = v[Len(v) - Len(t) + j]
  <2>1. CASE j \in DOMAIN s
    <3>1. Len(w) - Len(s) + j \in DOMAIN w /\ Len(v) - Len(t) + j = Len(w) - Len(s) + j
      BY <2>1, <1>1, <1>w, <1>s
    <3> QED
      BY <2>1, <3>1, <1>1, <1>w, <1>s
  <2>2. CASE j = Len(s) + 1
    <3>1. Len(v) - Len(t) + j = Len(w) + 1
      BY <2>2, <1>w, <1>s
    <3> QED
      BY <2>2, <3>1, <1>w, <1>s
  <2> QED
    BY <2>1, <2>2, <1>s
<1> QED
  BY <1>2, <1>3 DEF Latest, v, t

(* The last part of the latest messages.                                   *)
LEMMA LatestPart ==
    ASSUME NEW s \in Seq(Message), NEW w \in Seq(Message), NEW t \in Seq(Message),
           NEW k \in 0..Len(w), Latest(s, w, k), Len(t) <= Len(s),
           \A j \in DOMAIN t : /\ Len(s) - Len(t) + j \in DOMAIN s
                               /\ t[j] = s[Len(s) - Len(t) + j]
    PROVE  Latest(t, w, k)
<1>1. /\ Len(s) \in Nat /\ Len(t) \in Nat /\ Len(w) \in Nat /\ DOMAIN t = 1..Len(t)
  BY LenProperties
<1>2. Len(t) <= Len(w) - k
  BY <1>1 DEF Latest
<1>3. ASSUME NEW j \in DOMAIN t PROVE t[j] = w[Len(w) - Len(t) + j]
  <2>1. t[j] = w[Len(w) - Len(s) + (Len(s) - Len(t) + j)]
    BY DEF Latest
  <2>2. Len(w) - Len(s) + (Len(s) - Len(t) + j) = Len(w) - Len(t) + j
    BY <1>1
  <2> QED
    BY <2>1, <2>2
<1> QED
  BY <1>2, <1>3 DEF Latest

(* What the memory is about to keep is the last part of the history.       *)
LEMMA FetchedIsLastPart ==
    ASSUME TypeOK, NEW c \in Callers, Fetches(c)
    PROVE  /\ fetched'[c] \in Seq(Message)
           /\ Len(fetched'[c]) <= Len(history)
           /\ \A j \in DOMAIN fetched'[c] :
                 /\ Len(history) - Len(fetched'[c]) + j \in DOMAIN history
                 /\ fetched'[c][j] = history[Len(history) - Len(fetched'[c]) + j]
<1>t. history \in Seq(Message)
  BY DEF TypeOK
<1>1. CASE fetched'[c] = cutMessages(history)
  <2> DEFINE t == cutMessages(history)
  <2>1. /\ t \in Seq(Message) /\ Len(t) <= Len(history)
        /\ \A j \in DOMAIN t : /\ Len(history) - Len(t) + j \in DOMAIN history
                               /\ t[j] = history[Len(history) - Len(t) + j]
    BY <1>t, CutProperties
  <2> HIDE DEF t
  <2>2. fetched'[c] = t
    BY <1>1 DEF t
  <2> QED
    BY <2>1, <2>2
<1>2. CASE history # <<>> /\ fetched'[c] = Tail(history)
  <2>1. /\ Tail(history) \in Seq(Message)
        /\ Len(Tail(history)) = Len(history) - 1 /\ Len(history) \in Nat
        /\ DOMAIN history = 1..Len(history) /\ DOMAIN Tail(history) = 1..(Len(history) - 1)
        /\ \A j \in DOMAIN Tail(history) : Tail(history)[j] = history[j + 1]
    BY <1>t, <1>2, TailOfHistory
  <2>2. \A j \in DOMAIN Tail(history) :
           /\ Len(history) - Len(Tail(history)) + j = j + 1
           /\ j + 1 \in DOMAIN history
    BY <2>1
  <2> QED
    BY <1>2, <2>1, <2>2
<1> QED
  BY <1>1, <1>2 DEF Fetches

LEMMA RecentStep ==
    ASSUME TypeOK, CallInv, PlaceInv, WrittenInv, RecentInv, [Next]_vars
    PROVE  RecentInv'
<1>0. CASE UNCHANGED vars
  BY <1>0 DEF RecentInv, Recent, Replacing, Alone, KeepsOrder, Overwrites, vars
<1> SUFFICES ASSUME NEW c \in Callers, Call(c) \/ Clear(c), Alone, Overwrites, KeepsOrder'
             PROVE  /\ Latest(history', written', cleared')
                    /\ \A d \in Callers : pc'[d] \in {"set", "insert"} =>
                          Latest(fetched'[d], written', cleared')
  BY <1>0, Others DEF RecentInv, Recent, Latest, Replacing, Next, Alone, Overwrites
<1>t. /\ history \in Seq(Message) /\ written \in Seq(Message) /\ pc \in [Callers -> Places]
      /\ fetched[c] \in Seq(Message) /\ cleared \in 0..Len(written)
  BY DEF TypeOK, Places
<1>o. /\ Latest(history, written, cleared)
      /\ pc[c] \in {"set", "insert"} => Latest(fetched[c], written, cleared)
  BY FailedStaysFailed DEF RecentInv, Recent, Latest, Replacing
<1>e. Latest(<<>>, written, cleared)
  BY <1>t, LatestEmpty
<1>d. \A d \in Callers : d = c
  BY AloneIsOne
<1>1. CASE Keeps(c)
  BY <1>1, <1>o, <1>d DEF Keeps, Stays
<1>2. CASE Adds(c)
  <2>1. PICK m : /\ history' = Append(history, m) /\ written' = Append(written, m)
                 /\ \/ pc[c] = "saveUser" /\ m = Human(call[c])
                    \/ pc[c] = "saveAI" /\ m = AI(call[c])
    BY <1>2 DEF Adds, Add
  <2>2. m \in Message
    BY <2>1, Fresh
  <2>3. pc'[c] \notin {"set", "insert"} /\ cleared' = cleared
    BY <1>2 DEF Adds
  <2>4. Latest(history', written', cleared')
    BY <1>t, <1>o, <2>1, <2>2, <2>3, LatestAppend
  <2> QED
    BY <2>3, <2>4, <1>d
<1>3. CASE Fetches(c)
  <2>1. Latest(fetched'[c], written, cleared)
    BY <1>3, <1>t, <1>o, FetchedIsLastPart, LatestPart
  <2> QED
    BY <1>3, <1>o, <1>d, <2>1 DEF Fetches, Stays
<1>4. CASE SetMessages(c)
  BY <1>4, <1>o, <1>d DEF SetMessages
<1>5. CASE ClearMessages(c)
  BY <1>5, <1>o, <1>d, <1>e DEF ClearMessages
<1>6. CASE InsertMessages(c)
  <2>1. pc[c] = "insert" /\ history = <<>>
    BY <1>6 DEF InsertMessages, PlaceInv
  <2>2. history' = fetched[c] /\ UNCHANGED <<written, fetched, cleared>>
    BY <1>6, <1>t, <2>1, ConcatEmptySeq DEF InsertMessages
  <2> QED
    BY <1>o, <1>d, <2>1, <2>2
<1>7. CASE HalfInserts(c)
  <2>1. pc[c] = "insert" /\ history = <<>> /\ UNCHANGED <<written, fetched, cleared>>
    BY <1>7 DEF HalfInserts, PlaceInv
  <2>2. store # "stepwise"
    <3>1. call[c] \in CallNumbers
      BY <2>1, Busy
    <3>2. outcome'[call[c]] = "saveError"
      BY <1>7, <3>1 DEF HalfInserts, Return, TypeOK
    <3> QED
      BY <3>1, <3>2, Others DEF KeepsOrder
  <2>3. history' = <<>>
    BY <1>7, <1>t, <2>1, <2>2, HalfTypes, ConcatEmptySeq DEF HalfInserts
  <2> QED
    BY <1>o, <1>d, <1>e, <2>1, <2>3
<1>8. CASE Clear(c)
  <2>1. history' = <<>> /\ written' = written /\ cleared' = Len(written) /\ pc'[c] = "idle"
    BY <1>8 DEF Clear
  <2>2. Len(written) \in 0..Len(written)
    BY <1>t, LenProperties
  <2> QED
    BY <1>t, <1>d, <2>1, <2>2, LatestEmpty
<1>9. CASE SetMessagesFails(c)
  <2>1. /\ pc[c] = "set" /\ pc'[c] = "idle" /\ UNCHANGED <<written, cleared, fetched>>
        /\ history' \in {history, <<>>, fetched[c]}
    BY <1>9, <1>t DEF SetMessagesFails, Return, Goto
  <2> QED
    BY <2>1, <1>o, <1>d, <1>e
<1> QED
  BY <1>1, <1>2, <1>3, <1>4, <1>5, <1>6, <1>7, <1>8, <1>9, Effect
-----------------------------------------------------------------------------
(***************************************************************************)
(* What is forgotten while something older is kept.  Forgets(s, w, o) is   *)
(* ForgetsByFailure(s) for what was written being w and the outcomes o.    *)
(***************************************************************************)
Forgets(s, w, o) ==
    \A i, k \in DOMAIN w :
        i < k /\ Remembers(s, w[i]) /\ ~Remembers(s, w[k]) =>
            \E n \in w[k].call..MaxCalls : o[n] = "saveError"

(* The last part of messages in order forgets nothing behind what it keeps. *)
LEMMA ForgetsPart ==
    ASSUME NEW s \in Seq(Message), NEW w \in Seq(Message), NEW t \in Seq(Message), NEW o,
           Ordered(s, w), Forgets(s, w, o), Len(t) <= Len(s),
           \A j \in DOMAIN t : /\ Len(s) - Len(t) + j \in DOMAIN s
                               /\ t[j] = s[Len(s) - Len(t) + j]
    PROVE  Forgets(t, w, o)
<1> SUFFICES ASSUME NEW i \in DOMAIN w, NEW k \in DOMAIN w, i < k,
                    Remembers(t, w[i]), ~Remembers(t, w[k])
             PROVE  \E n \in w[k].call..MaxCalls : o[n] = "saveError"
  BY DEF Forgets
<1>t. /\ Len(s) \in Nat /\ Len(t) \in Nat /\ DOMAIN s = 1..Len(s) /\ DOMAIN t = 1..Len(t)
      /\ DOMAIN w \subseteq Nat
  BY LenProperties
<1>1. PICK a \in DOMAIN t : t[a] = w[i]
  BY DEF Remembers
<1>2. Len(s) - Len(t) + a \in DOMAIN s /\ s[Len(s) - Len(t) + a] = w[i]
  BY <1>1
<1>3. Remembers(s, w[i])
  BY <1>2 DEF Remembers
<1>4. ASSUME NEW b \in DOMAIN s, s[b] = w[k] PROVE FALSE
  <2>1. ~(b < Len(s) - Len(t) + a)
    BY <1>2, <1>4, <1>t DEF Ordered
  <2>2. b - (Len(s) - Len(t)) \in DOMAIN t
    BY <2>1, <1>1, <1>2, <1>4, <1>t
  <2>3. Len(s) - Len(t) + (b - (Len(s) - Len(t))) = b
    BY <1>4, <1>t
  <2>4. t[b - (Len(s) - Len(t))] = w[k]
    BY <2>2, <2>3, <1>4
  <2> QED
    BY <2>2, <2>4 DEF Remembers
<1>5. ~Remembers(s, w[k])
  BY <1>4 DEF Remembers
<1> QED
  BY <1>3, <1>5 DEF Forgets

(* A new message is remembered, and nothing else is forgotten for it.      *)
LEMMA ForgetsAppend ==
    ASSUME NEW s \in Seq(Message), NEW w \in Seq(Message), NEW m \in Message, NEW o,
           Forgets(s, w, o), \A i \in DOMAIN w : w[i] # m
    PROVE  Forgets(Append(s, m), Append(w, m), o)
<1> DEFINE v == Append(w, m)  t == Append(s, m)
<1>w. /\ DOMAIN w = 1..Len(w) /\ Len(w) \in Nat
      /\ \A i \in DOMAIN w : v[i] = w[i]
      /\ v[Len(w) + 1] = m
      /\ \A i \in DOMAIN v : i \in DOMAIN w \/ i = Len(w) + 1
  BY Appended
<1>s. /\ \A i \in DOMAIN s : i \in DOMAIN t /\ t[i] = s[i]
      /\ t[Len(s) + 1] = m /\ Len(s) + 1 \in DOMAIN t
      /\ \A i \in DOMAIN t : i \in DOMAIN s \/ i = Len(s) + 1
  BY Appended
<1> HIDE DEF v, t
<1> SUFFICES ASSUME NEW i \in DOMAIN v, NEW k \in DOMAIN v, i < k,
                    Remembers(t, v[i]), ~Remembers(t, v[k])
             PROVE  \E n \in v[k].call..MaxCalls : o[n] = "saveError"
  BY DEF Forgets, v, t
<1>1. k \in DOMAIN w
  BY <1>w, <1>s DEF Remembers
<1>2. i \in DOMAIN w
  BY <1>w, <1>1
<1>3. v[i] = w[i] /\ v[k] = w[k] /\ w[i] # m
  BY <1>w, <1>1, <1>2
<1>4. Remembers(s, w[i]) /\ ~Remembers(s, w[k])
  BY <1>s, <1>3 DEF Remembers
<1> QED
  BY <1>1, <1>2, <1>3, <1>4 DEF Forgets

LEMMA ForgotStep ==
    ASSUME TypeOK, CallInv, PlaceInv, WrittenInv, OrderInv, ForgotInv, [Next]_vars
    PROVE  ForgotInv'
<1>0. CASE UNCHANGED vars
  BY <1>0 DEF ForgotInv, ForgetsByFailure, Remembers, Replacing, Alone, Overwrites, vars
<1> SUFFICES ASSUME NEW c \in Callers, Call(c) \/ Clear(c), Alone, Overwrites
             PROVE  /\ Forgets(history', written', outcome')
                    /\ \A d \in Callers : pc'[d] \in {"set", "insert"} =>
                          Forgets(fetched'[d], written', outcome')
  BY <1>0, Others DEF ForgotInv, ForgetsByFailure, Forgets, Remembers, Replacing, Next, Alone,
                      Overwrites
<1>t. /\ history \in Seq(Message) /\ written \in Seq(Message) /\ calls \in 0..MaxCalls
      /\ fetched[c] \in Seq(Message) /\ pc \in [Callers -> Places]
      /\ outcome \in [CallNumbers -> Outcomes]
  BY DEF TypeOK, Places
<1>d. \A d \in Callers : d = c
  BY AloneIsOne
<1>w. \A i \in DOMAIN written : written[i].call \in CallNumbers /\ written[i].call <= calls
  <2>1. \A i \in DOMAIN written : written[i] \in Message
    BY <1>t, LenProperties
  <2> QED
    BY <2>1 DEF WrittenInv, Message
<1>o. /\ Forgets(history, written, outcome)
      /\ pc[c] \in {"set", "insert"} => Forgets(fetched[c], written, outcome)
  BY DEF ForgotInv, ForgetsByFailure, Forgets, Replacing
<1>f. ASSUME NEW s, Forgets(s, written, outcome)
      PROVE  Forgets(s, written, outcome')
  <2>1. \A i \in DOMAIN written : written[i].call..MaxCalls \subseteq CallNumbers
    BY <1>w DEF CallNumbers
  <2>2. \A n \in CallNumbers : outcome[n] = "saveError" => outcome'[n] = "saveError"
    BY FailedStaysFailed
  <2> QED
    BY <1>f, <2>1, <2>2 DEF Forgets
<1>e. Forgets(<<>>, written, outcome)
  BY EmptySeq DEF Forgets, Remembers
<1>1. CASE Keeps(c)
  BY <1>1, <1>o, <1>f, <1>d DEF Keeps, Stays
<1>2. CASE Adds(c)
  <2>1. PICK m : /\ history' = Append(history, m) /\ written' = Append(written, m)
                 /\ \/ pc[c] = "saveUser" /\ m = Human(call[c])
                    \/ pc[c] = "saveAI" /\ m = AI(call[c])
    BY <1>2 DEF Adds, Add
  <2>2. m \in Message /\ \A i \in DOMAIN written : written[i] # m
    BY <2>1, Fresh
  <2>3. pc'[c] \notin {"set", "insert"}
    BY <1>2 DEF Adds
  <2>4. Forgets(history, written, outcome')
    BY <1>o, <1>f
  <2>5. Forgets(history', written', outcome')
    BY <1>t, <2>1, <2>2, <2>4, ForgetsAppend
  <2> QED
    BY <2>3, <2>5, <1>d
<1>3. CASE Fetches(c)
  <2>1. Ordered(history, written)
    BY DEF OrderInv, InOrder, Ordered
  <2>2. Forgets(fetched'[c], written, outcome)
    BY <1>3, <1>t, <1>o, <2>1, FetchedIsLastPart, ForgetsPart
  <2> QED
    BY <1>3, <1>o, <1>d, <2>2 DEF Fetches, Stays
<1>4. CASE SetMessages(c) \/ SetMessagesFails(c)
  <2>1. /\ pc[c] = "set" /\ pc'[c] \notin {"set", "insert"} /\ written' = written
        /\ history' \in {history, <<>>, fetched[c]}
    BY <1>4, <1>t DEF SetMessages, SetMessagesFails, AfterSet, Return, Goto
  <2>2. Forgets(history', written, outcome)
    BY <2>1, <1>o, <1>e
  <2> QED
    BY <2>1, <2>2, <1>d, <1>f
<1>5. CASE ClearMessages(c)
  <2>1. /\ pc[c] = "set" /\ history' = <<>>
        /\ UNCHANGED <<fetched, written, outcome>>
    BY <1>5 DEF ClearMessages
  <2> QED
    BY <2>1, <1>o, <1>d, <1>e
<1>6. CASE InsertMessages(c)
  <2>1. /\ pc[c] = "insert" /\ history = <<>> /\ written' = written
        /\ pc'[c] \notin {"set", "insert"}
    BY <1>6, <1>t DEF InsertMessages, PlaceInv, AfterSet, Return, Goto
  <2>2. history' = fetched[c]
    BY <1>6, <1>t, <2>1, ConcatEmptySeq DEF InsertMessages
  <2> QED
    BY <2>1, <2>2, <1>o, <1>f, <1>d
<1>7. CASE HalfInserts(c)
  <2>1. pc[c] = "insert" /\ pc'[c] = "idle" /\ written' = written
    BY <1>7, <1>t DEF HalfInserts, Return, Goto
  <2>2. call[c] \in CallNumbers /\ call[c] = calls
    BY <2>1, Busy
  <2>3. outcome'[calls] = "saveError"
    BY <1>7, <1>t, <2>2 DEF HalfInserts, Return
  <2>4. \A i \in DOMAIN written : calls \in written[i].call..MaxCalls
    BY <1>t, <1>w, <2>2 DEF CallNumbers
  <2>5. Forgets(history', written, outcome')
    BY <2>3, <2>4 DEF Forgets
  <2> QED
    BY <2>1, <2>5, <1>d
<1>8. CASE Clear(c)
  <2>1. /\ history' = <<>> /\ written' = written /\ outcome' = outcome
        /\ pc'[c] = "idle"
    BY <1>8 DEF Clear
  <2> QED
    BY <2>1, <1>e, <1>d
<1> QED
  BY <1>1, <1>2, <1>3, <1>4, <1>5, <1>6, <1>7, <1>8, Effect
-----------------------------------------------------------------------------
(***************************************************************************)
(* Unanswered questions.  Asked(s, n, o) says that message n of s is a     *)
(* question without its answer behind it, of a call that has not failed to *)
(* save by the outcomes o.                                                 *)
(***************************************************************************)
Asked(s, n, o) ==
    /\ s[n].role = "human"
    /\ ~(n < Len(s) /\ s[n + 1] = AI(s[n].call))
    /\ o[s[n].call] # "saveError"

LEMMA Shift ==
    ASSUME NEW a \in Nat, NEW b \in Nat, NEW n \in 1..b, n < b, b <= a
    PROVE  n + 1 \in 1..b /\ (a - b) + (n + 1) = ((a - b) + n) + 1 /\ (a - b) + n < a
  OBVIOUS

(* The last part of a sequence has no unanswered question if the whole has *)
(* none.                                                                   *)
LEMMA AskedPart ==
    ASSUME NEW s \in Seq(Message), NEW t \in Seq(Message), NEW o,
           \A n \in DOMAIN s : ~Asked(s, n, o), Len(t) <= Len(s),
           \A j \in DOMAIN t : /\ Len(s) - Len(t) + j \in DOMAIN s
                               /\ t[j] = s[Len(s) - Len(t) + j]
    PROVE  \A n \in DOMAIN t : ~Asked(t, n, o)
<1> SUFFICES ASSUME NEW n \in DOMAIN t, Asked(t, n, o) PROVE FALSE
  OBVIOUS
<1> DEFINE k == Len(s) - Len(t)
<1>1. /\ Len(s) \in Nat /\ Len(t) \in Nat /\ DOMAIN t = 1..Len(t) /\ DOMAIN s = 1..Len(s)
      /\ k \in Nat
  BY LenProperties
<1>2. k + n \in DOMAIN s /\ t[n] = s[k + n] /\ n \in 1..Len(t)
  BY <1>1
<1>3. CASE n < Len(t)
  <2>1. n + 1 \in 1..Len(t) /\ k + (n + 1) = (k + n) + 1 /\ k + n < Len(s)
    BY <1>1, <1>2, <1>3, Shift
  <2>2. t[n + 1] = s[(k + n) + 1]
    BY <2>1, <1>1
  <2> HIDE DEF k
  <2> QED
    BY <1>2, <1>3, <2>1, <2>2 DEF Asked
<1>4. CASE ~(n < Len(t))
  <2>1. ~(k + n < Len(s))
    BY <1>1, <1>4
  <2> HIDE DEF k
  <2> QED
    BY <1>2, <1>4, <2>1 DEF Asked
<1> QED
  BY <1>3, <1>4

(* One more message answers the question before it or asks another one.    *)
LEMMA AskedAppend ==
    ASSUME NEW s \in Seq(Message), NEW m \in Message, NEW o,
           NEW n \in DOMAIN Append(s, m), Asked(Append(s, m), n, o)
    PROVE  \/ n \in DOMAIN s /\ Asked(s, n, o) /\ ~(n = Len(s) /\ m = AI(s[n].call))
           \/ n = Len(s) + 1 /\ m.role = "human"
<1> DEFINE t == Append(s, m)
<1>s. /\ Len(s) \in Nat /\ Len(t) = Len(s) + 1 /\ DOMAIN s = 1..Len(s)
      /\ \A i \in DOMAIN s : t[i] = s[i]
      /\ t[Len(s) + 1] = m
      /\ \A i \in DOMAIN t : i \in DOMAIN s \/ i = Len(s) + 1
  BY Appended
<1>a. n \in DOMAIN t /\ Asked(t, n, o)
  OBVIOUS
<1> HIDE DEF t
<1>1. CASE n = Len(s) + 1
  BY <1>1, <1>s, <1>a DEF Asked
<1>2. CASE n \in DOMAIN s
  <2>1. t[n] = s[n] /\ n < Len(t)
    BY <1>2, <1>s
  <2>2. s[n].role = "human" /\ t[n + 1] # AI(s[n].call) /\ o[s[n].call] # "saveError"
    BY <1>a, <2>1 DEF Asked
  <2>3. CASE n = Len(s)
    <3>1. m # AI(s[n].call) /\ ~(n < Len(s))
      BY <2>2, <2>3, <1>s
    <3> QED
      BY <1>2, <2>2, <3>1 DEF Asked
  <2>4. CASE n # Len(s)
    <3>1. n + 1 \in DOMAIN s
      BY <1>2, <2>4, <1>s
    <3>2. s[n + 1] # AI(s[n].call)
      BY <2>2, <3>1, <1>s
    <3> QED
      BY <1>2, <2>2, <2>4, <3>2 DEF Asked
  <2> QED
    BY <2>3, <2>4
<1> QED
  BY <1>1, <1>2, <1>s, <1>a

LEMMA OrphanStep ==
    ASSUME TypeOK, CallInv, PlaceInv, OrphanInv, [Next]_vars
    PROVE  OrphanInv'
<1>0. CASE UNCHANGED vars
  BY <1>0 DEF OrphanInv, Orphans, Replacing, Alone, KeepsOrder, vars
<1> SUFFICES ASSUME NEW c \in Callers, Call(c) \/ Clear(c), Alone, KeepsOrder'
             PROVE  /\ \A n \in DOMAIN history' : Asked(history', n, outcome') =>
                          /\ pc'[c] = "saveAI" /\ n = Len(history')
                          /\ history'[n].call = call'[c]
                    /\ \A d \in Callers : pc'[d] \in {"set", "insert"} =>
                          \A n \in DOMAIN fetched'[d] : ~Asked(fetched'[d], n, outcome')
  BY <1>0 DEF OrphanInv, Orphans, Asked, Replacing, Next, Alone
<1>t. /\ history \in Seq(Message) /\ fetched[c] \in Seq(Message)
      /\ pc \in [Callers -> Places] /\ outcome \in [CallNumbers -> Outcomes]
      /\ call \in [Callers -> 0..MaxCalls]
  BY DEF TypeOK, Places
<1>d. \A d \in Callers : d = c
  BY AloneIsOne
<1>o. /\ \A n \in DOMAIN history : Asked(history, n, outcome) =>
            pc[c] = "saveAI" /\ n = Len(history) /\ history[n].call = call[c]
      /\ pc[c] \in {"set", "insert"} =>
            \A n \in DOMAIN fetched[c] : ~Asked(fetched[c], n, outcome)
  <2>1. KeepsOrder
    BY FailedStaysFailed
  <2>2. /\ \A n \in Orphans(history) :
              pc[c] = "saveAI" /\ n = Len(history) /\ history[n].call = call[c]
        /\ pc[c] \in {"set", "insert"} => Orphans(fetched[c]) = {}
    BY <1>d, <2>1 DEF OrphanInv, Replacing
  <2>3. /\ \A n \in DOMAIN history : Asked(history, n, outcome) => n \in Orphans(history)
        /\ \A n \in DOMAIN fetched[c] : Asked(fetched[c], n, outcome) => n \in Orphans(fetched[c])
    BY DEF Orphans, Asked
  <2> QED
    BY <2>2, <2>3
<1>f. ASSUME NEW s \in Seq(Message), NEW n \in DOMAIN s, Asked(s, n, outcome')
      PROVE  Asked(s, n, outcome)
  <2>1. s[n].call \in CallNumbers
    <3>1. s[n] \in Message
      BY LenProperties
    <3> QED
      BY <3>1 DEF Message
  <2> QED
    BY <1>f, <2>1, FailedStaysFailed DEF Asked
<1>1. CASE Keeps(c)
  <2>1. ASSUME NEW n \in DOMAIN history, Asked(history, n, outcome')
        PROVE  FALSE
    <3>1. pc[c] = "saveAI" /\ history[n].call = call[c]
      BY <2>1, <1>f, <1>o, <1>t
    <3>2. outcome'[call[c]] = "saveError"
      BY <1>1, <3>1, <1>t, Busy DEF Keeps, Return
    <3> QED
      BY <2>1, <3>1, <3>2 DEF Asked
  <2> QED
    BY <1>1, <1>d, <2>1 DEF Keeps, Stays
<1>2. CASE Adds(c)
  <2>1. PICK m : /\ history' = Append(history, m) /\ written' = Append(written, m)
                 /\ \/ /\ pc[c] = "saveUser" /\ m = Human(call[c])
                       /\ pc'[c] = "saveAI" /\ outcome' = outcome
                    \/ /\ pc[c] = "saveAI" /\ m = AI(call[c])
                       /\ pc'[c] \in {"idle", "check"}
    BY <1>2 DEF Adds, Add
  <2>2. /\ m \in Message /\ m.call = call[c]
        /\ m.role = "human" => pc[c] = "saveUser"
    <3>1. call[c] \in CallNumbers
      BY <2>1, Busy
    <3>2. m = Human(call[c]) \/ m = AI(call[c])
      BY <2>1
    <3>3. m \in Message
      BY <3>1, <3>2, MessageTypes
    <3>4. m.call = call[c]
      BY <3>2 DEF Human, AI
    <3>5. m.role = "human" => m # AI(call[c])
      BY DEF AI
    <3> QED
      BY <2>1, <3>3, <3>4, <3>5
  <2>3. call'[c] = call[c]
    BY <2>1, Shape DEF Begin, Moves, Returns
  <2>4. ASSUME NEW n \in DOMAIN history', Asked(history', n, outcome')
        PROVE  pc'[c] = "saveAI" /\ n = Len(history') /\ history'[n].call = call'[c]
    <3>1. \/ /\ n \in DOMAIN history /\ Asked(history, n, outcome')
             /\ ~(n = Len(history) /\ m = AI(history[n].call))
          \/ n = Len(history) + 1 /\ m.role = "human"
      BY <2>1, <2>2, <2>4, <1>t, AskedAppend
    <3>2. CASE /\ n \in DOMAIN history /\ Asked(history, n, outcome')
               /\ ~(n = Len(history) /\ m = AI(history[n].call))
      <4>1. pc[c] = "saveAI" /\ n = Len(history) /\ history[n].call = call[c]
        BY <3>2, <1>f, <1>o, <1>t
      <4> QED
        BY <3>2, <4>1, <2>1
    <3>3. CASE n = Len(history) + 1 /\ m.role = "human"
      <4>1. pc[c] = "saveUser" /\ pc'[c] = "saveAI"
        BY <2>1, <2>2, <3>3
      <4>2. Len(history') = Len(history) + 1 /\ history'[Len(history) + 1] = m
        BY <2>1, <2>2, <1>t, Appended
      <4> QED
        BY <3>3, <4>1, <4>2, <2>2, <2>3
    <3> QED
      BY <3>1, <3>2, <3>3
  <2> QED
    BY <2>1, <2>4, <1>d
<1>3. CASE Fetches(c)
  <2>1. outcome' = outcome /\ history' = history /\ pc[c] # "saveAI"
    BY <1>3 DEF Fetches, Stays
  <2>2. \A n \in DOMAIN history : ~Asked(history, n, outcome)
    BY <2>1, <1>o
  <2>3. \A n \in DOMAIN fetched'[c] : ~Asked(fetched'[c], n, outcome)
    BY <1>3, <1>t, <2>2, FetchedIsLastPart, AskedPart
  <2> QED
    BY <2>1, <2>2, <2>3, <1>d
<1>4. CASE SetMessages(c)
  <2>1. /\ pc[c] = "set" /\ history' \in {history, fetched[c]}
        /\ pc'[c] \notin {"set", "insert"}
    BY <1>4, <1>t DEF SetMessages, AfterSet, Return, Goto
  <2>2. \A n \in DOMAIN history' : ~Asked(history', n, outcome')
    BY <2>1, <1>o, <1>f, <1>t
  <2> QED
    BY <2>1, <2>2, <1>d
<1>5. CASE ClearMessages(c)
  <2>1. /\ pc[c] = "set" /\ DOMAIN history' = {}
        /\ fetched' = fetched /\ outcome' = outcome
    BY <1>5, EmptySeq DEF ClearMessages
  <2> QED
    BY <2>1, <1>o, <1>d
<1>6. CASE InsertMessages(c)
  <2>1. pc[c] = "insert" /\ history = <<>> /\ pc'[c] \notin {"set", "insert"}
    BY <1>6, <1>t DEF InsertMessages, PlaceInv, AfterSet, Return, Goto
  <2>2. history' = fetched[c]
    BY <1>6, <1>t, <2>1, ConcatEmptySeq DEF InsertMessages
  <2>3. \A n \in DOMAIN history' : ~Asked(history', n, outcome')
    BY <2>1, <2>2, <1>o, <1>f, <1>t
  <2> QED
    BY <2>1, <2>3, <1>d
<1>7. CASE HalfInserts(c)
  <2>1. pc[c] = "insert" /\ history = <<>> /\ pc'[c] = "idle"
    BY <1>7, <1>t DEF HalfInserts, PlaceInv, Return, Goto
  <2>2. store # "stepwise"
    <3>1. call[c] \in CallNumbers
      BY <2>1, Busy
    <3>2. outcome'[call[c]] = "saveError"
      BY <1>7, <1>t, <3>1 DEF HalfInserts, Return
    <3> QED
      BY <3>1, <3>2, Others DEF KeepsOrder
  <2>3. history' = <<>> /\ DOMAIN <<>> = {}
    BY <1>7, <1>t, <2>1, <2>2, HalfTypes, ConcatEmptySeq, EmptySeq DEF HalfInserts
  <2> QED
    BY <1>d, <2>1, <2>3
<1>8. CASE Clear(c)
  <2>1. /\ history' = history \/ (history' = <<>> /\ DOMAIN <<>> = {})
        /\ pc[c] = "idle" /\ pc' = pc /\ outcome' = outcome
    BY <1>8, EmptySeq DEF Clear
  <2> QED
    BY <1>o, <1>d, <2>1
<1>9. CASE SetMessagesFails(c)
  <2>1. /\ pc[c] = "set" /\ history' \in {history, <<>>, fetched[c]} /\ DOMAIN <<>> = {}
        /\ pc'[c] = "idle"
    BY <1>9, <1>t, EmptySeq DEF SetMessagesFails, Return, Goto
  <2>2. \A n \in DOMAIN history' : ~Asked(history', n, outcome')
    BY <2>1, <1>o, <1>f, <1>t
  <2> QED
    BY <2>1, <2>2, <1>d
<1> QED
  BY <1>1, <1>2, <1>3, <1>4, <1>5, <1>6, <1>7, <1>8, <1>9, Effect
-----------------------------------------------------------------------------
(* How much there is to prune depends on the memory and the history alone. *)
LEMMA ExcessKept ==
    ASSUME kind' = kind, history' = history
    PROVE  Excess(history)' = Excess(history)
  BY DEF Excess, getNumTokensFromMessages

LEMMA BoundStep ==
    ASSUME TypeOK, CallInv, PlaceInv, BoundInv, [Next]_vars
    PROVE  BoundInv'
<1>0. CASE UNCHANGED vars
  <2>1. Excess(history)' = Excess(history)
    BY <1>0, ExcessKept DEF vars
  <2> QED
    BY <1>0, <2>1 DEF BoundInv, Replacing, Alone, Overwrites, vars
<1> SUFFICES ASSUME NEW c \in Callers, Call(c) \/ Clear(c), Alone, Overwrites
             PROVE  /\ pc'[c] = "idle" /\ call'[c] > 0 /\ outcome'[call'[c]] = "ok" =>
                          ~Excess(history)' \/ history' = <<>>
                    /\ pc'[c] \in {"set", "insert"} /\ kind' = "window" =>
                          Len(fetched'[c]) <= ConversationWindowSize * defaultMessageSize
  <2>1. Alone => \A d, e \in Callers : d = e
    BY AloneIsOne
  <2> QED
    BY <1>0, <2>1, Others DEF BoundInv, Replacing, Next, Alone, Overwrites
<1>t. /\ history \in Seq(Message) /\ fetched[c] \in Seq(Message)
      /\ pc \in [Callers -> Places] /\ outcome \in [CallNumbers -> Outcomes]
      /\ call \in [Callers -> 0..MaxCalls] /\ fetched \in [Callers -> Seq(Message)]
  BY DEF TypeOK, Places
<1>k. kind' = kind
  BY Others
<1>o. /\ pc[c] = "idle" /\ call[c] > 0 /\ outcome[call[c]] = "ok" =>
            ~Excess(history) \/ history = <<>>
      /\ pc[c] \in {"set", "insert"} /\ kind = "window" =>
            Len(fetched[c]) <= ConversationWindowSize * defaultMessageSize
  BY DEF BoundInv, Replacing
<1>f. ASSUME NEW o, Return(c, o), pc[c] # "idle", o # "ok", call' = call
      PROVE  pc'[c] = "idle" /\ outcome'[call'[c]] # "ok"
  BY <1>f, <1>t, Busy DEF Return, Goto
<1>x. kind \in {"simple", "buffer"} => ~Excess(history)'
  BY <1>k DEF Excess
<1>1. CASE Begin(c) \/ LoadMemoryVariables(c) \/ AddUserMessage(c)
  BY <1>1, <1>t DEF Begin, LoadMemoryVariables, AddUserMessage, Goto
<1>2. CASE \/ LoadFails(c) \/ ChainFails(c) \/ SaveFails(c) \/ SetMessagesFails(c)
           \/ PruneFails(c)
  BY <1>2, <1>f DEF LoadFails, ChainFails, SaveFails, SetMessagesFails, PruneFails
<1>3. CASE ChainSucceeds(c) \/ AddAIMessage(c)
  <2>1. \/ pc'[c] \in {"saveUser", "check"}
        \/ pc'[c] = "idle" /\ kind \in {"simple", "buffer"}
    BY <1>3, <1>t DEF ChainSucceeds, AddAIMessage, Goto, Return
  <2> QED
    BY <2>1, <1>x
<1>4. CASE Check(c)
  <2>1. history' = history /\ \/ ~Excess(history) /\ pc'[c] = "idle"
                              \/ /\ pc'[c] = "set" /\ kind = "window"
                                 /\ fetched'[c] = cutMessages(history)
                              \/ pc'[c] = "prune"
    BY <1>4, <1>t DEF Check, Goto, Return
  <2>2. Len(cutMessages(history)) <= ConversationWindowSize * defaultMessageSize
    BY <1>t, CutProperties
  <2> QED
    BY <2>1, <2>2, <1>k, ExcessKept
<1>5. CASE Prune(c)
  <2>1. \/ pc'[c] = "idle" /\ history' = <<>>
        \/ pc'[c] = "set" /\ kind = "token"
    BY <1>5, <1>t DEF Prune, Goto, Return, PlaceInv
  <2> QED
    BY <2>1, <1>k
<1>6. CASE SetMessages(c) \/ InsertMessages(c)
  <2>1. history' = fetched[c]
    BY <1>6, <1>t, ConcatEmptySeq DEF SetMessages, InsertMessages, PlaceInv
  <2>2. \/ pc'[c] = "idle" /\ kind = "window"
        \/ pc'[c] = "check"
    BY <1>6, <1>t DEF SetMessages, InsertMessages, AfterSet, Goto, Return
  <2>3. pc[c] \in {"set", "insert"}
    BY <1>6 DEF SetMessages, InsertMessages
  <2>4. kind = "window" => ~Excess(history)'
    <3>1. kind = "window" => Len(history') <= ConversationWindowSize * defaultMessageSize
      BY <2>1, <2>3, <1>o
    <3>2. Len(history') \in Nat
      BY <2>1, <1>t, LenProperties
    <3> QED
      BY <3>1, <3>2, <1>k, WindowPositive DEF Excess
  <2> QED
    BY <2>2, <2>4
<1>7. CASE ClearMessages(c)
  BY <1>7, <1>t, <1>k, <1>o DEF ClearMessages, Goto
<1>8. CASE Clear(c)
  BY <1>8, <1>t DEF Clear
<1> QED
  BY <1>1, <1>2, <1>3, <1>4, <1>5, <1>6, <1>7, <1>8 DEF Call, SaveContext
-----------------------------------------------------------------------------
(* The window never cuts the latest message off.                           *)
LEMMA CutEndsWith ==
    ASSUME NEW h \in Seq(Message), NEW n, EndsWith(h, n)
    PROVE  EndsWith(cutMessages(h), n)
<1> DEFINE t == cutMessages(h)
<1>1. /\ t \in Seq(Message) /\ t # <<>>
      /\ \A j \in DOMAIN t : t[j] = h[Len(h) - Len(t) + j]
  BY CutProperties DEF EndsWith
<1>2. Len(h) \in Nat
  BY LenProperties
<1> HIDE DEF t
<1>3. Len(t) \in Nat \ {0} /\ DOMAIN t = 1..Len(t)
  BY <1>1, EmptySeq, LenProperties
<1>4. Len(h) - Len(t) + Len(t) = Len(h) /\ Len(t) \in DOMAIN t
  BY <1>2, <1>3
<1>5. t[Len(t)] = h[Len(h)]
  BY <1>1, <1>4
<1>6. EndsWith(t, n)
  BY <1>1, <1>5 DEF EndsWith
<1> QED
  BY <1>6 DEF t

LEMMA LatestStep ==
    ASSUME TypeOK, CallInv, PlaceInv, LatestInv, [Next]_vars
    PROVE  LatestInv'
<1>0. CASE UNCHANGED vars
  BY <1>0 DEF LatestInv, EndsWith, Replacing, Alone, vars
<1> SUFFICES ASSUME NEW c \in Callers, Call(c) \/ Clear(c), Alone, kind \in {"buffer", "window"}
             PROVE  /\ /\ pc'[c] = "idle" /\ call'[c] > 0 /\ outcome'[call'[c]] = "ok"
                       /\ cleared' < Len(written')
                       => EndsWith(history', call'[c])
                    /\ /\ pc'[c] = "load" /\ call'[c] > 1 /\ outcome'[call'[c] - 1] = "ok"
                       /\ cleared' < Len(written')
                       => EndsWith(history', call'[c] - 1)
                    /\ pc'[c] \in {"check", "set"} => EndsWith(history', call'[c])
                    /\ pc'[c] \in {"set", "insert"} => EndsWith(fetched'[c], call'[c])
  <2>1. Alone => \A d, e \in Callers : d = e
    BY AloneIsOne
  <2>2. kind' = kind
    <3>1. CASE UNCHANGED vars
      BY <3>1 DEF vars
    <3> QED
      BY <3>1, Others DEF Next
  <2> QED
    BY <1>0, <2>1, <2>2 DEF LatestInv, EndsWith, Replacing, Next, Alone
<1>t. /\ history \in Seq(Message) /\ fetched[c] \in Seq(Message) /\ written \in Seq(Message)
      /\ pc \in [Callers -> Places] /\ outcome \in [CallNumbers -> Outcomes]
      /\ call \in [Callers -> 0..MaxCalls] /\ fetched \in [Callers -> Seq(Message)]
      /\ calls \in 0..MaxCalls /\ cleared \in 0..Len(written)
  BY DEF TypeOK, Places
<1>o. /\ /\ pc[c] = "idle" /\ call[c] > 0 /\ outcome[call[c]] = "ok"
         /\ cleared < Len(written)
         => EndsWith(history, call[c])
      /\ /\ pc[c] = "load" /\ call[c] > 1 /\ outcome[call[c] - 1] = "ok"
         /\ cleared < Len(written)
         => EndsWith(history, call[c] - 1)
      /\ pc[c] \in {"check", "set"} => EndsWith(history, call[c])
      /\ pc[c] \in {"set", "insert"} => EndsWith(fetched[c], call[c])
  BY DEF LatestInv, Replacing
<1>f. ASSUME NEW o, Return(c, o), pc[c] # "idle", o # "ok", call' = call
      PROVE  pc'[c] = "idle" /\ outcome'[call'[c]] # "ok"
  BY <1>f, <1>t, Busy DEF Return, Goto
<1>1. CASE Begin(c)
  <2>1. /\ call'[c] = calls + 1 /\ pc'[c] = "load" /\ pc[c] = "idle"
        /\ UNCHANGED <<outcome, history, written, cleared>>
    BY <1>1, <1>t DEF Begin, Goto
  <2>2. call[c] = calls
    BY DEF CallInv
  <2>3. call'[c] - 1 = call[c] /\ (call'[c] > 1 => call[c] > 0)
    BY <1>t, <2>1, <2>2
  <2> QED
    BY <1>o, <2>1, <2>3
<1>2. CASE LoadMemoryVariables(c) \/ ChainSucceeds(c) \/ AddUserMessage(c)
  <2>1. pc'[c] \in {"run", "saveUser", "saveAI"}
    BY <1>2, <1>t DEF LoadMemoryVariables, ChainSucceeds, AddUserMessage, Goto
  <2> QED
    BY <2>1
<1>3. CASE \/ LoadFails(c) \/ ChainFails(c) \/ SaveFails(c) \/ SetMessagesFails(c)
           \/ PruneFails(c)
  BY <1>3, <1>f DEF LoadFails, ChainFails, SaveFails, SetMessagesFails, PruneFails
<1>4. CASE AddAIMessage(c)
  <2>1. /\ history' = Append(history, AI(call[c])) /\ call' = call
        /\ pc'[c] \in {"idle", "check"}
    BY <1>4, <1>t DEF AddAIMessage, Add, Goto, Return
  <2>2. AI(call[c]) \in Message
    BY <1>4, Busy, MessageTypes DEF AddAIMessage
  <2>3. EndsWith(history', call'[c])
    BY <1>t, <2>1, <2>2, Appended DEF EndsWith
  <2> QED
    BY <2>1, <2>3
<1>5. CASE Check(c)
  <2>1. /\ history' = history /\ call' = call /\ pc[c] = "check"
        /\ pc'[c] # "load" /\ pc'[c] # "insert"
        /\ pc'[c] = "set" => fetched'[c] = cutMessages(history)
    BY <1>5, <1>t DEF Check, Goto, Return
  <2> QED
    BY <2>1, <1>o, <1>t, CutEndsWith
<1>6. CASE SetMessages(c)
  <2>1. /\ history' \in {history, fetched[c]} /\ call' = call /\ pc[c] = "set"
        /\ pc'[c] \in {"idle", "check"}
    BY <1>6, <1>t DEF SetMessages, AfterSet, Goto, Return
  <2> QED
    BY <2>1, <1>o
<1>7. CASE ClearMessages(c)
  BY <1>7, <1>t, <1>o DEF ClearMessages, Goto
<1>8. CASE InsertMessages(c)
  <2>1. /\ history' = fetched[c] /\ call' = call /\ pc[c] = "insert"
        /\ pc'[c] \in {"idle", "check"}
    BY <1>8, <1>t, ConcatEmptySeq DEF InsertMessages, PlaceInv, AfterSet, Goto, Return
  <2> QED
    BY <2>1, <1>o
<1>9. CASE Prune(c)
  BY <1>9 DEF Prune, PlaceInv
<1>10. CASE Clear(c)
  <2>1. pc'[c] = "idle" /\ cleared' = Len(written') /\ Len(written') \in Nat
    BY <1>10, <1>t, LenProperties DEF Clear
  <2> QED
    BY <2>1
<1> QED
  BY <1>1, <1>2, <1>3, <1>4, <1>5, <1>6, <1>7, <1>8, <1>9, <1>10 DEF Call, SaveContext

LEMMA SeenStep ==
    ASSUME TypeOK, LatestInv, ChainSeesLastExchange, [Next]_vars
    PROVE  ChainSeesLastExchange'
<1>0. CASE UNCHANGED vars
  BY <1>0 DEF ChainSeesLastExchange, Alone, vars
<1> SUFFICES ASSUME NEW c \in Callers, Call(c) \/ Clear(c), Alone, kind \in {"buffer", "window"},
                    pc'[c] = "run", call'[c] > 1, outcome'[call'[c] - 1] = "ok",
                    cleared' < Len(written')
             PROVE  EndsWith(loaded'[c], call'[c] - 1)
  <2>1. Alone => \A d, e \in Callers : d = e
    BY AloneIsOne
  <2>2. kind' = kind
    <3>1. CASE UNCHANGED vars
      BY <3>1 DEF vars
    <3> QED
      BY <3>1, Others DEF Next
  <2> QED
    BY <1>0, <2>1, <2>2 DEF ChainSeesLastExchange, EndsWith, Next, Alone
<1>t. history \in Seq(Message) /\ pc \in [Callers -> Places] /\ loaded \in [Callers -> Seq(Message)]
  BY DEF TypeOK, Places
<1>1. LoadMemoryVariables(c)
  BY <1>t DEF Call, SaveContext, Begin, LoadFails, ChainFails, ChainSucceeds, SaveFails,
     AddUserMessage, AddAIMessage, Check, Prune, SetMessages, SetMessagesFails, ClearMessages,
     InsertMessages, PruneFails, AfterSet, Clear, Return, Goto
<1>2. EndsWith(history, call[c] - 1)
  BY <1>1 DEF LoadMemoryVariables, LatestInv
<1>3. EndsWith(Loadable, call[c] - 1)
  BY <1>2, <1>t, CutEndsWith DEF Loadable
<1> QED
  BY <1>1, <1>3, <1>t DEF LoadMemoryVariables
-----------------------------------------------------------------------------
LEMMA Induction == IInv /\ [Next]_vars => IInv'
<1> SUFFICES ASSUME IInv, [Next]_vars PROVE IInv'
  OBVIOUS
<1>1. /\ TypeOK /\ CallInv /\ PlaceInv /\ EventsInv /\ WrittenInv
      /\ OrderInv /\ RecentInv /\ ForgotInv /\ OrphanInv /\ BoundInv /\ LatestInv /\ ChainSeesLastExchange
  BY DEF IInv
<1>2. TypeOK' /\ CallInv' /\ PlaceInv' /\ EventsInv' /\ WrittenInv'
  BY <1>1, TypeStep, CallStep, PlaceStep, EventsStep, WrittenStep
<1>3. OrderInv' /\ RecentInv' /\ ForgotInv' /\ OrphanInv'
  BY <1>1, OrderStep, RecentStep, ForgotStep, OrphanStep
<1>4. BoundInv' /\ LatestInv' /\ ChainSeesLastExchange'
  BY <1>1, BoundStep, LatestStep, SeenStep
<1> QED
  BY <1>2, <1>3, <1>4 DEF IInv

(* The inductive invariant holds of every behaviour of the memory, however *)
(* many goroutines share it.                                               *)
THEOREM Invariance == Spec => []IInv
<1>1. Init => IInv
  BY InitIInv
<1>2. IInv /\ [Next]_vars => IInv'
  BY Induction
<1> QED
  BY <1>1, <1>2, PTL DEF Spec

(* The variables keep their types: no caller leaves chains.Call by a way   *)
(* that the code does not have, and only messages of calls are stored.     *)
THEOREM TypeCorrect == Spec => []TypeOK
<1>1. IInv => TypeOK
  BY DEF IInv
<1> QED
  BY <1>1, Invariance, PTL

(* A memory with one caller at a time holds the messages written last      *)
(* since it was cleared, and none that was cleared.                        *)
THEOREM KeepsTheLatest == Spec => []HistoryIsRecent
<1>1. IInv => HistoryIsRecent
  <2> SUFFICES ASSUME IInv, Alone, Overwrites, KeepsOrder
               PROVE  Suffix(history, SubSeq(written, cleared + 1, Len(written)))
    BY DEF HistoryIsRecent
  <2> DEFINE w == SubSeq(written, cleared + 1, Len(written))
             t == SubSeq(w, Len(w) - Len(history) + 1, Len(w))
  <2>t. /\ history \in Seq(Message) /\ written \in Seq(Message) /\ cleared \in 0..Len(written)
        /\ Len(history) \in Nat /\ Len(written) \in Nat
        /\ DOMAIN history = 1..Len(history) /\ DOMAIN written = 1..Len(written)
        /\ \A i \in 1..Len(written) : written[i] \in Message
    BY LenProperties DEF IInv, TypeOK
  <2>r. /\ Len(history) <= Len(written) - cleared
        /\ \A j \in DOMAIN history : history[j] = written[Len(written) - Len(history) + j]
    BY DEF IInv, RecentInv, Recent
  <2>w. /\ w \in Seq(Message) /\ Len(w) = Len(written) - cleared /\ Len(w) \in Nat
        /\ \A i \in 1..(Len(written) - cleared) : w[i] = written[cleared + i]
    <3>1. /\ w \in Seq(Message) /\ Len(w) = Len(written) - cleared
          /\ \A i \in 1..(Len(written) - cleared) : w[i] = written[cleared + i]
      BY <2>t, LastPart
    <3>2. Len(written) - cleared \in Nat
      BY <2>t
    <3> QED
      BY <3>1, <3>2
  <2> HIDE DEF w
  <2>s. /\ t \in Seq(Message) /\ Len(t) = Len(history)
        /\ \A i \in 1..Len(history) : t[i] = w[Len(w) - Len(history) + i]
    <3> DEFINE k == Len(w) - Len(history)
    <3>1. k \in 0..Len(w) /\ Len(w) - k = Len(history)
      BY <2>t, <2>r, <2>w
    <3> HIDE DEF k
    <3>2. /\ SubSeq(w, k + 1, Len(w)) \in Seq(Message)
          /\ Len(SubSeq(w, k + 1, Len(w))) = Len(w) - k
          /\ \A i \in 1..(Len(w) - k) : SubSeq(w, k + 1, Len(w))[i] = w[k + i]
      BY <2>w, <3>1, LastPart
    <3>3. t = SubSeq(w, k + 1, Len(w))
      BY DEF k
    <3> HIDE DEF t
    <3>4. /\ t \in Seq(Message) /\ Len(t) = Len(history)
          /\ \A i \in 1..Len(history) : t[i] = w[k + i]
      BY <3>1, <3>2, <3>3
    <3> QED
      BY <3>4 DEF k
  <2>1. \A j \in 1..Len(history) : history[j] = t[j]
    <3> SUFFICES ASSUME NEW j \in 1..Len(history) PROVE history[j] = t[j]
      OBVIOUS
    <3> DEFINE i == Len(w) - Len(history) + j
    <3>1. i \in 1..(Len(written) - cleared) /\ cleared + i = Len(written) - Len(history) + j
      BY <2>t, <2>r, <2>w
    <3>2. t[j] = w[i]
      BY <2>s
    <3> HIDE DEF i
    <3> QED
      BY <3>1, <3>2, <2>t, <2>r, <2>w
  <2>2. history = t
    BY <2>t, <2>s, <2>1, SeqEqual
  <2> QED
    BY <2>t, <2>r, <2>w, <2>2 DEF Suffix, LastOf, w
<1> QED
  BY <1>1, Invariance, PTL

(* A message is forgotten behind an older one only when a save has failed, *)
(* and its caller, or a later one, was told.                               *)
THEOREM ForgetsOnlyByFailure == Spec => []ForgottenByFailure
<1>1. IInv => ForgottenByFailure
  BY DEF IInv, ForgotInv, ForgottenByFailure
<1> QED
  BY <1>1, Invariance, PTL

(* The invariant has the messages of the history among the written ones, in   *)
(* their order.                                                            *)
LEMMA OrderKept == IInv => HistoryInOrder
<1> SUFFICES ASSUME IInv, Alone \/ OneStep
             PROVE  /\ \A j \in DOMAIN history : \E i \in DOMAIN written :
                          written[i] = history[j]
                    /\ \A j \in 1..(Len(history) - 1) :
                          Position(history[j]) < Position(history[j + 1])
  BY DEF HistoryInOrder
<1>1. InOrder(history)
  BY DEF IInv, OrderInv
<1>2. Len(history) \in Nat /\ DOMAIN history = 1..Len(history)
  BY LenProperties DEF IInv, TypeOK
<1>3. \A j \in DOMAIN history : /\ Position(history[j]) \in DOMAIN written
                                /\ written[Position(history[j])] = history[j]
  BY <1>1 DEF InOrder, Position
<1>4. \A j \in 1..(Len(history) - 1) :
         j \in DOMAIN history /\ j + 1 \in DOMAIN history /\ j < j + 1
  BY <1>2
<1>5. \A j \in 1..(Len(history) - 1) : Position(history[j]) < Position(history[j + 1])
  BY <1>1, <1>3, <1>4 DEF InOrder
<1> QED
  BY <1>1, <1>5 DEF InOrder

(* No message of a history is ever repeated or brought out of order, even  *)
(* by goroutines that share the memory when its store replaces messages in *)
(* one step.                                                               *)
THEOREM KeepsTheOrder == Spec => []HistoryInOrder
BY OrderKept, Invariance, PTL

(* A question is left without its answer only by a call that failed to     *)
(* save its exchange, or for the moment between the two messages.          *)
THEOREM AnswersFollow == Spec => []OrphanMeansFailedSave
<1>1. IInv => OrphanMeansFailedSave
  <2> SUFFICES ASSUME IInv, Alone, KeepsOrder,
                      NEW j \in DOMAIN history, history[j].role = "human",
                      ~(j < Len(history) /\ history[j + 1] = AI(history[j].call)),
                      outcome[history[j].call] # "saveError"
               PROVE  \E c \in Callers : call[c] = history[j].call /\ pc[c] = "saveAI"
    BY DEF OrphanMeansFailedSave
  <2>1. j \in Orphans(history)
    BY DEF Orphans
  <2> QED
    BY <2>1 DEF IInv, OrphanInv
<1> QED
  BY <1>1, Invariance, PTL

(* A buffer that is done with a save is within its window or its limit.    *)
THEOREM StaysBounded == Spec => []Bounded
<1>1. IInv => Bounded
  BY DEF IInv, BoundInv, Bounded
<1> QED
  BY <1>1, Invariance, PTL

(* The chain is given the answer of the previous call, saved a moment ago. *)
THEOREM LastExchangeSeen == Spec => []ChainSeesLastExchange
<1>1. IInv => ChainSeesLastExchange
  BY DEF IInv
<1> QED
  BY <1>1, Invariance, PTL

(* Every call tells its start, then its end or its error, in that order    *)
(* and never twice, whatever other calls do at the same time.              *)
THEOREM CallbacksMatch == Spec => []EventsMatchOutcome
<1>1. IInv => EventsMatchOutcome
  <2> SUFFICES ASSUME IInv, NEW n \in CallNumbers
               PROVE  events[n] = CASE outcome[n] = "chainError" -> <<"start", "error">>
                      [] outcome[n] \in {"ok", "saveError"} -> <<"start", "end">>
                      [] outcome[n] = "loadError" -> <<>>
                      [] OTHER -> IF \E c \in Callers : call[c] = n /\ pc[c] # "load"
                                  THEN IF \E c \in Callers : call[c] = n /\ pc[c] = "run"
                                       THEN <<"start">> ELSE <<"start", "end">>
                                  ELSE <<>>
    BY DEF EventsMatchOutcome
  <2>1. CASE outcome[n] # "none"
    <3>1. outcome[n] \in {"ok", "loadError", "chainError", "saveError"}
      BY <2>1 DEF IInv, TypeOK, Outcomes
    <3> QED
      BY <3>1 DEF IInv, EventsInv
  <2>2. CASE outcome[n] = "none" /\ \E c \in Callers : call[c] = n
    <3>1. PICK c \in Callers : call[c] = n
      BY <2>2
    <3>2. /\ pc[c] # "idle" /\ \A d \in Callers : call[d] = n => d = c
      BY <2>2, <3>1 DEF IInv, CallInv, CallNumbers
    <3>3. events[n] = CASE pc[c] = "load" -> <<>>
                        [] pc[c] = "run" -> <<"start">>
                        [] OTHER -> <<"start", "end">>
      BY <3>1, <3>2 DEF IInv, EventsInv
    <3>4. (\E d \in Callers : call[d] = n /\ pc[d] # "load") <=> pc[c] # "load"
      BY <3>1, <3>2
    <3>5. (\E d \in Callers : call[d] = n /\ pc[d] = "run") <=> pc[c] = "run"
      BY <3>1, <3>2
    <3>6. CASE pc[c] = "load"
      BY <2>2, <3>3, <3>4, <3>6
    <3>7. CASE pc[c] # "load"
      BY <2>2, <3>3, <3>4, <3>5, <3>7
    <3> QED
      BY <3>6, <3>7
  <2>3. CASE outcome[n] = "none" /\ ~\E c \in Callers : call[c] = n
    <3>1. n > calls
      BY <2>3 DEF IInv, TypeOK, CallInv, CallNumbers
    <3>2. events[n] = <<>>
      BY <3>1 DEF IInv, EventsInv
    <3> QED
      BY <2>3, <3>2
  <2> QED
    BY <2>1, <2>2, <2>3
<1> QED
  BY <1>1, Invariance, PTL
-----------------------------------------------------------------------------
(***************************************************************************)
(* The comment of token_buffer.go:62 holds of a buffer with one caller at  *)
(* a time and a history that does replace its messages: what the buffer is *)
(* about to store is one message shorter than the history.                 *)
(***************************************************************************)
Shorter ==
    \A c \in Callers : pc[c] = "set" /\ kind = "token" => Len(fetched[c]) = Len(history) - 1

LEMMA ShorterStep ==
    ASSUME Alone, TypeOK, PlaceInv, Shorter, [Next]_vars
    PROVE  Shorter'
<1>0. CASE UNCHANGED vars
  BY <1>0 DEF Shorter, vars
<1> SUFFICES ASSUME NEW c \in Callers, Call(c) \/ Clear(c), pc'[c] = "set", kind' = "token"
             PROVE  Len(fetched'[c]) = Len(history') - 1
  <2>1. \A d, e \in Callers : d = e
    BY AloneIsOne
  <2> QED
    BY <1>0, <2>1 DEF Shorter, Next
<1>t. history \in Seq(Message) /\ fetched \in [Callers -> Seq(Message)] /\ pc \in [Callers -> Places]
  BY DEF TypeOK, Places
<1>1. kind = "token"
  BY Others
<1>2. Prune(c) /\ history # <<>>
  BY <1>1, <1>t DEF Call, SaveContext, Begin, LoadMemoryVariables, LoadFails, ChainFails,
     ChainSucceeds, SaveFails, AddUserMessage, AddAIMessage, Check, Prune, SetMessages,
     SetMessagesFails, ClearMessages, InsertMessages, PruneFails, AfterSet, Clear, Return, Goto
<1>3. fetched'[c] = Tail(history) /\ history' = history
  BY <1>2, <1>t DEF Prune
<1> QED
  BY <1>2, <1>3, <1>t, TailOfHistory

THEOREM PruningShortensAlone ==
    ASSUME Alone, Overwrite
    PROVE  Spec => PruningShortens
<1>1. Init => Shorter
  BY DEF Init, Shorter
<1>2. IInv /\ Shorter /\ [Next]_vars => Shorter'
  BY ShorterStep DEF IInv
<1>3. Shorter /\ [Next]_vars =>
         [\A c \in Callers :
             kind = "token" /\ SetMessages(c) => Len(history') = Len(history) - 1]_vars
  BY DEF Shorter, SetMessages, Overwrites
<1> QED
  BY <1>1, <1>2, <1>3, Invariance, PTL DEF Spec, PruningShortens
=============================================================================
