------------------------- MODULE ConversationMemory -------------------------
(***************************************************************************)
(* chains.Call around a chain with conversation memory: the memory is      *)
(* loaded, the chain runs, callbacks are told, and the exchange is saved   *)
(* message by message and pruned (memory/buffer.go, window_buffer.go,      *)
(* token_buffer.go).  Several goroutines may call chains that share one    *)
(* memory, as the workers of chains.Apply do.                              *)
(*                                                                         *)
(* One statement on the store behind the chat history is one step here;    *)
(* nothing holds between two statements.  The stores differ in how they    *)
(* replace all messages: see Stores.  A message is its role and the call   *)
(* it belongs to.                                                          *)
(***************************************************************************)
EXTENDS Integers, Sequences, FiniteSets

CONSTANTS
    Callers,            \* the goroutines that use the memory
    MaxCalls,           \* bound: calls of chains.Call in all
    Kinds,              \* the memories the chain may have
    windowSize,         \* argument of NewConversationWindowBuffer
    MaxTokenLimit,      \* argument of NewConversationTokenBuffer
    Tokens,             \* Tokens[role]: tokens of a message of that role
    Stores,             \* how the history may replace its messages: in "memory",
                        \* where nothing fails, by a "script" with a transaction
                        \* (sqlite3), by clearing and a "batch" of inserts that
                        \* fails as a whole (alloydb, cloudsql), or by clearing
                        \* and inserting "stepwise", up to the message that
                        \* fails (mongo)
    Overwrite,          \* SetMessages and Clear of sqlite3 take effect
    FaultyStore,        \* operations on a database may fail
    BadValues           \* inputs or outputs may lack the key that is saved

ASSUME CallersAssumption == IsFiniteSet(Callers)
ASSUME KindsAssumption == Kinds \subseteq {"simple", "buffer", "window", "token"}
ASSUME StoresAssumption == Stores \subseteq {"memory", "script", "batch", "stepwise"}
ASSUME BoundAssumption == MaxCalls \in Nat /\ windowSize \in Int /\ MaxTokenLimit \in Int
ASSUME TokensAssumption == Tokens \in [{"human", "ai"} -> Nat]
ASSUME FlagsAssumption == {Overwrite, FaultyStore, BadValues} \subseteq BOOLEAN

VARIABLES
    kind,       \* the memory of the chain: one of Kinds, fixed
    store,      \* the store of its history: one of Stores, fixed
    pc,         \* where each caller is in chains.Call
    call,       \* the number of the call each caller is in, or was in last
    calls,      \* calls begun so far
    history,    \* the chat history
    open,       \* sqlite3 has a transaction that was not ended, on its connection
    loaded,     \* what LoadMemoryVariables gave each caller
    fetched,    \* what each caller is about to give to SetMessages
    events,     \* events[n]: callbacks of call n
    outcome,    \* outcome[n]: how call n ended
    written,    \* every message ever added to the history, in order
    cleared     \* how many of them were written before the latest Clear

vars == <<kind, store, pc, call, calls, history, open, loaded, fetched, events, outcome,
          written, cleared>>
-----------------------------------------------------------------------------
defaultConversationWindowSize == 5
defaultMessageSize == 2

ConversationWindowSize ==
    IF windowSize <= 0 THEN defaultConversationWindowSize ELSE windowSize

CallNumbers == 1..MaxCalls
Message == [role : {"human", "ai"}, call : CallNumbers]
Outcomes == {"none", "ok", "loadError", "chainError", "saveError"}

Human(n) == [role |-> "human", call |-> n]
AI(n) == [role |-> "ai", call |-> n]

(* The last n messages of h.                                               *)
LastOf(h, n) == SubSeq(h, Len(h) - n + 1, Len(h))

(* Deviation: the oldest messages are kept.                                *)
cutMessagesKeepsOldest(h) ==
    IF Len(h) > ConversationWindowSize * defaultMessageSize
    THEN SubSeq(h, 1, ConversationWindowSize * defaultMessageSize)
    ELSE h

(* The window is counted in pairs of messages, the newest are kept.        *)
cutMessages(h) ==
    IF Len(h) > ConversationWindowSize * defaultMessageSize
    THEN LastOf(h, ConversationWindowSize * defaultMessageSize)
    ELSE h

getNumTokensFromMessages(h) ==
    LET sum[n \in 0..Len(h)] ==
            IF n = 0 THEN 0 ELSE sum[n - 1] + Tokens[h[n].role]
    IN  sum[Len(h)]

(* Is there something to prune?                                            *)
Excess(h) ==
    CASE kind = "window" -> Len(h) > ConversationWindowSize * defaultMessageSize
      [] kind = "token"  -> getNumTokensFromMessages(h) > MaxTokenLimit
      [] OTHER           -> FALSE

TypeOK ==
    /\ kind \in Kinds /\ store \in Stores
    /\ pc \in [Callers -> {"idle", "load", "run", "saveUser", "saveAI",
                           "check", "prune", "set", "insert"}]
    /\ call \in [Callers -> 0..MaxCalls]
    /\ calls \in 0..MaxCalls
    /\ history \in Seq(Message)
    /\ open \in BOOLEAN /\ (open => store = "script" /\ Overwrite)
    /\ loaded \in [Callers -> Seq(Message)]
    /\ fetched \in [Callers -> Seq(Message)]
    /\ events \in [CallNumbers -> Seq({"start", "end", "error"})]
    /\ outcome \in [CallNumbers -> Outcomes]
    /\ written \in Seq(Message)
    /\ cleared \in 0..Len(written)

Init ==
    /\ kind \in Kinds /\ store \in Stores
    /\ pc = [c \in Callers |-> "idle"]
    /\ call = [c \in Callers |-> 0]
    /\ calls = 0
    /\ history = <<>> /\ open = FALSE
    /\ loaded = [c \in Callers |-> <<>>]
    /\ fetched = [c \in Callers |-> <<>>]
    /\ events = [n \in CallNumbers |-> <<>>]
    /\ outcome = [n \in CallNumbers |-> "none"]
    /\ written = <<>>
    /\ cleared = 0
-----------------------------------------------------------------------------
(* The history in memory replaces messages in one step, sqlite3 as far as  *)
(* anyone sees.                                                            *)
OneStep == store \in {"memory", "script"}
Overwrites == store = "script" => Overwrite
Faulty == FaultyStore /\ store # "memory"

Goto(c, label) == pc' = [pc EXCEPT ![c] = label]

(* chains.Call returns to caller c.                                        *)
Return(c, o) ==
    /\ Goto(c, "idle")
    /\ outcome' = [outcome EXCEPT ![call[c]] = o]

Tell(c, es) == events' = [events EXCEPT ![call[c]] = @ \o es]

Begin(c) ==
    /\ pc[c] = "idle"
    /\ calls < MaxCalls
    /\ calls' = calls + 1
    /\ call' = [call EXCEPT ![c] = calls + 1]
    /\ loaded' = [loaded EXCEPT ![c] = <<>>]
    /\ fetched' = [fetched EXCEPT ![c] = <<>>]
    /\ Goto(c, "load")
    /\ UNCHANGED <<kind, store, open, cleared, history, events, outcome, written>>

(* The messages the memory hands to the chain.                             *)
Loadable ==
    CASE kind = "simple" -> <<>>
      [] kind = "window" -> cutMessages(history)
      [] OTHER           -> history

(* Deviation: the question is stored before the chain has answered it.     *)
LoadAndRemember(c) ==
    /\ pc[c] = "load"
    /\ loaded' = [loaded EXCEPT ![c] = Loadable]
    /\ history' = Append(history, Human(call[c]))
    /\ written' = Append(written, Human(call[c]))
    /\ events' = [events EXCEPT ![call[c]] = @ \o <<"start">>]
    /\ Goto(c, "run")
    /\ UNCHANGED <<kind, store, open, cleared, call, calls, fetched, outcome>>

LoadMemoryVariables(c) ==
    /\ pc[c] = "load"
    /\ loaded' = [loaded EXCEPT ![c] = Loadable]
    /\ Tell(c, <<"start">>)
    /\ Goto(c, "run")
    /\ UNCHANGED <<kind, store, open, cleared, call, calls, history, fetched, outcome, written>>

LoadFails(c) ==
    /\ pc[c] = "load"
    /\ Faulty /\ kind # "simple"
    /\ Return(c, "loadError")
    /\ UNCHANGED <<kind, store, open, cleared, call, calls, history, loaded, fetched, events, written>>

(* callChain: invalid inputs, an error of the chain or invalid outputs.    *)
ChainFails(c) ==
    /\ pc[c] = "run"
    /\ Tell(c, <<"error">>)
    /\ Return(c, "chainError")
    /\ UNCHANGED <<kind, store, open, cleared, call, calls, history, loaded, fetched, written>>

(* Deviation: HandleChainEnd is called after the exchange is saved, so     *)
(* that a failed save leaves a call without an end.                        *)
ChainSucceedsQuietly(c) ==
    /\ pc[c] = "run"
    /\ \/ /\ kind = "simple"
          /\ Tell(c, <<"end">>)
          /\ Return(c, "ok")
       \/ /\ kind # "simple"
          /\ Goto(c, "saveUser")
          /\ UNCHANGED <<outcome, events>>
    /\ UNCHANGED <<kind, store, open, cleared, call, calls, history, loaded, fetched, written>>

ChainSucceeds(c) ==
    /\ pc[c] = "run"
    /\ Tell(c, <<"end">>)
    /\ \/ /\ kind = "simple"
          /\ Return(c, "ok")
       \/ /\ kind # "simple"
          /\ Goto(c, "saveUser")
          /\ UNCHANGED outcome
    /\ UNCHANGED <<kind, store, open, cleared, call, calls, history, loaded, fetched, written>>

-----------------------------------------------------------------------------
(* ConversationBuffer.SaveContext.  The human message is stored before the *)
(* outputs are looked at.                                                  *)

Add(m) ==
    /\ history' = Append(history, m)
    /\ written' = Append(written, m)

SaveFails(c) ==
    /\ pc[c] \in {"saveUser", "saveAI"}
    /\ Faulty \/ BadValues
    /\ Return(c, "saveError")
    /\ UNCHANGED <<kind, store, open, cleared, call, calls, history, loaded, fetched, events, written>>

AddUserMessage(c) ==
    /\ pc[c] = "saveUser"
    /\ Add(Human(call[c]))
    /\ Goto(c, "saveAI")
    /\ UNCHANGED <<kind, store, open, cleared, call, calls, loaded, fetched, events, outcome>>

(* Deviation: the answer is stored and the window is not checked.          *)
AddAIMessageOnly(c) ==
    /\ pc[c] = "saveAI"
    /\ Add(AI(call[c]))
    /\ Return(c, "ok")
    /\ UNCHANGED <<kind, store, open, cleared, call, calls, loaded, fetched, events>>

AddAIMessage(c) ==
    /\ pc[c] = "saveAI"
    /\ Add(AI(call[c]))
    /\ \/ /\ kind = "buffer"
          /\ Return(c, "ok")
       \/ /\ kind \in {"window", "token"}
          /\ Goto(c, "check")
          /\ UNCHANGED outcome
    /\ UNCHANGED <<kind, store, open, cleared, call, calls, loaded, fetched, events>>
-----------------------------------------------------------------------------
(* SaveContext of the window and of the token buffer goes on: the history  *)
(* is read and, while there is too much of it, replaced by a shorter one.  *)

Check(c) ==
    /\ pc[c] = "check"
    /\ \/ /\ ~Excess(history)
          /\ Return(c, "ok")
          /\ UNCHANGED fetched
       \/ /\ Excess(history) /\ kind = "window"
          /\ fetched' = [fetched EXCEPT ![c] = cutMessages(history)]
          /\ Goto(c, "set")
          /\ UNCHANGED outcome
       \/ /\ Excess(history) /\ kind = "token"
          /\ Goto(c, "prune")
          /\ UNCHANGED <<fetched, outcome>>
    /\ UNCHANGED <<kind, store, open, cleared, call, calls, history, loaded, events, written>>

(* Deviation: the newest message is dropped.                               *)
PruneNewest(c) ==
    /\ pc[c] = "prune"
    /\ \/ /\ history = <<>>
          /\ Return(c, "ok")
          /\ UNCHANGED fetched
       \/ /\ history # <<>>
          /\ fetched' = [fetched EXCEPT ![c] = SubSeq(history, 1, Len(history) - 1)]
          /\ Goto(c, "set")
          /\ UNCHANGED outcome
    /\ UNCHANGED <<kind, store, open, cleared, call, calls, history, loaded, events, written>>

(* Deviation: the slot of the removed message stays, with a zero value.    *)
PruneLeavesZero(c) ==
    /\ pc[c] = "prune"
    /\ history # <<>>
    /\ fetched' = [fetched EXCEPT ![c] =
                      Append(Tail(history), [role |-> "none", call |-> 0])]
    /\ Goto(c, "set")
    /\ UNCHANGED <<kind, store, open, cleared, call, calls, history, loaded, events, outcome, written>>

(* The token buffer reads the history again and drops the oldest message.  *)
Prune(c) ==
    /\ pc[c] = "prune"
    /\ \/ /\ history = <<>>
          /\ Return(c, "ok")
          /\ UNCHANGED fetched
       \/ /\ history # <<>>
          /\ fetched' = [fetched EXCEPT ![c] = Tail(history)]
          /\ Goto(c, "set")
          /\ UNCHANGED outcome
    /\ UNCHANGED <<kind, store, open, cleared, call, calls, history, loaded, events, written>>

(* After a replacement the token buffer counts again, the window is done.  *)
AfterSet(c) ==
    \/ /\ kind = "window"
       /\ Return(c, "ok")
    \/ /\ kind = "token"
       /\ Goto(c, "check")
       /\ UNCHANGED outcome

(* Deviation: the new messages are added to the old ones.                  *)
SetMessagesAppends(c) ==
    /\ pc[c] = "set" /\ OneStep
    /\ history' = history \o fetched[c]
    /\ Return(c, "ok")
    /\ UNCHANGED <<kind, store, open, cleared, call, calls, loaded, fetched, events, written>>

(* Deviation: the history ignores the new messages.                        *)
SetMessagesIgnored(c) ==
    /\ pc[c] = "set" /\ OneStep
    /\ history' = history
    /\ AfterSet(c)
    /\ UNCHANGED <<kind, store, open, cleared, call, calls, loaded, fetched, events, written>>

(* SetMessages in one step. sqlite3 ignores it unless Overwrite is set.    *)
SetMessages(c) ==
    /\ pc[c] = "set" /\ OneStep
    /\ store = "script" /\ Overwrite => ~open /\ fetched[c] # <<>>
    /\ history' = IF Overwrites THEN fetched[c] ELSE history
    /\ AfterSet(c)
    /\ UNCHANGED <<kind, store, open, cleared, call, calls, loaded, fetched, events, written>>

(* BEGIN; DELETE; INSERT; COMMIT as one text. BEGIN is an error while a    *)
(* transaction is open, and any error after it leaves one open: one of the *)
(* database, or that of an INSERT without rows.                            *)
SetMessagesFails(c) ==
    /\ pc[c] = "set" /\ store = "script" /\ Overwrite
    /\ \/ (open \/ FaultyStore) /\ UNCHANGED <<history, open>>
       \/ ~open /\ fetched[c] = <<>> /\ history' = <<>> /\ open' = TRUE
       \/ /\ ~open /\ FaultyStore /\ open' = TRUE
          /\ history' \in {history, <<>>, fetched[c]}
    /\ Return(c, "saveError")
    /\ UNCHANGED <<kind, store, cleared, call, calls, loaded, fetched, events, written>>

(* SetMessages in two: the old messages are deleted, the new ones inserted. *)
ClearMessages(c) ==
    /\ pc[c] = "set" /\ ~OneStep
    /\ history' = <<>>
    /\ Goto(c, "insert")
    /\ UNCHANGED <<kind, store, open, cleared, call, calls, loaded, fetched, events,
                   outcome, written>>

(* Mongo does not accept an empty list of documents.                       *)
Refused(c) == store = "stepwise" /\ fetched[c] = <<>>

InsertMessages(c) ==
    /\ pc[c] = "insert"
    /\ ~Refused(c)
    /\ history' = history \o fetched[c]
    /\ AfterSet(c)
    /\ UNCHANGED <<kind, store, open, cleared, call, calls, loaded, fetched, events, written>>

(* The messages a failed insertion leaves behind.                          *)
HalfInserted(c) ==
    {SubSeq(fetched[c], 1, n) :
        n \in IF store = "stepwise" THEN 0..Len(fetched[c]) ELSE {0}}

(* Deviation: an error of the insertion is not returned.                   *)
PruneFailsSilently(c) ==
    /\ pc[c] \in {"check", "prune", "set", "insert"}
    /\ Faulty /\ (pc[c] = "set" => ~OneStep)
    /\ \/ pc[c] # "insert" /\ UNCHANGED history /\ Return(c, "saveError")
       \/ pc[c] = "insert" /\ (\E h \in HalfInserted(c) : history' = history \o h)
          /\ AfterSet(c)
    /\ UNCHANGED <<kind, store, open, cleared, call, calls, loaded, fetched, events, written>>

(* Reading the history, clearing or filling it fails.                      *)
PruneFails(c) ==
    /\ pc[c] \in {"check", "prune", "set", "insert"}
    /\ Faulty \/ (pc[c] = "insert" /\ Refused(c))
    /\ pc[c] = "set" => ~OneStep
    /\ \/ pc[c] # "insert" /\ UNCHANGED history
       \/ pc[c] = "insert" /\ \E h \in HalfInserted(c) : history' = history \o h
    /\ Return(c, "saveError")
    /\ UNCHANGED <<kind, store, open, cleared, call, calls, loaded, fetched, events, written>>
-----------------------------------------------------------------------------
(* Memory.Clear: the owner of caller c starts a new conversation.  A       *)
(* simple memory has nothing to clear.                                     *)
Clear(c) ==
    /\ pc[c] = "idle"
    /\ kind # "simple"
    /\ history' = IF Overwrites THEN <<>> ELSE history
    /\ cleared' = Len(written)
    /\ UNCHANGED <<kind, store, open, pc, call, calls, loaded, fetched, events, outcome, written>>

SaveContext(c) ==
    \/ SaveFails(c) \/ AddUserMessage(c) \/ AddAIMessage(c)
    \/ Check(c) \/ Prune(c)
    \/ SetMessages(c) \/ SetMessagesFails(c)
    \/ ClearMessages(c) \/ InsertMessages(c) \/ PruneFails(c)

Call(c) ==
    \/ Begin(c) \/ LoadMemoryVariables(c) \/ LoadFails(c)
    \/ ChainFails(c) \/ ChainSucceeds(c) \/ SaveContext(c)

Next == \E c \in Callers : Call(c) \/ Clear(c)

Spec == Init /\ [][Next]_vars

(* Every caller is scheduled; the chain and the history answer.            *)
FairSpec == Spec /\ \A c \in Callers : WF_vars(Call(c))
-----------------------------------------------------------------------------
(***************************************************************************)
(* Properties.                                                             *)
(***************************************************************************)

Alone == Cardinality(Callers) = 1

Suffix(s, t) == Len(s) <= Len(t) /\ s = LastOf(t, Len(s))

(* A memory used by one caller at a time never forgets in the middle, and  *)
(* what was cleared stays forgotten: the history is what was written last, *)
(* whatever fails on the way.  (A store that inserts stepwise may keep the *)
(* older part of what it was given when it fails.)                         *)
KeepsOrder == store # "stepwise" \/ \A n \in CallNumbers : outcome[n] # "saveError"

HistoryIsRecent ==
    Alone /\ Overwrites /\ KeepsOrder =>
        Suffix(history, SubSeq(written, cleared + 1, Len(written)))

(* A stale or half-done SetMessages may lose messages and bring pruned     *)
(* ones back, but it never repeats or reorders any: with one caller for    *)
(* every store, with several when messages are replaced in one transaction. *)
Position(m) == CHOOSE i \in DOMAIN written : written[i] = m

HistoryInOrder ==
    Alone \/ OneStep =>
        /\ \A j \in DOMAIN history : \E i \in DOMAIN written : written[i] = history[j]
        /\ \A j \in 1..(Len(history) - 1) :
              Position(history[j]) < Position(history[j + 1])

Remembers(s, m) == \E j \in DOMAIN s : s[j] = m

ForgetsByFailure(s) ==
    \A i, k \in DOMAIN written :
        i < k /\ Remembers(s, written[i]) /\ ~Remembers(s, written[k]) =>
            \E n \in written[k].call..MaxCalls : outcome[n] = "saveError"

(* A message is forgotten while an older one is kept only by a call that   *)
(* failed to save, its own or a later one: a store that inserts stepwise   *)
(* may keep the older part alone, and then the caller is told.             *)
ForgottenByFailure == Alone /\ Overwrites => ForgetsByFailure(history)

(* A message of the human without the answer stays behind only when that   *)
(* call failed to save, or when the answer alone was pruned away with      *)
(* everything older: SaveContext stores one message after the other.       *)
OrphanMeansFailedSave ==
    Alone /\ KeepsOrder => \A j \in DOMAIN history :
        history[j].role = "human" =>
            \/ j < Len(history) /\ history[j + 1] = AI(history[j].call)
            \/ outcome[history[j].call] = "saveError"
            \/ \E c \in Callers : call[c] = history[j].call /\ pc[c] = "saveAI"

(* Once a call with its save has succeeded the buffer is within its bound. *)
Bounded ==
    Alone /\ Overwrites =>
        \A c \in Callers :
            pc[c] = "idle" /\ call[c] > 0 /\ outcome[call[c]] = "ok" =>
                ~Excess(history) \/ history = <<>>

(* The chain is told about the latest exchange that was saved: a prompt    *)
(* built from the memory ends with the answer of the previous call, unless *)
(* the memory was cleared since.                                           *)
ChainSeesLastExchange ==
    Alone /\ kind \in {"buffer", "window"} =>
        \A c \in Callers :
            /\ pc[c] = "run" /\ call[c] > 1
            /\ outcome[call[c] - 1] = "ok"
            /\ cleared < Len(written)
            => /\ loaded[c] # <<>>
               /\ loaded[c][Len(loaded[c])] = AI(call[c] - 1)

(* Whoever is told that a chain started is told, once, how it ended: with  *)
(* an error exactly when the chain failed.  A failed save comes after the  *)
(* end and changes nothing about it.                                       *)
EventsMatchOutcome ==
    \A n \in CallNumbers :
        events[n] = CASE outcome[n] = "chainError" -> <<"start", "error">>
                      [] outcome[n] \in {"ok", "saveError"} -> <<"start", "end">>
                      [] outcome[n] = "loadError" -> <<>>
                      [] OTHER -> IF \E c \in Callers : call[c] = n /\ pc[c] # "load"
                                  THEN IF \E c \in Callers : call[c] = n /\ pc[c] = "run"
                                       THEN <<"start">> ELSE <<"start", "end">>
                                  ELSE <<>>

(* "While currBufferLength is greater than MaxTokenLimit we keep removing  *)
(* messages from the memory from the oldest" (token_buffer.go:62): every   *)
(* replacement by the token buffer shortens the history by one.            *)
PruningShortens ==
    [][\A c \in Callers :
          kind = "token" /\ SetMessages(c) => Len(history') = Len(history) - 1]_vars

(* Every call of chains.Call returns: pruning comes to an end.             *)
CallsReturn == \A c \in Callers : pc[c] # "idle" ~> pc[c] = "idle"
-----------------------------------------------------------------------------
(***************************************************************************)
(* The inductive invariant, in the parts the properties need.  What holds  *)
(* of the history holds of the messages a caller is about to replace it    *)
(* with, too.                                                              *)
(***************************************************************************)

Replacing(c) == pc[c] \in {"set", "insert"}

(* A call is in one caller's hands from its beginning to its outcome.      *)
CallInv ==
    /\ \A c \in Callers :
          /\ call[c] <= calls
          /\ pc[c] # "idle" => call[c] > 0
          /\ call[c] > 0 => (outcome[call[c]] = "none" <=> pc[c] # "idle")
          /\ Alone => call[c] = calls
          /\ \A d \in Callers : call[c] > 0 /\ call[c] = call[d] => c = d
    /\ \A n \in CallNumbers :
          /\ n > calls => outcome[n] = "none"
          /\ n <= calls /\ outcome[n] = "none" => \E c \in Callers : call[c] = n

(* Only some memories and stores take a caller to these places.            *)
PlaceInv ==
    \A c \in Callers :
        /\ pc[c] \in {"saveUser", "saveAI"} => kind # "simple"
        /\ pc[c] \in {"check", "set", "insert"} => kind \in {"window", "token"}
        /\ pc[c] = "prune" => kind = "token"
        /\ pc[c] = "insert" => ~OneStep
        /\ pc[c] = "insert" /\ Alone => history = <<>>

EventsInv ==
    /\ \A c \in Callers : pc[c] # "idle" =>
          events[call[c]] = CASE pc[c] = "load" -> <<>>
                              [] pc[c] = "run" -> <<"start">>
                              [] OTHER -> <<"start", "end">>
    /\ \A n \in CallNumbers :
          /\ n > calls => events[n] = <<>>
          /\ outcome[n] = "loadError" => events[n] = <<>>
          /\ outcome[n] = "chainError" => events[n] = <<"start", "error">>
          /\ outcome[n] \in {"ok", "saveError"} => events[n] = <<"start", "end">>

(* A message is written once, by its call.                                 *)
WrittenInv ==
    /\ \A i, j \in DOMAIN written : written[i] = written[j] => i = j
    /\ \A i \in DOMAIN written : written[i].call <= calls
    /\ \A c \in Callers : \A i \in DOMAIN written :
          /\ pc[c] \in {"load", "run", "saveUser"} => written[i].call # call[c]
          /\ pc[c] = "saveAI" => written[i] # AI(call[c])

InOrder(s) ==
    /\ \A j \in DOMAIN s : \E i \in DOMAIN written : written[i] = s[j]
    /\ \A j, k \in DOMAIN s : \A a, b \in DOMAIN written :
          j < k /\ written[a] = s[j] /\ written[b] = s[k] => a < b

OrderInv ==
    Alone \/ OneStep =>
        /\ InOrder(history)
        /\ \A c \in Callers : Replacing(c) => InOrder(fetched[c])

(* The latest messages since the memory was cleared, all of them or some.  *)
Recent(s) ==
    /\ Len(s) <= Len(written) - cleared
    /\ \A j \in DOMAIN s : s[j] = written[Len(written) - Len(s) + j]

RecentInv ==
    Alone /\ Overwrites /\ KeepsOrder =>
        /\ Recent(history)
        /\ \A c \in Callers : Replacing(c) => Recent(fetched[c])

ForgotInv ==
    Alone /\ Overwrites =>
        /\ ForgetsByFailure(history)
        /\ \A c \in Callers : Replacing(c) => ForgetsByFailure(fetched[c])

(* Questions without their answer, of calls that have not failed to save.  *)
Orphans(s) ==
    {j \in DOMAIN s :
        /\ s[j].role = "human"
        /\ ~(j < Len(s) /\ s[j + 1] = AI(s[j].call))
        /\ outcome[s[j].call] # "saveError"}

OrphanInv ==
    Alone /\ KeepsOrder =>
        /\ \A j \in Orphans(history) : \E c \in Callers :
              pc[c] = "saveAI" /\ j = Len(history) /\ history[j].call = call[c]
        /\ \A c \in Callers : Replacing(c) => Orphans(fetched[c]) = {}

BoundInv ==
    Alone /\ Overwrites => \A c \in Callers :
        /\ pc[c] = "idle" /\ call[c] > 0 /\ outcome[call[c]] = "ok" =>
              ~Excess(history) \/ history = <<>>
        /\ Replacing(c) /\ kind = "window" =>
              Len(fetched[c]) <= ConversationWindowSize * defaultMessageSize

(* The latest message is the answer of this call.                          *)
EndsWith(s, n) == s # <<>> /\ s[Len(s)] = AI(n)

LatestInv ==
    Alone /\ kind \in {"buffer", "window"} => \A c \in Callers :
        /\ /\ pc[c] = "idle" /\ call[c] > 0 /\ outcome[call[c]] = "ok"
           /\ cleared < Len(written)
           => EndsWith(history, call[c])
        /\ /\ pc[c] = "load" /\ call[c] > 1 /\ outcome[call[c] - 1] = "ok"
           /\ cleared < Len(written)
           => EndsWith(history, call[c] - 1)
        /\ pc[c] \in {"check", "set"} => EndsWith(history, call[c])
        /\ Replacing(c) => EndsWith(fetched[c], call[c])

IInv ==
    /\ TypeOK /\ CallInv /\ PlaceInv /\ EventsInv /\ WrittenInv
    /\ OrderInv /\ RecentInv /\ ForgotInv /\ OrphanInv /\ BoundInv /\ LatestInv
    /\ ChainSeesLastExchange
=============================================================================
