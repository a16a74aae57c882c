---------------------------- MODULE ChatHistory ----------------------------
(***************************************************************************)
(* The histories that store the messages of a conversation: adding,        *)
(* reading, clearing and replacing the messages of a session, by callers   *)
(* that share a session or have one each, with services that fail and a    *)
(* program that is stopped.                                                *)
(*                                                                         *)
(* The databases and services are external. SQLite is used over one        *)
(* connection, and rows of the same second are read in the order they were *)
(* written.                                                                *)
(***************************************************************************)
EXTENDS Naturals, Places

CONSTANTS Callers,
          MaxCalls,   \* calls that change a history
          Limit       \* messages a read of sqlite3 returns

Stores == {"memory", "sqlite3", "mongo", "alloydb", "cloudsql", "zep"}
Sessions == Callers   \* enough for one of each caller's own
Types == {"human", "ai", "system", "function", "tool"}
Lists == {<<>>, <<"human">>, <<"human", "ai">>, <<"system", "tool">>}

\* A message of a session: its type, and what it says is the place it was
\* written at.
Rows(sessions, types) == [session : sessions, type : types, call : 1..MaxCalls, at : 1..2]
Row == Rows(Sessions, Types)

VARIABLES store,
          overwrite,  \* sqlite3 is allowed to replace and delete
          session,    \* of each caller
          rows,       \* the messages the store holds, in the order written
          saved,      \* those of them that survive the program
          open,       \* sqlite3 has a transaction that was not ended
          pc,         \* where each caller is: "idle", "append", "insert", "answer"
          held,       \* what a caller has in hand
          call,       \* calls so far
          said,       \* the messages each session was told are in it
          unsure,     \* an error, a race or a stop leaves open what is in it
          outcome     \* of the last call

vars == <<store, overwrite, session, rows, saved, open, pc, held, call, said, unsure, outcome>>

SQL == {"alloydb", "cloudsql"}
Remote == {"mongo", "alloydb", "cloudsql", "zep"}

KeptOf(all, s) == Those(all, Rows({s}, Types))
Kept(s) == KeptOf(rows, s)
Others(s) == Those(rows, Rows(Sessions \ {s}, Types))
TypesOf(messages) == {messages[k].type : k \in DOMAIN messages}

Outcome == [op |-> "none", session |-> CHOOSE s \in Sessions : TRUE, how |-> "ok", service |-> TRUE,
            messages |-> <<>>, now |-> <<>>]

Init ==
    /\ store \in Stores
    /\ overwrite \in IF store = "sqlite3" THEN BOOLEAN ELSE {TRUE}
    /\ session \in {[c \in Callers |-> CHOOSE s \in Sessions : TRUE],
                    [c \in Callers |-> c]}
    /\ rows = <<>> /\ saved = <<>> /\ open = FALSE
    /\ pc = [c \in Callers |-> "idle"] /\ held = [c \in Callers |-> <<>>]
    /\ call = 0
    /\ said = [s \in Sessions |-> <<>>] /\ unsure = [s \in Sessions |-> FALSE]
    /\ outcome = Outcome

----------------------------------------------------------------------------
(* The parts of the actions.                                               *)

Goto(c, label) == pc' = [pc EXCEPT ![c] = label]

Ends(c, op, how) ==
    /\ Goto(c, "idle")
    /\ held' = [held EXCEPT ![c] = <<>>]
    /\ outcome' = [Outcome EXCEPT !.op = op, !.session = session[c], !.how = how,
                                  !.now = KeptOf(rows', session[c])]

\* A write is saved unless a transaction is open.
Writes(all) == rows' = all /\ saved' = IF open THEN saved ELSE all
WritesNothing == UNCHANGED <<rows, saved, open>>

Told(c, messages) == said' = [said EXCEPT ![session[c]] = messages]

Busy(c) == \E d \in Callers \ {c} : session[d] = session[c] /\ pc[d] # "idle"
SureUnless(c, failed) ==
    unsure' = [unsure EXCEPT ![session[c]] = @ \/ failed \/ open \/ Busy(c)]

Starts(c) == pc[c] = "idle" /\ call < MaxCalls /\ call' = call + 1

RowsOf(c, types) == [k \in DOMAIN types |->
    [session |-> session[c], type |-> types[k], call |-> call + 1, at |-> k]]

\* What zep keeps of them; a message of any other type is logged by the role
\* that it was not given, through a nil pointer.
messagesToZepMessages(types) ==
    IF \E k \in DOMAIN types : types[k] = "system" THEN "panics" ELSE "converts"

----------------------------------------------------------------------------
(* AddMessage, AddUserMessage and AddAIMessage.                            *)

\* The slice is read here and written in Appends.
MemoryAdd(c) ==
    \E type \in Types :
        /\ store = "memory" /\ Starts(c)
        /\ held' = [held EXCEPT ![c] = Kept(session[c]) \o RowsOf(c, <<type>>)]
        /\ Goto(c, "append")
        /\ SureUnless(c, FALSE)
        /\ outcome' = Outcome
        /\ UNCHANGED <<store, overwrite, session, rows, saved, open, said>>

Appends(c) ==
    /\ pc[c] = "append"
    /\ Writes(Others(session[c]) \o held[c])
    /\ Told(c, Append(said[session[c]], Last(held[c])))
    /\ SureUnless(c, FALSE)
    /\ Ends(c, "add", "ok")
    /\ UNCHANGED <<store, overwrite, session, open, call>>

\* One statement or request, of one message or of a batch.
Inserts(c, types) ==
    /\ Starts(c)
    /\ Writes(rows \o RowsOf(c, types)) /\ UNCHANGED open
    /\ Told(c, said[session[c]] \o RowsOf(c, types))
    /\ SureUnless(c, FALSE)
    /\ Ends(c, "add", "ok")
    /\ UNCHANGED <<store, overwrite, session>>

SqliteAdd(c) == store = "sqlite3" /\ \E type \in Types : Inserts(c, <<type>>)
MongoAdd(c) == store = "mongo" /\ \E type \in Types : Inserts(c, <<type>>)
AlloyDBAdd(c) == store = "alloydb" /\ \E type \in Types : Inserts(c, <<type>>)
CloudSQLAdd(c) == store = "cloudsql" /\ \E type \in Types : Inserts(c, <<type>>)

AlloyDBAddMessages(c) == store = "alloydb" /\ \E list \in Lists : Inserts(c, list)
CloudSQLAddMessages(c) == store = "cloudsql" /\ \E list \in Lists : Inserts(c, list)

ZepAdd(c) ==
    /\ store = "zep"
    /\ \E type \in Types :
          \/ messagesToZepMessages(<<type>>) = "converts" /\ Inserts(c, <<type>>)
          \/ /\ messagesToZepMessages(<<type>>) = "panics" /\ Starts(c)
             /\ WritesNothing
             /\ Ends(c, "add", "panic")
             /\ UNCHANGED <<store, overwrite, session, said, unsure>>

\* The service is not reached, or its reply is not.
AddFails(c) ==
    /\ store \in Remote /\ Starts(c)
    /\ Writes(rows \o RowsOf(c, <<"human">>)) \/ UNCHANGED <<rows, saved>>
    /\ SureUnless(c, TRUE)
    /\ Ends(c, "add", "error")
    /\ UNCHANGED <<store, overwrite, session, open, said>>

(* zep.Memory.SaveContext: the question, then the answer.                  *)
SaveContext(c) ==
    /\ store = "zep" /\ Starts(c)
    /\ Writes(rows \o RowsOf(c, <<"human">>))
    /\ Told(c, said[session[c]] \o RowsOf(c, <<"human">>))
    /\ held' = [held EXCEPT ![c] = <<[Last(rows') EXCEPT !.type = "ai", !.at = 2]>>]
    /\ Goto(c, "answer")
    /\ SureUnless(c, FALSE)
    /\ outcome' = Outcome
    /\ UNCHANGED <<store, overwrite, session, open>>

\* There is no single value under the output key, or the service fails.
SaveContextEnds(c) ==
    /\ pc[c] = "answer"
    /\ \/ /\ Writes(rows \o held[c])
          /\ Told(c, said[session[c]] \o held[c])
          /\ Ends(c, "save", "ok")
       \/ /\ UNCHANGED <<rows, saved, said>>
          /\ Ends(c, "save", "error")
    /\ SureUnless(c, FALSE)
    /\ UNCHANGED <<store, overwrite, session, open, call>>

----------------------------------------------------------------------------
(* Clear.                                                                  *)

MayDelete == store = "sqlite3" => overwrite

Clear(c) ==
    /\ Starts(c)
    /\ IF MayDelete THEN Writes(Others(session[c])) /\ Told(c, <<>>)
                    ELSE UNCHANGED <<rows, saved, said>>
    /\ SureUnless(c, FALSE)
    /\ Ends(c, "clear", "ok")
    /\ UNCHANGED <<store, overwrite, session, open>>

ClearFails(c) ==
    /\ store \in Remote /\ Starts(c)
    /\ Writes(Others(session[c])) \/ UNCHANGED <<rows, saved>>
    /\ SureUnless(c, TRUE)
    /\ Ends(c, "clear", "error")
    /\ UNCHANGED <<store, overwrite, session, open, said>>

----------------------------------------------------------------------------
(* SetMessages.                                                            *)

Replaces(c, messages) ==
    /\ Writes(Others(session[c]) \o messages) /\ UNCHANGED open
    /\ Told(c, messages)
    /\ SureUnless(c, FALSE)
    /\ Ends(c, "set", "ok")

MemorySet(c) ==
    /\ store = "memory" /\ Starts(c)
    /\ \E list \in Lists : Replaces(c, RowsOf(c, list))
    /\ UNCHANGED <<store, overwrite, session>>

Ignores(c) ==
    /\ WritesNothing /\ UNCHANGED <<said, unsure>>
    /\ Ends(c, "set", "ok")

ZepSet(c) ==
    /\ store = "zep" /\ Starts(c) /\ Ignores(c)
    /\ UNCHANGED <<store, overwrite, session>>

\* BEGIN; DELETE; INSERT; COMMIT as one text. BEGIN is an error while a
\* transaction is open, and any error after it leaves the transaction open: one
\* of the database, or that of an INSERT without a message.
SqliteSetFails(c, deleted) ==
    /\ rows' = IF deleted THEN Others(session[c]) ELSE rows
    /\ open' = TRUE
    /\ UNCHANGED <<saved, said>>
    /\ SureUnless(c, FALSE)
    /\ Ends(c, "set", "error")

SqliteSet(c) ==
    /\ store = "sqlite3" /\ Starts(c)
    /\ \/ ~overwrite /\ Ignores(c)
       \/ /\ overwrite /\ open
          /\ WritesNothing /\ UNCHANGED <<said, unsure>>
          /\ Ends(c, "set", "error")
       \/ /\ overwrite /\ ~open
          /\ \/ \E list \in Lists \ {<<>>} : Replaces(c, RowsOf(c, list))
             \/ \E deleted \in BOOLEAN : SqliteSetFails(c, deleted)
    /\ UNCHANGED <<store, overwrite, session>>

\* The others delete first and insert in a request of its own: who reads in
\* between finds nothing.
Deletes(c) ==
    /\ Starts(c)
    /\ Writes(Others(session[c])) /\ UNCHANGED open
    /\ Told(c, <<>>)
    /\ \E list \in Lists : held' = [held EXCEPT ![c] = RowsOf(c, list)]
    /\ Goto(c, "insert")
    /\ SureUnless(c, FALSE)
    /\ outcome' = Outcome
    /\ UNCHANGED <<store, overwrite, session>>

MongoSet(c) == store = "mongo" /\ Deletes(c)
AlloyDBSet(c) == store = "alloydb" /\ Deletes(c)
CloudSQLSet(c) == store = "cloudsql" /\ Deletes(c)

Refills(c) ==
    /\ pc[c] = "insert"
    /\ store = "mongo" => held[c] # <<>>
    /\ Writes(rows \o held[c])
    /\ Told(c, held[c])
    /\ SureUnless(c, FALSE)
    /\ Ends(c, "set", "ok")
    /\ UNCHANGED <<store, overwrite, session, open, call>>

\* An ordered insert stops at the first document that is refused, a batch is a
\* transaction; a list without documents is refused.
RefillFails(c) ==
    /\ pc[c] = "insert"
    /\ \E n \in IF store = "mongo" THEN 0..Len(held[c]) ELSE {0, Len(held[c])} :
          Writes(rows \o SubSeq(held[c], 1, n))
    /\ SureUnless(c, TRUE)
    /\ Ends(c, "set", "error")
    /\ UNCHANGED <<store, overwrite, session, open, call, said>>

----------------------------------------------------------------------------
(* Messages: what is read of the messages of a session.                    *)

Readable == {"human", "ai", "system"}

Read(how, messages) == [how |-> how, messages |-> messages]

SqliteMessages(s) ==
    LET n == IF Len(Kept(s)) < Limit THEN Len(Kept(s)) ELSE Limit
    IN Read("ok", Those(SubSeq(Kept(s), 1, n), Rows({s}, Readable)))

\* A message of another type becomes a nil one.
ToChatMessage(row) ==
    IF row.type \in {"human", "ai"} THEN row ELSE [row EXCEPT !.type = "nil"]

MongoMessages(s) == Read("ok", [k \in DOMAIN Kept(s) |-> ToChatMessage(Kept(s)[k])])

AlloyDBMessages(s) ==
    IF TypesOf(Kept(s)) \subseteq Readable THEN Read("ok", Kept(s)) ELSE Read("error", <<>>)
CloudSQLMessages(s) ==
    IF TypesOf(Kept(s)) \subseteq Readable THEN Read("ok", Kept(s)) ELSE Read("error", <<>>)

\* What the service knows of the session comes first as a message of its own;
\* the results of tools are dropped, those of functions become results of tools.
Facts(s) == [session |-> s, type |-> "system", call |-> 1, at |-> 1]
messagesFromZepMessages(s) ==
    LET kept == Those(Kept(s), Rows({s}, Types \ {"tool"}))
    IN [k \in DOMAIN kept |->
            IF kept[k].type = "function" THEN [kept[k] EXCEPT !.type = "tool"] ELSE kept[k]]
ZepMessages(s) == {Read("ok", messagesFromZepMessages(s)),
                   Read("ok", <<Facts(s)>> \o messagesFromZepMessages(s))}

Messages(s) == CASE store = "memory"   -> {Read("ok", Kept(s))}
                 [] store = "sqlite3"  -> {SqliteMessages(s)}
                 [] store = "mongo"    -> {MongoMessages(s)}
                 [] store = "alloydb"  -> {AlloyDBMessages(s)}
                 [] store = "cloudsql" -> {CloudSQLMessages(s)}
                 [] store = "zep"      -> ZepMessages(s)

Answers(c, op, read) ==
    /\ outcome' = [Outcome EXCEPT !.op = op, !.session = session[c], !.how = read.how,
                                  !.messages = read.messages, !.now = Kept(session[c])]
    /\ UNCHANGED <<store, overwrite, session, rows, saved, open, pc, held, call, said, unsure>>

Reads(c) == pc[c] = "idle" /\ \E read \in Messages(session[c]) : Answers(c, "read", read)

ReadFails(c) ==
    /\ pc[c] = "idle" /\ store \in Remote
    /\ outcome' = [Outcome EXCEPT !.op = "read", !.session = session[c], !.how = "error",
                                  !.service = FALSE]
    /\ UNCHANGED <<store, overwrite, session, rows, saved, open, pc, held, call, said, unsure>>

(* LoadMemoryVariables: the messages as one text. A nil message has no     *)
(* type to ask for.                                                        *)
GetBufferString(read) ==
    IF read.how = "ok" /\ "nil" \in TypesOf(read.messages) THEN Read("panic", <<>>) ELSE read

LoadMemoryVariables(c) ==
    /\ pc[c] = "idle"
    /\ \E read \in Messages(session[c]) : Answers(c, "load", GetBufferString(read))

----------------------------------------------------------------------------
(* The program is stopped and started again.                               *)

Stop ==
    /\ \E s \in Sessions : said[s] # <<>>
    /\ rows' = IF store = "memory" THEN <<>> ELSE saved
    /\ saved' = rows' /\ open' = FALSE
    /\ said' = IF store = "memory" THEN [s \in Sessions |-> <<>>] ELSE said
    /\ unsure' = [s \in Sessions |->
          unsure[s] \/ \E c \in Callers : session[c] = s /\ pc[c] # "idle"]
    /\ pc' = [c \in Callers |-> "idle"] /\ held' = [c \in Callers |-> <<>>]
    /\ outcome' = Outcome
    /\ UNCHANGED <<store, overwrite, session, call>>

Add(c) == \/ MemoryAdd(c) \/ Appends(c) \/ SqliteAdd(c) \/ MongoAdd(c)
          \/ AlloyDBAdd(c) \/ CloudSQLAdd(c) \/ ZepAdd(c) \/ AddFails(c)
          \/ AlloyDBAddMessages(c) \/ CloudSQLAddMessages(c)
Set(c) == \/ MemorySet(c) \/ ZepSet(c) \/ SqliteSet(c) \/ MongoSet(c) \/ AlloyDBSet(c)
          \/ CloudSQLSet(c) \/ Refills(c) \/ RefillFails(c)
Save(c) == SaveContext(c) \/ SaveContextEnds(c)
Get(c) == Reads(c) \/ ReadFails(c) \/ LoadMemoryVariables(c)
Next == \/ \E c \in Callers : \/ Add(c) \/ Save(c) \/ Clear(c) \/ ClearFails(c)
                              \/ Set(c) \/ Get(c)
        \/ Stop

----------------------------------------------------------------------------
TypeOK ==
    /\ store \in Stores /\ overwrite \in BOOLEAN /\ open \in BOOLEAN
    /\ session \in [Callers -> Sessions]
    /\ rows \in Seq(Row) /\ saved \in Seq(Row)
    /\ pc \in [Callers -> {"idle", "append", "insert", "answer"}]
    /\ held \in [Callers -> Seq(Row)] /\ call \in 0..MaxCalls
    /\ said \in [Sessions -> Seq(Row)] /\ unsure \in [Sessions -> BOOLEAN]
    /\ outcome.how \in {"ok", "error", "panic"} /\ outcome.session \in Sessions

\* Nothing is written but not saved, unless a transaction is open.
AllSaved == ~open => rows = saved

\* What a session was told is what is saved of it.
ToldIsSaved == \A s \in Sessions : ~unsure[s] => KeptOf(saved, s) = said[s]

\* What a caller has in hand is of its session: all of it and a message more, to
\* be written over it, or what an emptied session gets.
HeldIsToCome ==
    \A c \in Callers :
        /\ held[c] \in Seq(Rows({session[c]}, Types))
        /\ pc[c] = "append" =>
              /\ held[c] # <<>>
              /\ ~unsure[session[c]] => held[c] = Append(said[session[c]], Last(held[c]))
        /\ pc[c] = "insert" /\ ~unsure[session[c]] => said[session[c]] = <<>>

IInv == TypeOK /\ AllSaved /\ ToldIsSaved /\ HeldIsToCome

\* What was said between a human and an AI.
Talk(messages) == Those(messages, Rows(Sessions, {"human", "ai"}))

(* A read returns every message of the talk that the callers were told is  *)
(* there, in its order, also after a restart, which undoes what an error   *)
(* of sqlite3 left in a transaction; a read of sqlite3 has a limit and     *)
(* returns the oldest.                                                     *)
TalkIsRead ==
    outcome.op = "read" /\ outcome.how = "ok" /\ ~open /\ ~unsure[outcome.session]
    => LET told == said[outcome.session]
       IN IF store = "sqlite3" /\ Len(told) > Limit
          THEN IsPrefix(Talk(outcome.messages), Talk(told))
          ELSE Talk(outcome.messages) = Talk(told)

(* No message is read in another session, or as one of another type,       *)
(* except the function results and the facts of zep and the nil messages   *)
(* of mongo.                                                               *)
OwnAreRead ==
    outcome.op = "read" =>
        \A m \in Range(outcome.messages) :
            \/ m \in Range(outcome.now)
            \/ store = "zep" /\ m.type \in {"system", "tool"} /\ m.session = outcome.session
            \/ store = "mongo" /\ m.type = "nil"

(* A read is refused, the service being up, only where a message that can  *)
(* be added cannot be read; a panic comes only from such a message.        *)
ReadsAreAnswered ==
    /\ outcome.op \in {"read", "load"} /\ outcome.how = "error" /\ outcome.service
       => store \in SQL /\ ~ (TypesOf(outcome.now) \subseteq Readable)
    /\ outcome.how = "panic"
       => \/ store = "mongo" /\ ~ (TypesOf(outcome.now) \subseteq {"human", "ai"})
          \/ store = "zep" /\ outcome.op = "add"

=============================================================================
