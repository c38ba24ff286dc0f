--------------------------- MODULE AmmitKnowledge ---------------------------
(***************************************************************************)
(* The knowledge base of a project: an entry per topic, documents of a     *)
(* topic, and an entry's own words as a document beside it.  A document    *)
(* carries a vector of its text.  The model that makes vectors is asked    *)
(* with the lock let go: before a write, and in the middle of a question,  *)
(* which gives every document a vector of its own model first.  In between *)
(* others write, mark what was found false, and forget.                    *)
(*                                                                         *)
(* A text is the number of its write, and a document one chunk; all is of  *)
(* one project.                                                            *)
(* Topics of documents do not begin with "entry:".                         *)
(***************************************************************************)
EXTENDS Integers, FiniteSets, AmmitProcess

CONSTANTS
  Topics,
  Models,      \* what AMMIT_EMBED_MODEL may name
  Puts, Asks   \* numbers: the handlers of writes and of questions there may be

VARIABLES
  kb,          \* the entries: of each topic, its body and whether it is stale
  docs,        \* the documents and their chunk, with its vector
  unsure,      \* topics a write of which said, or hid, that it failed half way
  model,       \* the model of this life
  put, ask     \* the handlers

\* Writes are numbered, and 0 is none of them.
Written == Puts \subseteq Nat \ {0} /\ MaxLives \in Nat \ {0}

knowledgeVars == <<kb, docs, unsure, model, put, ask, lives>>

None == 0
DocTopics == [topic : Topics, of : {"prose", "entry"}]
Prose(t) == [topic |-> t, of |-> "prose"]
Words(t) == [topic |-> t, of |-> "entry"]

NoEntry == [text |-> None, stale |-> FALSE]
NoDoc == [id |-> 0, text |-> None, stale |-> FALSE, model |-> "", vec |-> None]
NoPut == [at |-> "unsent", to |-> {}, model |-> ""]
NoAsk == [at |-> "unsent", model |-> "", due |-> {}, read |-> {}, failed |-> FALSE, missed |-> {}]

StoredDocs == {p \in DOMAIN docs : docs[p].id > 0}
Ids == Puts \cup {0}
Entry == [text : Puts \cup {None}, stale : BOOLEAN]
Doc == [id : Ids, text : Puts \cup {None}, stale : BOOLEAN, model : Models \cup {""}, vec : Puts \cup {None}]
PutHandler == [at : {"unsent", "embedded", "answered"}, to : SUBSET DocTopics, model : Models \cup {""}]
AskHandler == [at : {"unsent", "asked", "embedding", "filled", "answered"}, model : Models \cup {""},
               due : SUBSET Ids, read : SUBSET (Ids \X Puts), failed : BOOLEAN, missed : SUBSET Ids]
KnowledgeTypeOK ==
  /\ kb \in [Topics -> Entry] /\ docs \in [DocTopics -> Doc]
  /\ unsure \subseteq Topics /\ model \in Models /\ lives \in 1 .. MaxLives
  /\ put \in [Puts -> PutHandler] /\ ask \in [Asks -> AskHandler]
  /\ \A p, q \in StoredDocs : p # q => docs[p].id # docs[q].id

KnowledgeInit ==
  /\ kb = [t \in Topics |-> NoEntry] /\ docs = [p \in DocTopics |-> NoDoc]
  /\ unsure = {} /\ model \in Models
  /\ put = [i \in Puts |-> NoPut] /\ ask = [j \in Asks |-> NoAsk] /\ lives = 1

-----------------------------------------------------------------------------
(* Writes: POST /kb, POST /kb/docs, POST /kb/stale, DELETE /kb/docs        *)

\* The text is embedded before the lock is taken; a model that does not
\* answer leaves the document without a vector.
embedKBDoc(i, p, answers) ==
  /\ put[i].at = "unsent" /\ \A h \in Puts : h < i => put[h].at # "unsent"
  /\ put' = [put EXCEPT ![i] = [at |-> "embedded", to |-> {p}, model |-> IF answers THEN model ELSE ""]]
  /\ UNCHANGED <<kb, docs, unsure, model, ask, lives>>

\* A document is replaced, under a number no document had.
MutstoreKBDoc(p, i) ==   \* updated in its place
  [docs EXCEPT ![p] = [id |-> IF @.id > 0 THEN @.id ELSE i, text |-> i, stale |-> FALSE,
                       model |-> put[i].model, vec |-> IF put[i].model = "" THEN None ELSE i]]
storeKBDoc(p, i) ==
  [docs EXCEPT ![p] = [id |-> i, text |-> i, stale |-> FALSE,
                       model |-> put[i].model, vec |-> IF put[i].model = "" THEN None ELSE i]]
Answers(i) == put' = [put EXCEPT ![i] = [NoPut EXCEPT !.at = "answered"]] /\ UNCHANGED <<model, ask, lives>>

\* The entry, and in the same section its words; without them it is there.
putKB(i, indexed) ==
  /\ put[i].at = "embedded" /\ Answers(i)
  /\ \E p \in put[i].to :
       /\ p.of = "entry"
       /\ kb' = [kb EXCEPT ![p.topic] = [text |-> i, stale |-> FALSE]]
       /\ docs' = IF indexed THEN storeKBDoc(p, i) ELSE docs
       /\ unsure' = IF indexed THEN unsure \ {p.topic} ELSE unsure \cup {p.topic}
putKBDoc(i) ==
  /\ put[i].at = "embedded" /\ Answers(i)
  /\ \E p \in put[i].to : p.of = "prose" /\ docs' = storeKBDoc(p, i)
  /\ UNCHANGED <<kb, unsure>>
\* The first statement fails, or the document's: nothing of it is kept.
PutFails(i) == put[i].at = "embedded" /\ Answers(i) /\ UNCHANGED <<kb, docs, unsure>>

\* The entry, the document of the topic and the entry's words are marked, one
\* after another; the words' mark may fail, and nobody hears of it.
Marked(t, marked) == [p \in DocTopics |->
  IF p \in marked /\ p.topic = t /\ docs[p].id > 0 THEN [docs[p] EXCEPT !.stale = TRUE] ELSE docs[p]]
staleKB(t, marked) ==
  /\ marked \subseteq {Prose(t), Words(t)}
  /\ kb' = [kb EXCEPT ![t].stale = kb[t].text # None]
  /\ docs' = Marked(t, marked)
  /\ unsure' = IF Words(t) \in marked \/ kb[t].text = None THEN unsure ELSE unsure \cup {t}
  /\ UNCHANGED <<model, put, ask, lives>>

\* Outright: the entry, the document, the entry's words, in one transaction.
MutForgotten(t) == {Prose(t)}     \* not the entry's words
Forgotten(t) == {Prose(t), Words(t)}
forgetKB(t) ==
  /\ kb' = [kb EXCEPT ![t] = NoEntry]
  /\ docs' = [p \in DocTopics |-> IF p \in Forgotten(t) THEN NoDoc ELSE docs[p]]
  /\ unsure' = unsure \ {t} /\ UNCHANGED <<model, put, ask, lives>>

-----------------------------------------------------------------------------
(* Questions: POST /kb/ask                                                 *)

IdsOf(ps) == {docs[p].id : p \in ps}
Ask(j, to) == ask' = [ask EXCEPT ![j] = to] /\ UNCHANGED <<kb, unsure, model, put, lives>>

\* The question is embedded, or answered by words.
askKB(j, answers) ==
  /\ ask[j].at = "unsent" /\ UNCHANGED docs
  /\ Ask(j, IF answers THEN [NoAsk EXCEPT !.at = "asked", !.model = model, !.due = IdsOf(StoredDocs)]
            ELSE [NoAsk EXCEPT !.at = "answered"])

\* kbBackfill: what has no vector of this model is read, embedded with the
\* lock let go, and written where it was read from.
MutUncompared(j) == {p \in StoredDocs : docs[p].vec = None}
Uncompared(j) == {p \in StoredDocs : docs[p].vec = None \/ docs[p].model # ask[j].model}
kbBackfillReads(j) ==
  /\ ask[j].at = "asked" /\ UNCHANGED docs
  /\ Ask(j, [ask[j] EXCEPT !.at = IF Uncompared(j) = {} THEN "filled" ELSE "embedding",
                           !.read = {<<docs[p].id, docs[p].text>> : p \in Uncompared(j)}])
kbBackfillWrites(j, answers) ==
  /\ ask[j].at = "embedding"
  /\ docs' = [p \in DocTopics |->
       IF answers /\ \E r \in ask[j].read : r[1] = docs[p].id
       THEN [docs[p] EXCEPT !.model = ask[j].model, !.vec = (CHOOSE r \in ask[j].read : r[1] = docs[p].id)[2]]
       ELSE docs[p]]
  /\ Ask(j, [ask[j] EXCEPT !.at = "filled", !.read = {}, !.failed = ~answers])

\* What is compared with the question has a vector of the question's model.
Hits(j) == {p \in StoredDocs : docs[p].model = ask[j].model}
askAnswers(j) ==
  /\ ask[j].at = "filled" /\ UNCHANGED docs
  /\ Ask(j, [ask[j] EXCEPT !.at = "answered", !.missed = (ask[j].due \cap IdsOf(StoredDocs)) \ IdsOf(Hits(j))])

KnowledgeRestart(m) ==
  /\ lives < MaxLives /\ lives' = lives + 1 /\ model' = m
  /\ put' = [i \in Puts |-> IF put[i].at = "embedded" THEN [NoPut EXCEPT !.at = "answered"] ELSE put[i]]
  /\ ask' = [j \in Asks |-> IF ask[j].at \in {"unsent", "answered"} THEN ask[j] ELSE [NoAsk EXCEPT !.at = "answered"]]
  /\ UNCHANGED <<kb, docs, unsure>>

KnowledgeNext ==
  \/ \E i \in Puts :
       \/ \E p \in DocTopics, answers \in BOOLEAN : embedKBDoc(i, p, answers)
       \/ \E indexed \in BOOLEAN : putKB(i, indexed)
       \/ putKBDoc(i) \/ PutFails(i)
  \/ \E t \in Topics : forgetKB(t) \/ \E marked \in SUBSET DocTopics : staleKB(t, marked)
  \/ \E j \in Asks :
       \/ kbBackfillReads(j) \/ askAnswers(j)
       \/ \E answers \in BOOLEAN : askKB(j, answers) \/ kbBackfillWrites(j, answers)
  \/ \E m \in Models : KnowledgeRestart(m)
KnowledgeSpec == KnowledgeInit /\ [][KnowledgeNext]_knowledgeVars

-----------------------------------------------------------------------------
(* Properties                                                              *)

\* A vector is of the text it stands beside, whatever was replaced while the
\* model was at it.
VectorIsItsOwn == \A p \in StoredDocs : docs[p].model # "" => docs[p].vec = docs[p].text

\* What is forgotten is found by no words of it, and what is in the base is
\* found by the words it has now, marked if it is; unless a write failed half way.
WordsFollowEntry ==
  \A t \in Topics :
    /\ docs[Words(t)].id > 0 => kb[t].text # None
    /\ kb[t].text # None /\ t \notin unsure =>
         docs[Words(t)].text = kb[t].text /\ docs[Words(t)].stale = kb[t].stale

\* A question sees every document that was there when it was asked and still
\* is, also those an outage left without a vector and another model's.
NothingUnseen == \A j \in Asks : ask[j].failed \/ ask[j].missed = {}

(* What makes these hold, in whatever order writes and questions meet.      *)

\* A document has the number of its write, which was answered; so that one
\* still to be written has a number no document had and no question read.
Answered == {i \in Puts : put[i].at = "answered"}
NumberedByWrite == \A p \in DocTopics : docs[p].id = docs[p].text /\ docs[p].id \in Answered \cup {0}
ReadOfDocuments ==
  \A j \in Asks : /\ ask[j].due \subseteq Answered
                  /\ \A r \in ask[j].read : r[1] = r[2]
\* A question that is being answered is of this life's model, and what it is
\* due has a vector of that model, or one on its way.
Unanswered == {"asked", "embedding", "filled"}
AskedInThisLife == \A j \in Asks : ask[j].at \in Unanswered => ask[j].model = model
DueDocs(j) == {p \in StoredDocs : docs[p].id \in ask[j].due}
DueIsCompared ==
  \A j \in Asks :
    /\ ask[j].at = "embedding" => \A p \in DueDocs(j) : p \in Hits(j) \/ \E r \in ask[j].read : r[1] = docs[p].id
    /\ ask[j].at = "filled" /\ ~ask[j].failed => DueDocs(j) \subseteq Hits(j)

\* The base answers with what was last learned.
KnowledgeInv ==
  /\ KnowledgeTypeOK /\ VectorIsItsOwn /\ WordsFollowEntry /\ NothingUnseen
  /\ NumberedByWrite /\ ReadOfDocuments /\ AskedInThisLife /\ DueIsCompared
=============================================================================
