-------------------------- MODULE MCAmmitServices --------------------------
(***************************************************************************)
(* Five parts of the service that share nothing but its process: the       *)
(* keeper, the leases, the evidence, the archive and the knowledge base.   *)
(* A behaviour is one of one part, with the others at rest: at rest each   *)
(* is what it is initially, so that its invariants say nothing there.      *)
(***************************************************************************)
EXTENDS AmmitKeeper, AmmitLeases, AmmitEvidence, AmmitArchive, AmmitKnowledge

VARIABLE part

ASSUME SettingsAssumption == Settings
ASSUME CallersAssumption == Callers
ASSUME NumberedAssumption == Numbered
ASSUME BoundsAssumption == Bounds
ASSUME WrittenAssumption == Written

\* A run, its resume and another ticket's run on a stand; or three deploys.
SomeWorks == {"run1", "resume1", "run2", "deploy1", "deploy2", "deploy3"}
NameOf == [w \in SomeWorks |-> IF w \in {"run1", "resume1", "run2"} THEN "stand-docker" ELSE "deploy"]
HolderOf == [w \in SomeWorks |-> IF w = "resume1" THEN "run1" ELSE w]
TicketOf == [w \in SomeWorks |-> CASE w \in {"run1", "resume1"} -> "APF-1" [] w = "run2" -> "APF-2"
                                 [] OTHER -> ""]

\* The same bytes for two tests, for the same test of two tickets, and a form
\* with a field missing.
Upload(ticket, test, whole) == [ticket |-> ticket, test |-> test, sum |-> "s1", whole |-> whole]
SomeUploads == {Upload("APF-1", "login", TRUE), Upload("APF-1", "logout", TRUE),
                Upload("APF-2", "login", TRUE), Upload("APF-1", "login", FALSE)}

OwnK == <<run, line, product, keepAt, asked, still, up, cooled, loop>>
OwnL == <<lease, work, believes, runRow, wire, lost>>
OwnE == <<bucket, rows, lock, post>>
OwnA == <<db, old, said, conf, seen, drawn, quiet>>
OwnN == <<kb, docs, unsure, model, put, ask>>
vars == <<part, lives, OwnK, OwnL, OwnE, OwnA, OwnN>>

Parts == {"keeper", "stand-docker", "deploy", "evidence", "archive", "knowledge"}
Init == /\ part \in Parts
        /\ KeeperInit /\ LeasesInit /\ EvidenceInit /\ ArchiveInit /\ KnowledgeInit
        /\ model = "m1"   \* one of two alike
Next ==
  /\ UNCHANGED part
  /\ \/ part = "keeper"    /\ KeeperNext    /\ UNCHANGED <<OwnL, OwnE, OwnA, OwnN>>
     \/ part \in Names      /\ LeasesNext    /\ UNCHANGED <<lives, OwnK, OwnE, OwnA, OwnN>>
                            /\ \A w \in Works : work'[w] # "new" => Name[w] = part
     \/ part = "evidence"  /\ EvidenceNext  /\ UNCHANGED <<OwnK, OwnL, OwnA, OwnN>>
     \/ part = "archive"   /\ ArchiveNext   /\ UNCHANGED <<OwnK, OwnL, OwnE, OwnN>>
     \/ part = "knowledge" /\ KnowledgeNext /\ UNCHANGED <<OwnK, OwnL, OwnE, OwnA>>

\* The loop of the service goes round while the keeper is looked at.
Fairness ==
  /\ WF_OwnK(part = "keeper" /\ Loop)
  /\ WF_OwnK(part = "keeper" /\ KeeperElapse)
  /\ WF_OwnK(part = "keeper" /\ PoolBack("APF-1"))
Spec == Init /\ [][Next]_vars /\ Fairness
=============================================================================
