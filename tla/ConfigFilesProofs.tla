------------------------- MODULE ConfigFilesProofs -------------------------
(***************************************************************************)
(* What holds of the setups and their files for any number of setups that  *)
(* run at once, any answers and settings, and wherever a write fails or a  *)
(* setup dies.                                                             *)
(***************************************************************************)
EXTENDS ConfigFiles, FiniteSetTheorems, WellFoundedInduction, TLAPS

Steps == {"ready", "answer", "readVault", "openVault", "writeVault", "validate",
          "openTemp", "writeTemp", "rename", "done", "failed"}

Providers == UNION {[some -> Answers] : some \in SUBSET ProviderId}

Record == [step : Steps, config : Config, answer : Answers, keys : Entries(Variable),
           fd : Inode \cup {0}]

\* The type invariant, with what it leaves open of the setups.
Types ==
  /\ inode \in [{"config", "temp"} -> Inode \cup {0}]
  /\ text \in [Inode -> ConfigText]
  /\ vault \in VaultText
  /\ setup \in [Setup -> Record]
  /\ typed \in Entries(Variable)
  /\ hurt \in BOOLEAN /\ crossed \in BOOLEAN /\ raced \in BOOLEAN
  /\ DOMAIN saved \subseteq ProviderId
  /\ inode["config"] # 0 => inode["config"] # inode["temp"]
  /\ \A p \in Setup : setup[p].fd # 0 <=> setup[p].step = "writeTemp"

\* While no two setups have the temporary file open at once, at most one is between opening
\* it and renaming it: the inode it writes is the temporary file's, which is empty until it
\* is whole, and so the configuration only ever gets a whole one.
TempIsMine ==
  ~crossed =>
    /\ \A p, q \in Saving : p = q
    /\ \A p \in Setup : setup[p].step = "writeTemp" =>
         setup[p].fd = inode["temp"] /\ text[inode["temp"]].state = "empty"
    /\ \A p \in Setup : setup[p].step = "rename" =>
         inode["temp"] # 0 /\ text[inode["temp"]].state = "whole"
    /\ inode["config"] # 0 => text[inode["config"]].state = "whole"

\* While nobody reads or leaves a vault that is being rewritten, at most one setup rewrites
\* it, from what had been typed by then, and the vault holds that but for the moment
\* between its truncation and the write.
VaultIsMine ==
  ~hurt =>
    /\ \A p, q \in Rewriting : p = q
    /\ \A p \in Rewriting : setup[p].keys = typed
    /\ \A p \in Setup : setup[p].step = "writeVault" => vault.state = "empty"
    /\ (\A p \in Setup : setup[p].step # "writeVault") => vault.keys = typed

\* Every key typed by hand that a configuration refers to has been put into the vault:
\* in every file, in every hand, and in an answer that is about to be saved.
Resolved(providers) ==
  \A q \in DOMAIN providers :
    providers[q].source = "manual" => providers[q].variable \in DOMAIN typed

AllResolved ==
  /\ \A i \in Inode : Resolved(text[i].config.providers)
  /\ \A p \in Setup : Resolved(setup[p].config.providers)
  /\ \A p \in Setup : setup[p].step = "validate" /\ setup[p].answer.source = "manual" =>
       setup[p].answer.variable \in DOMAIN typed

\* Providers that say what was saved, save perhaps of the one in q.
Agrees(providers) ==
  \A q \in DOMAIN saved : q \in DOMAIN providers /\ providers[q] = saved[q]

AgreesBut(providers, answer) ==
  /\ \A q \in DOMAIN saved :
       q # answer.provider => q \in DOMAIN providers /\ providers[q] = saved[q]
  /\ answer.provider \in DOMAIN providers /\ providers[answer.provider] = answer

\* While one setup at a time has the configuration in hand, what it has says all that was
\* saved before.
HandAgrees ==
  ~raced =>
    /\ ~crossed
    /\ \A p, q \in Holding : p = q
    /\ Agrees(OnDisk.config.providers)
    /\ \A p \in Setup :
         setup[p].step \in {"answer", "readVault", "openVault", "writeVault", "validate"} =>
           Agrees(setup[p].config.providers)
    /\ \A p \in Setup : setup[p].step \in {"openTemp", "writeTemp", "rename"} =>
         AgreesBut(setup[p].config.providers, setup[p].answer)
    /\ \A p \in Setup : setup[p].step = "rename" =>
         text[inode["temp"]].config = setup[p].config

FilesInv == Types /\ TempIsMine /\ VaultIsMine /\ AllResolved /\ HandAgrees

-----------------------------------------------------------------------------
\* Facts about the values that the actions build.

LEMMA Defaults ==
  ASSUME FilesAssumption
  PROVE  /\ NoEntries \in Providers /\ NoEntries \in Entries(Variable)
         /\ DefaultConfig \in Config
         /\ \A state \in State : Broken(state) \in ConfigText /\ Ruined(state) \in VaultText
<1>1. NoEntries \in [{} -> Answers] /\ NoEntries \in [{} -> Setup]
  BY DEF NoEntries
<1>2. {} \in SUBSET ProviderId /\ {} \in SUBSET Variable
  OBVIOUS
<1>3. NoEntries \in Providers /\ NoEntries \in Entries(Variable)
  BY <1>1, <1>2 DEF Providers, Entries
<1>4. DefaultConfig \in Config
  BY <1>3 DEF DefaultConfig, Config, Providers, FilesAssumption
<1>5. QED
  BY <1>3, <1>4 DEF Broken, Ruined, ConfigText, VaultText

\* A provider is put into a configuration, and leaves the others as they are.
LEMMA InsertFacts ==
  ASSUME NEW providers \in Providers, NEW answer \in Answers
  PROVE  /\ Insert(providers, answer) \in Providers
         /\ DOMAIN Insert(providers, answer) = DOMAIN providers \cup {answer.provider}
         /\ Insert(providers, answer)[answer.provider] = answer
         /\ \A q \in DOMAIN providers :
              q # answer.provider => Insert(providers, answer)[q] = providers[q]
<1>1. PICK some \in SUBSET ProviderId : providers \in [some -> Answers]
  BY DEF Providers
<1>2. some \cup {answer.provider} \in SUBSET ProviderId
  BY DEF ProviderId
<1>3. Insert(providers, answer) \in [some \cup {answer.provider} -> Answers]
  BY <1>1 DEF Insert
<1>4. Insert(providers, answer) \in Providers
  BY <1>2, <1>3 DEF Providers
<1>5. QED
  BY <1>4 DEF Insert

\* A key is put into a vault, as the history of typed keys notes it.
LEMMA UpsertFacts ==
  ASSUME NEW keys \in Entries(Variable), NEW variable \in Variable, NEW p \in Setup
  PROVE  /\ Upsert(keys, variable, p) \in Entries(Variable)
         /\ Noted(keys, variable, p) = Upsert(keys, variable, p)
         /\ DOMAIN Noted(keys, variable, p) = DOMAIN keys \cup {variable}
<1>1. PICK some \in SUBSET Variable : keys \in [some -> Setup]
  BY DEF Entries
<1>2. some \cup {variable} \in SUBSET Variable
  OBVIOUS
<1>3. Upsert(keys, variable, p) \in [some \cup {variable} -> Setup]
  BY <1>1 DEF Upsert
<1>4. Upsert(keys, variable, p) \in Entries(Variable)
  BY <1>2, <1>3 DEF Entries
<1>5. QED
  BY <1>4 DEF Upsert, Noted

\* There is always an inode for a new temporary file: no more are in use than the
\* configuration's and one per setup.
LEMMA FreeInode ==
  ASSUME FilesAssumption, Types
  PROVE  /\ Opened("temp") \in Inode
         /\ inode["config"] # 0 => Opened("temp") # inode["config"]
<1>1. CASE inode["temp"] # 0
  BY <1>1 DEF Opened, Types
<1>2. CASE inode["temp"] = 0
  <2> DEFINE Files == {setup[p].fd : p \in Setup}
             of == [p \in Setup |-> setup[p].fd]
             free == Inode \ InUse
             n == Cardinality(Setup)
  <2>1. IsFiniteSet(Setup) /\ n \in Nat
    BY FS_CardinalityType DEF FilesAssumption
  <2>2. of \in Surjection(Setup, Files)
    BY DEF Surjection
  <2>3. IsFiniteSet(Files) /\ Cardinality(Files) <= n
    BY <2>1, <2>2, FS_Surjection
  <2>4. /\ IsFiniteSet(Files \cup {inode["config"]})
        /\ Cardinality(Files \cup {inode["config"]}) <= n + 1
    <3>1. Cardinality(Files) \in Nat
      BY <2>3, FS_CardinalityType
    <3> HIDE DEF Files
    <3>2. /\ IsFiniteSet(Files \cup {inode["config"]})
          /\ \/ Cardinality(Files \cup {inode["config"]}) = Cardinality(Files)
             \/ Cardinality(Files \cup {inode["config"]}) = Cardinality(Files) + 1
      BY <2>3, FS_AddElement
    <3>3. QED
      BY <2>1, <2>3, <3>1, <3>2
  <2>5. Cardinality(Inode) = n + 2 /\ Inode \subseteq Nat /\ 0 \notin Inode
    BY <2>1, FS_Interval DEF Inode
  <2>6. free # {}
    <3> SUFFICES ASSUME free = {}
                 PROVE  FALSE
      OBVIOUS
    <3>1. Inode \subseteq Files \cup {inode["config"]}
      BY <1>2, <2>5 DEF InUse
    <3>2. Cardinality(Inode) <= Cardinality(Files \cup {inode["config"]})
      BY <2>4, <3>1, FS_Subset
    <3>3. Cardinality(Files \cup {inode["config"]}) \in Nat
      BY <2>4, FS_CardinalityType
    <3>4. QED
      BY <2>1, <2>4, <2>5, <3>2, <3>3
  <2>7. \E i \in free : \A j \in free : i <= j
    <3> DEFINE R == OpToRel(<, Nat)
    <3>1. IsWellFoundedOn(R, Nat)
      BY NatLessThanWellFounded
    <3>2. \A x, y \in Nat : <<y, x>> \in R <=> y < x
      BY DEF OpToRel
    <3> HIDE DEF R
    <3>3. free \subseteq Nat
      BY <2>5
    <3>4. PICK i \in free : \A j \in free : <<j, i>> \notin R
      BY <2>6, <3>1, <3>3, WFMin
    <3>5. \A j \in free : ~ (j < i)
      BY <3>2, <3>3, <3>4, Zenon
    <3>6. \A j \in free : i <= j
      BY <3>3, <3>5
    <3>7. QED
      BY <3>6
  <2>8. Opened("temp") \in Inode \ InUse
    BY <1>2, <2>7 DEF Opened
  <2>9. QED
    BY <2>8 DEF InUse
<1>3. QED
  BY <1>1, <1>2

-----------------------------------------------------------------------------
\* Type correctness

\* The files before any setup has run, and setups that wait to start or that stay out.
AtFirst ==
  /\ FilesAtFirst
  /\ \E step \in {"ready", "done"} : setup = [p \in Setup |-> [Idle EXCEPT !.step = step]]

LEMMA InitTypes == FilesAssumption /\ AtFirst => Types
<1> SUFFICES ASSUME FilesAssumption, AtFirst
             PROVE  Types
  OBVIOUS
<1>1. PICK first \in 0..1, settings \in Initial :
        /\ inode = [name \in {"config", "temp"} |-> IF name = "config" THEN first ELSE 0]
        /\ text = [i \in Inode |->
             IF i = first
             THEN [state |-> "whole", config |-> [settings |-> settings, providers |-> NoEntries]]
             ELSE Broken("empty")]
  BY DEF AtFirst, FilesAtFirst
<1>2. first \in Inode \cup {0}
  <2>1. Cardinality(Setup) \in Nat
    BY FS_CardinalityType DEF FilesAssumption
  <2>2. QED
    BY <2>1 DEF Inode
<1>3. inode \in [{"config", "temp"} -> Inode \cup {0}]
  BY <1>1, <1>2
<1>4. [settings |-> settings, providers |-> NoEntries] \in Config
  BY Defaults DEF Config, Providers, FilesAssumption
<1>5. text \in [Inode -> ConfigText]
  <2>1. Broken("empty") \in ConfigText
    BY Defaults DEF State
  <2>2. [state |-> "whole", config |-> [settings |-> settings, providers |-> NoEntries]] \in ConfigText
    BY <1>4 DEF ConfigText, State
  <2>3. QED
    BY <1>1, <2>1, <2>2
<1>6. Idle \in Record
  <2>1. (CHOOSE a \in Answers : TRUE) \in Answers
    BY DEF FilesAssumption
  <2>2. QED
    BY <2>1, Defaults DEF Idle, Record, Steps
<1>7. setup \in [Setup -> Record] /\ \A p \in Setup : setup[p].fd = 0 /\ setup[p].step # "writeTemp"
  <2>1. PICK step \in {"ready", "done"} : setup = [p \in Setup |-> [Idle EXCEPT !.step = step]]
    BY DEF AtFirst
  <2>2. /\ [Idle EXCEPT !.step = step] \in Record
        /\ [Idle EXCEPT !.step = step].fd = 0 /\ [Idle EXCEPT !.step = step].step = step
    BY <1>6 DEF Idle, Record, Steps
  <2>3. QED
    BY <2>1, <2>2
<1>8. vault \in VaultText /\ typed \in Entries(Variable)
  BY Defaults DEF AtFirst, FilesAtFirst, State
<1>9. DOMAIN saved \subseteq ProviderId
  BY DEF AtFirst, FilesAtFirst, NoEntries
<1>10. inode["config"] # 0 => inode["config"] # inode["temp"]
  BY <1>1
<1>11. QED
  BY <1>3, <1>5, <1>7, <1>8, <1>9, <1>10 DEF Types, AtFirst, FilesAtFirst

\* What a step does to a setup: it gets new values, and the others keep theirs.
LEMMA OneSetupMoves ==
  ASSUME Types, NEW p \in Setup, NEW new \in Record, setup' = [setup EXCEPT ![p] = new],
         new.fd # 0 <=> new.step = "writeTemp"
  PROVE  /\ setup' \in [Setup -> Record]
         /\ setup'[p] = new
         /\ \A q \in Setup : q # p => setup'[q] = setup[q]
         /\ \A q \in Setup : setup'[q].fd # 0 <=> setup'[q].step = "writeTemp"
BY DEF Types

LEMMA StepTypes ==
  ASSUME FilesAssumption, Types, NEW p \in Setup, SetupStep(p)
  PROVE  Types'
<1> DEFINE Moves(new) == setup' = [setup EXCEPT ![p] = new]
<1>0. setup[p] \in Record /\ (setup[p].fd # 0 <=> setup[p].step = "writeTemp")
  BY DEF Types
<1>1. CASE Load(p)
  <2> DEFINE there == IF inode["config"] = 0 THEN Broken("none") ELSE text[inode["config"]]
             new == [setup[p] EXCEPT !.step = IF there.state = "torn" THEN "failed" ELSE "answer",
                                     !.config = there.config]
  <2>1. there \in ConfigText
    BY Defaults DEF Types, State
  <2>2. there.config \in Config
    BY <2>1 DEF ConfigText
  <2>3. Moves(new)
    BY <1>1 DEF Load, Types
  <2>4. new \in Record /\ (new.fd # 0 <=> new.step = "writeTemp")
    BY <1>0, <1>1, <2>2 DEF Record, Steps, Load, At
  <2>5. QED
    BY <1>1, <2>3, <2>4, OneSetupMoves DEF Types, Load
<1>2. CASE Answer(p)
  <2>1. PICK a \in Answers :
          setup' = [setup EXCEPT ![p].answer = a, ![p].step = AfterAnswer(a.source)]
    BY <1>2 DEF Answer
  <2> DEFINE new == [setup[p] EXCEPT !.answer = a, !.step = AfterAnswer(a.source)]
  <2>2. Moves(new)
    BY <2>1 DEF Types
  <2>3. new \in Record /\ (new.fd # 0 <=> new.step = "writeTemp")
    BY <1>0, <1>2 DEF Record, Steps, Answer, At, AfterAnswer
  <2>4. QED
    BY <1>2, <2>2, <2>3, OneSetupMoves DEF Types, Answer
<1>3. CASE Refuse(p)
  <2> DEFINE new == [setup[p] EXCEPT !.step = "failed"]
  <2>1. Moves(new)
    BY <1>3 DEF Types, Refuse, Go
  <2>2. new \in Record /\ (new.fd # 0 <=> new.step = "writeTemp")
    BY <1>0, <1>3 DEF Record, Steps, Refuse, At
  <2>3. QED
    BY <1>3, <2>1, <2>2, OneSetupMoves DEF Types, Refuse
<1>4. CASE ReadVault(p)
  <2>1. PICK keys \in {vault.keys, NoEntries} :
          setup' = [setup EXCEPT ![p].keys = keys, ![p].step = "openVault"]
    BY <1>4 DEF ReadVault
  <2> DEFINE new == [setup[p] EXCEPT !.keys = keys, !.step = "openVault"]
  <2>2. keys \in Entries(Variable)
    BY Defaults DEF Types, VaultText
  <2>3. Moves(new)
    BY <2>1 DEF Types
  <2>4. new \in Record /\ (new.fd # 0 <=> new.step = "writeTemp")
    BY <1>0, <1>4, <2>2 DEF Record, Steps, ReadVault, At
  <2>5. hurt' \in BOOLEAN
    BY <1>4 DEF ReadVault
  <2>6. QED
    BY <1>4, <2>3, <2>4, <2>5, OneSetupMoves DEF Types, ReadVault
<1>5. CASE OpenVault(p)
  <2> DEFINE new == [setup[p] EXCEPT !.step = "writeVault"]
  <2>1. Moves(new)
    BY <1>5 DEF Types, OpenVault, Go
  <2>2. new \in Record /\ (new.fd # 0 <=> new.step = "writeTemp")
    BY <1>0, <1>5 DEF Record, Steps, OpenVault, At
  <2>3. vault' \in VaultText
    BY <1>5, Defaults DEF OpenVault, State
  <2>4. QED
    BY <1>5, <2>1, <2>2, <2>3, OneSetupMoves DEF Types, OpenVault
<1>6. CASE WriteVault(p)
  <2> DEFINE variable == setup[p].answer.variable
             new == [setup[p] EXCEPT !.step = "validate"]
             whole == [state |-> "whole", keys |-> Upsert(setup[p].keys, variable, p)]
  <2>1. variable \in Variable /\ setup[p].keys \in Entries(Variable)
    BY <1>0 DEF Record, Variable
  <2>2. whole \in VaultText /\ Ruined("torn") \in VaultText
    BY <2>1, UpsertFacts, Defaults DEF VaultText, State
  <2>3. vault' \in VaultText
    BY <1>6, <2>2 DEF WriteVault, Overlay
  <2>4. typed' \in Entries(Variable)
    <3>1. typed \in Entries(Variable)
      BY DEF Types
    <3>2. Noted(typed, variable, p) \in Entries(Variable)
      BY <2>1, <3>1, UpsertFacts
    <3>3. QED
      BY <1>6, <3>2 DEF WriteVault
  <2>5. Moves(new)
    BY <1>6 DEF Types, WriteVault, Go
  <2>6. new \in Record /\ (new.fd # 0 <=> new.step = "writeTemp")
    BY <1>0, <1>6 DEF Record, Steps, WriteVault, At
  <2>7. QED
    BY <1>6, <2>3, <2>4, <2>5, <2>6, OneSetupMoves DEF Types, WriteVault
<1>7. CASE Validate(p)
  <2> DEFINE config == [setup[p].config EXCEPT !.providers = Insert(@, setup[p].answer)]
             step == AfterValidation(/\ setup[p].config.settings \in Acceptable
                                     /\ ValidProviders(Insert(setup[p].config.providers, setup[p].answer)))
             new == [setup[p] EXCEPT !.config = config, !.step = step]
  <2>1. setup[p].config.providers \in Providers /\ setup[p].answer \in Answers
    BY <1>0 DEF Record, Config, Providers
  <2>2. config \in Config
    BY <1>0, <2>1, InsertFacts DEF Record, Config, Providers
  <2>3. Moves(new)
    BY <1>7 DEF Types, Validate
  <2>4. new \in Record /\ (new.fd # 0 <=> new.step = "writeTemp")
    BY <1>0, <1>7, <2>2 DEF Record, Steps, Validate, AfterValidation, At
  <2>5. QED
    BY <1>7, <2>3, <2>4, OneSetupMoves DEF Types, Validate
<1>8. CASE OpenTemp(p)
  <2> DEFINE new == [setup[p] EXCEPT !.fd = Opened("temp"), !.step = "writeTemp"]
  <2>1. /\ inode' = [inode EXCEPT !["temp"] = Opened("temp")]
        /\ text' = [text EXCEPT ![Opened("temp")] = Broken("empty")]
        /\ Moves(new)
    BY <1>8 DEF Types, OpenTemp, Temporary
  <2>2. /\ Opened("temp") \in Inode /\ Opened("temp") # 0
        /\ inode["config"] # 0 => Opened("temp") # inode["config"]
    BY FreeInode DEF Inode
  <2>3. new \in Record /\ (new.fd # 0 <=> new.step = "writeTemp")
    BY <1>0, <2>2 DEF Record, Steps
  <2>4. inode' \in [{"config", "temp"} -> Inode \cup {0}] /\ text' \in [Inode -> ConfigText]
    BY <2>1, <2>2, Defaults DEF Types, State
  <2>5. inode'["config"] # 0 => inode'["config"] # inode'["temp"]
    BY <2>1, <2>2 DEF Types
  <2>6. crossed' \in BOOLEAN
    BY <1>8 DEF OpenTemp, Types
  <2>7. /\ setup' \in [Setup -> Record]
        /\ \A q \in Setup : setup'[q].fd # 0 <=> setup'[q].step = "writeTemp"
    BY <2>1, <2>3, OneSetupMoves
  <2>8. QED
    BY <1>8, <2>4, <2>5, <2>6, <2>7 DEF Types, OpenTemp
<1>9. CASE WriteTemp(p)
  <2> DEFINE new == [setup[p] EXCEPT !.fd = 0, !.step = "rename"]
             whole == [state |-> "whole", config |-> setup[p].config]
  <2>1. PICK written \in Overlay(text[setup[p].fd], whole, Broken("torn")) :
          text' = [text EXCEPT ![setup[p].fd] = written]
    BY <1>9 DEF WriteTemp
  <2>2. whole \in ConfigText /\ Broken("torn") \in ConfigText
    BY <1>0, Defaults DEF Record, ConfigText, State
  <2>3. text' \in [Inode -> ConfigText]
    BY <2>1, <2>2 DEF Overlay, Types
  <2>4. Moves(new)
    BY <1>9 DEF Types, WriteTemp
  <2>5. new \in Record /\ (new.fd # 0 <=> new.step = "writeTemp")
    BY <1>0 DEF Record, Steps
  <2>6. QED
    BY <1>9, <2>3, <2>4, <2>5, OneSetupMoves DEF Types, WriteTemp
<1>10. CASE Rename(p)
  <2>1. CASE inode["temp"] = 0
    <3> DEFINE new == [setup[p] EXCEPT !.step = "failed"]
    <3>1. Moves(new) /\ UNCHANGED <<inode, saved>>
      BY <1>10, <2>1 DEF Types, Rename, Go, Temporary
    <3>2. new \in Record /\ (new.fd # 0 <=> new.step = "writeTemp")
      BY <1>0, <1>10 DEF Record, Steps, Rename, At
    <3>3. QED
      BY <1>10, <3>1, <3>2, OneSetupMoves DEF Types, Rename
  <2>2. CASE inode["temp"] # 0
    <3> DEFINE new == [setup[p] EXCEPT !.step = "done"]
    <3>1. /\ Moves(new) /\ inode' = Renamed
          /\ saved' = Noted(saved, setup[p].answer.provider, setup[p].answer)
      BY <1>10, <2>2 DEF Types, Rename, Go, Temporary
    <3>2. new \in Record /\ (new.fd # 0 <=> new.step = "writeTemp")
      BY <1>0, <1>10 DEF Record, Steps, Rename, At
    <3>3. /\ inode' \in [{"config", "temp"} -> Inode \cup {0}]
          /\ inode'["config"] # 0 => inode'["config"] # inode'["temp"]
      BY <2>2, <3>1 DEF Types, Renamed, Temporary
    <3>4. DOMAIN saved' \subseteq ProviderId
      BY <1>0, <3>1 DEF Types, Noted, Record, ProviderId
    <3>5. QED
      BY <1>10, <3>1, <3>2, <3>3, <3>4, OneSetupMoves DEF Types, Rename
  <2>3. QED
    BY <2>1, <2>2
<1>11. CASE WriteFails(p)
  <2> DEFINE new == [setup[p] EXCEPT !.fd = 0, !.step = "failed"]
  <2>1. Moves(new)
    BY <1>11 DEF Types, WriteFails
  <2>2. new \in Record /\ (new.fd # 0 <=> new.step = "writeTemp")
    BY <1>0 DEF Record, Steps
  <2>3. vault' \in VaultText
    BY <1>11, Defaults DEF WriteFails, Types, State
  <2>4. text' \in [Inode -> ConfigText]
    <3>1. CASE text' = text
      BY <3>1 DEF Types
    <3>2. CASE \E rest \in {text[setup[p].fd], Broken("torn")} :
                 text' = [text EXCEPT ![setup[p].fd] = rest]
      <4>1. Broken("torn") \in ConfigText
        BY Defaults DEF State
      <4>2. QED
        BY <3>2, <4>1 DEF Types
    <3>3. QED
      BY <1>11, <3>1, <3>2 DEF WriteFails
  <2>5. hurt' \in BOOLEAN
    BY <1>11 DEF WriteFails, Types, At
  <2>6. QED
    BY <1>11, <2>1, <2>2, <2>3, <2>4, <2>5, OneSetupMoves DEF Types, WriteFails
<1>12. CASE Die(p)
  <2> DEFINE new == [setup[p] EXCEPT !.fd = 0, !.step = "failed"]
  <2>1. Moves(new)
    BY <1>12 DEF Types, Die
  <2>2. new \in Record /\ (new.fd # 0 <=> new.step = "writeTemp")
    BY <1>0 DEF Record, Steps
  <2>3. hurt' \in BOOLEAN
    BY <1>12 DEF Die, Types, At
  <2>4. QED
    BY <1>12, <2>1, <2>2, <2>3, OneSetupMoves DEF Types, Die
<1>13. QED
  BY <1>1, <1>2, <1>3, <1>4, <1>5, <1>6, <1>7, <1>8, <1>9, <1>10, <1>11, <1>12 DEF SetupStep

\* A step of one setup leaves the others where they are.
LEMMA OthersStay ==
  ASSUME Types, NEW p \in Setup, SetupStep(p)
  PROVE  \A q \in Setup : q # p => setup'[q] = setup[q]
<1> USE DEF Types, At, Go
<1>1. CASE Load(p) \/ Answer(p) \/ Refuse(p)
  BY <1>1 DEF Load, Answer, Refuse
<1>2. CASE ReadVault(p) \/ OpenVault(p) \/ WriteVault(p)
  BY <1>2 DEF ReadVault, OpenVault, WriteVault
<1>3. CASE Validate(p) \/ OpenTemp(p) \/ WriteTemp(p)
  BY <1>3 DEF Validate, OpenTemp, WriteTemp
<1>4. CASE Rename(p) \/ WriteFails(p) \/ Die(p)
  BY <1>4 DEF Rename, WriteFails, Die
<1>5. QED
  BY <1>1, <1>2, <1>3, <1>4 DEF SetupStep

\* Where a step takes its setup.
LEMMA NextStep ==
  ASSUME Types, NEW p \in Setup
  PROVE  /\ Load(p) => setup'[p].step \in {"failed", "answer"}
         /\ Answer(p) => setup'[p].step \in {"readVault", "validate"}
         /\ Refuse(p) => setup'[p].step = "failed"
         /\ ReadVault(p) => setup'[p].step = "openVault"
         /\ OpenVault(p) => setup'[p].step = "writeVault"
         /\ WriteVault(p) => setup'[p].step = "validate"
         /\ Validate(p) => setup'[p].step \in {"openTemp", "failed"}
         /\ OpenTemp(p) => setup'[p].step = "writeTemp"
         /\ WriteTemp(p) => setup'[p].step = "rename"
         /\ Rename(p) => setup'[p].step \in {"failed", "done"}
         /\ WriteFails(p) \/ Die(p) => setup'[p].step = "failed"
<1> USE DEF Types, Record, Go
<1>1. Load(p) => setup'[p].step \in {"failed", "answer"}
  BY DEF Load
<1>2. Answer(p) => setup'[p].step \in {"readVault", "validate"}
  BY DEF Answer, AfterAnswer
<1>3. Refuse(p) => setup'[p].step = "failed"
  BY DEF Refuse
<1>4. ReadVault(p) => setup'[p].step = "openVault"
  BY DEF ReadVault
<1>5. OpenVault(p) => setup'[p].step = "writeVault"
  BY DEF OpenVault
<1>6. WriteVault(p) => setup'[p].step = "validate"
  BY DEF WriteVault
<1>7. Validate(p) => setup'[p].step \in {"openTemp", "failed"}
  BY DEF Validate, AfterValidation
<1>8. OpenTemp(p) => setup'[p].step = "writeTemp"
  BY DEF OpenTemp
<1>9. WriteTemp(p) => setup'[p].step = "rename"
  BY DEF WriteTemp
<1>10. Rename(p) => setup'[p].step \in {"failed", "done"}
  BY DEF Rename
<1>11. WriteFails(p) \/ Die(p) => setup'[p].step = "failed"
  BY DEF WriteFails, Die
<1>12. QED
  BY <1>1, <1>2, <1>3, <1>4, <1>5, <1>6, <1>7, <1>8, <1>9, <1>10, <1>11

-----------------------------------------------------------------------------
\* The temporary file

\* A step that neither touches the names and their files nor begins to save.
LEMMA TempUntouched ==
  ASSUME Types, TempIsMine, NEW p \in Setup, SetupStep(p),
         UNCHANGED <<inode, text, crossed>>,
         setup'[p].step \notin {"writeTemp", "rename"}
  PROVE  TempIsMine'
<1>1. \A q \in Setup : q # p => setup'[q] = setup[q]
  BY OthersStay
<1>2. Saving' \subseteq Saving
  BY <1>1 DEF Saving
<1>3. QED
  BY <1>1, <1>2 DEF TempIsMine

LEMMA StepTemp ==
  ASSUME FilesAssumption, Types, TempIsMine, NEW p \in Setup, SetupStep(p)
  PROVE  TempIsMine'
<1>0. \A q \in Setup : q # p => setup'[q] = setup[q]
  BY OthersStay
<1>1. CASE Load(p) \/ Answer(p) \/ Refuse(p)
  <2>1. setup'[p].step \in {"failed", "answer", "validate", "readVault"}
    BY <1>1, NextStep
  <2>2. UNCHANGED <<inode, text, crossed>>
    BY <1>1 DEF Load, Answer, Refuse
  <2>3. QED
    BY <2>1, <2>2, TempUntouched
<1>2. CASE ReadVault(p) \/ OpenVault(p) \/ WriteVault(p)
  <2>1. setup'[p].step \in {"openVault", "writeVault", "validate"}
    BY <1>2, NextStep
  <2>2. UNCHANGED <<inode, text, crossed>>
    BY <1>2 DEF ReadVault, OpenVault, WriteVault
  <2>3. QED
    BY <2>1, <2>2, TempUntouched
<1>3. CASE Validate(p) \/ Die(p)
  <2>1. setup'[p].step \in {"openTemp", "failed"}
    BY <1>3, NextStep
  <2>2. UNCHANGED <<inode, text, crossed>>
    BY <1>3 DEF Validate, Die
  <2>3. QED
    BY <2>1, <2>2, TempUntouched
<1>4. CASE OpenTemp(p)
  <2> SUFFICES ASSUME ~crossed'
               PROVE  TempIsMine'
    BY DEF TempIsMine
  <2>1. ~crossed /\ Saving = {}
    BY <1>4 DEF OpenTemp
  <2>2. /\ inode' = [inode EXCEPT !["temp"] = Opened("temp")]
        /\ text' = [text EXCEPT ![Opened("temp")] = Broken("empty")]
        /\ setup'[p].fd = Opened("temp") /\ setup'[p].step = "writeTemp"
    BY <1>4 DEF OpenTemp, Temporary, Types
  <2>3. /\ Opened("temp") \in Inode
        /\ inode["config"] # 0 => Opened("temp") # inode["config"]
    BY FreeInode
  <2>4. inode'["temp"] = Opened("temp") /\ inode'["config"] = inode["config"]
    BY <2>2 DEF Types
  <2>5. text'[Opened("temp")].state = "empty"
    BY <2>2, <2>3 DEF Types, Broken
  <2>6. inode["config"] # 0 => text'[inode["config"]] = text[inode["config"]]
    BY <2>2, <2>3 DEF Types
  <2>7. \A q \in Setup : q # p => setup'[q].step \notin {"writeTemp", "rename"}
    BY <1>0, <2>1 DEF Saving
  <2>8. QED
    BY <2>1, <2>2, <2>4, <2>5, <2>6, <2>7 DEF TempIsMine, Saving
<1>5. CASE WriteTemp(p)
  <2> SUFFICES ASSUME ~crossed
               PROVE  TempIsMine'
    BY <1>5 DEF TempIsMine, WriteTemp
  <2> DEFINE fd == setup[p].fd
             whole == [state |-> "whole", config |-> setup[p].config]
  <2>1. /\ p \in Saving /\ fd = inode["temp"] /\ fd # 0 /\ text[fd].state = "empty"
        /\ fd \in Inode
    BY <1>5 DEF WriteTemp, At, TempIsMine, Saving, Types, Record
  <2>2. text' = [text EXCEPT ![fd] = whole] /\ inode' = inode
    BY <1>5, <2>1 DEF WriteTemp, Overlay
  <2>3. setup'[p].step = "rename"
    BY <1>5 DEF WriteTemp, Types
  <2>4. text'[fd].state = "whole"
    BY <2>1, <2>2 DEF Types
  <2>5. inode["config"] # 0 => text'[inode["config"]] = text[inode["config"]]
    BY <2>1, <2>2 DEF Types
  <2>6. \A q \in Setup : q # p => setup'[q].step \notin {"writeTemp", "rename"}
    BY <1>0, <2>1 DEF TempIsMine, Saving
  <2>7. QED
    BY <2>1, <2>2, <2>3, <2>4, <2>5, <2>6 DEF TempIsMine, Saving
<1>6. CASE Rename(p)
  <2>1. UNCHANGED <<text, crossed>> /\ setup'[p].step \in {"failed", "done"}
    BY <1>6, NextStep DEF Rename
  <2>2. CASE inode["temp"] = 0
    BY <1>6, <2>1, <2>2, TempUntouched DEF Rename, Temporary
  <2>3. CASE inode["temp"] # 0
    <3> SUFFICES ASSUME ~crossed
                 PROVE  TempIsMine'
      BY <2>1 DEF TempIsMine
    <3>1. inode'["config"] = inode["temp"]
      BY <1>6, <2>3 DEF Rename, Renamed, Temporary
    <3>2. p \in Saving /\ text[inode["temp"]].state = "whole"
      BY <1>6 DEF Rename, At, TempIsMine, Saving
    <3>3. \A q \in Setup : setup'[q].step \notin {"writeTemp", "rename"}
      BY <1>0, <2>1, <3>2 DEF TempIsMine, Saving
    <3>4. QED
      BY <2>1, <3>1, <3>2, <3>3 DEF TempIsMine, Saving
  <2>4. QED
    BY <2>2, <2>3
<1>7. CASE WriteFails(p)
  <2>1. UNCHANGED <<inode, crossed>> /\ setup'[p].step = "failed"
    BY <1>7 DEF WriteFails, Types
  <2>2. CASE text' = text
    BY <1>7, <2>1, <2>2, TempUntouched
  <2>3. CASE At(p, "writeTemp") /\ text' # text
    <3> SUFFICES ASSUME ~crossed
                 PROVE  TempIsMine'
      BY <2>1 DEF TempIsMine
    <3>1. PICK rest : text' = [text EXCEPT ![setup[p].fd] = rest]
      BY <1>7, <2>3 DEF WriteFails
    <3>2. p \in Saving /\ setup[p].fd = inode["temp"] /\ setup[p].fd # 0
      BY <2>3 DEF At, TempIsMine, Saving, Types
    <3>3. inode["config"] # 0 => text'[inode["config"]] = text[inode["config"]]
      BY <3>1, <3>2 DEF Types
    <3>4. \A q \in Setup : setup'[q].step \notin {"writeTemp", "rename"}
      BY <1>0, <2>1, <3>2 DEF TempIsMine, Saving
    <3>5. QED
      BY <2>1, <3>3, <3>4 DEF TempIsMine, Saving
  <2>4. QED
    BY <1>7, <2>2, <2>3 DEF WriteFails
<1>8. QED
  BY <1>1, <1>2, <1>3, <1>4, <1>5, <1>6, <1>7 DEF SetupStep

-----------------------------------------------------------------------------
\* The vault

\* A step that neither touches the vault nor begins or ends to rewrite it.
LEMMA VaultUntouched ==
  ASSUME Types, VaultIsMine, NEW p \in Setup, SetupStep(p),
         UNCHANGED <<vault, typed>>, hurt => hurt',
         setup'[p].step \notin {"openVault", "writeVault"},
         setup[p].step = "writeVault" => hurt'
  PROVE  VaultIsMine'
<1>1. \A q \in Setup : q # p => setup'[q] = setup[q]
  BY OthersStay
<1>2. Rewriting' \subseteq Rewriting
  BY <1>1 DEF Rewriting
<1> SUFFICES ASSUME ~hurt'
             PROVE  VaultIsMine'
  BY DEF VaultIsMine
<1>3. ~hurt /\ setup[p].step # "writeVault" /\ p \notin Rewriting'
  BY DEF Rewriting
<1>4. \A q \in Rewriting' : setup'[q] = setup[q]
  BY <1>1, <1>3 DEF Rewriting
<1>5. (\A q \in Setup : setup'[q].step # "writeVault") => vault'.keys = typed'
  BY <1>1, <1>3 DEF VaultIsMine
<1>6. QED
  BY <1>1, <1>2, <1>3, <1>4, <1>5 DEF VaultIsMine

LEMMA StepVault ==
  ASSUME FilesAssumption, Types, VaultIsMine, NEW p \in Setup, SetupStep(p)
  PROVE  VaultIsMine'
<1>0. \A q \in Setup : q # p => setup'[q] = setup[q]
  BY OthersStay
<1>1. CASE Load(p) \/ Answer(p) \/ Refuse(p) \/ Validate(p)
  <2>1. /\ setup[p].step \in {"ready", "answer", "validate"}
        /\ UNCHANGED <<vault, typed, hurt>>
    BY <1>1 DEF Load, Answer, Refuse, Validate, At
  <2>2. setup'[p].step \in {"failed", "answer", "validate", "readVault", "openTemp"}
    BY <1>1, NextStep
  <2>3. QED
    BY <2>1, <2>2, VaultUntouched
<1>2. CASE OpenTemp(p) \/ WriteTemp(p) \/ Rename(p)
  <2>1. /\ setup[p].step \in {"openTemp", "writeTemp", "rename"}
        /\ UNCHANGED <<vault, typed, hurt>>
    BY <1>2 DEF OpenTemp, WriteTemp, Rename, At
  <2>2. setup'[p].step \in {"failed", "writeTemp", "rename", "done"}
    BY <1>2, NextStep
  <2>3. QED
    BY <2>1, <2>2, VaultUntouched
<1>3. CASE ReadVault(p)
  <2> SUFFICES ASSUME ~hurt'
               PROVE  VaultIsMine'
    BY DEF VaultIsMine
  <2>1. PICK keys \in {vault.keys, NoEntries} :
          /\ setup' = [setup EXCEPT ![p].keys = keys, ![p].step = "openVault"]
          /\ hurt' = (hurt \/ Rewriting # {} \/ keys # vault.keys)
    BY <1>3 DEF ReadVault
  <2>2. ~hurt /\ Rewriting = {} /\ keys = vault.keys /\ UNCHANGED <<vault, typed>>
    BY <1>3, <2>1 DEF ReadVault
  <2>3. \A q \in Setup : setup[q].step # "writeVault"
    BY <2>2 DEF Rewriting
  <2>4. vault.keys = typed
    BY <2>2, <2>3 DEF VaultIsMine
  <2>5. setup'[p].keys = typed /\ setup'[p].step = "openVault"
    BY <2>1, <2>2, <2>4 DEF Types, Record
  <2>6. Rewriting' = {p} /\ \A q \in Setup : setup'[q].step # "writeVault"
    BY <1>0, <2>2, <2>3, <2>5 DEF Rewriting
  <2>7. QED
    BY <2>2, <2>4, <2>5, <2>6 DEF VaultIsMine
<1>4. CASE OpenVault(p)
  <2> SUFFICES ASSUME ~hurt
               PROVE  VaultIsMine'
    BY <1>4 DEF VaultIsMine, OpenVault
  <2>1. /\ p \in Rewriting /\ UNCHANGED <<typed, hurt>>
        /\ vault' = Ruined("empty")
    BY <1>4 DEF OpenVault, At, Rewriting
  <2>2. vault'.state = "empty"
    BY <2>1 DEF Ruined
  <2>3. setup'[p].step = "writeVault" /\ setup'[p].keys = setup[p].keys
    BY <1>4 DEF OpenVault, Go, Types, Record
  <2>4. Rewriting' = Rewriting
    BY <1>0, <2>1, <2>3 DEF Rewriting
  <2>5. setup'[p].keys = typed'
    BY <2>1, <2>3 DEF VaultIsMine
  <2>6. \A q \in Rewriting : q = p
    BY <2>1 DEF VaultIsMine
  <2>7. QED
    BY <2>1, <2>2, <2>3, <2>4, <2>5, <2>6 DEF VaultIsMine
<1>5. CASE WriteVault(p)
  <2> SUFFICES ASSUME ~hurt
               PROVE  VaultIsMine'
    BY <1>5 DEF VaultIsMine, WriteVault
  <2> DEFINE variable == setup[p].answer.variable
             whole == [state |-> "whole", keys |-> Upsert(setup[p].keys, variable, p)]
  <2>1. p \in Rewriting /\ setup[p].keys = typed /\ vault.state = "empty"
    BY <1>5 DEF WriteVault, At, Rewriting, VaultIsMine
  <2>2. vault' = whole /\ typed' = Noted(typed, variable, p)
    BY <1>5, <2>1 DEF WriteVault, Overlay
  <2>3. variable \in Variable /\ typed \in Entries(Variable)
    BY DEF Types, Record, Variable
  <2>4. vault'.keys = typed'
    BY <2>1, <2>2, <2>3, UpsertFacts
  <2>5. setup'[p].step = "validate"
    BY <1>5, NextStep
  <2>6. Rewriting' = {} /\ \A q \in Setup : setup'[q].step # "writeVault"
    BY <1>0, <2>1, <2>5 DEF VaultIsMine, Rewriting
  <2>7. QED
    BY <2>4, <2>6 DEF VaultIsMine
<1>6. CASE WriteFails(p) \/ Die(p)
  <2>1. setup'[p].step = "failed"
    BY <1>6, NextStep
  <2>2. (hurt => hurt') /\ (setup[p].step = "writeVault" => hurt') /\ typed' = typed
    BY <1>6 DEF WriteFails, Die, At, Types
  <2>3. CASE setup[p].step = "writeVault"
    BY <2>2, <2>3 DEF VaultIsMine
  <2>4. CASE setup[p].step # "writeVault"
    <3>1. vault' = vault
      BY <1>6, <2>4 DEF WriteFails, Die, At
    <3>2. QED
      BY <2>1, <2>2, <2>4, <3>1, VaultUntouched
  <2>5. QED
    BY <2>3, <2>4
<1>7. QED
  BY <1>1, <1>2, <1>3, <1>4, <1>5, <1>6 DEF SetupStep

-----------------------------------------------------------------------------
\* Keys of configured providers

\* What no step takes back: keys that have been typed.
LEMMA TypedGrows ==
  ASSUME Types, NEW p \in Setup, SetupStep(p)
  PROVE  DOMAIN typed \subseteq DOMAIN typed'
<1>1. CASE WriteVault(p)
  BY <1>1 DEF WriteVault, Noted
<1>2. typed' = typed \/ WriteVault(p)
  BY DEF SetupStep, Load, Answer, Refuse, ReadVault, OpenVault, Validate, OpenTemp, WriteTemp,
         Rename, WriteFails, Die
<1>3. QED
  BY <1>1, <1>2

\* What a file holds after a step, and what a setup has in hand.
LEMMA TextsFrom ==
  ASSUME FilesAssumption, Types, NEW p \in Setup, SetupStep(p), NEW i \in Inode
  PROVE  text'[i].config \in {text[i].config, DefaultConfig, setup[p].config}
<1>1. CASE OpenTemp(p)
  <2>1. text' = [text EXCEPT ![Opened("temp")] = Broken("empty")]
    BY <1>1 DEF OpenTemp, Temporary
  <2>2. QED
    BY <2>1 DEF Types, Broken
<1>2. CASE WriteTemp(p)
  <2> DEFINE whole == [state |-> "whole", config |-> setup[p].config]
  <2>1. PICK written \in Overlay(text[setup[p].fd], whole, Broken("torn")) :
          text' = [text EXCEPT ![setup[p].fd] = written]
    BY <1>2 DEF WriteTemp
  <2>2. written \in {whole, Broken("torn")}
    BY DEF Overlay
  <2>3. written.config \in {setup[p].config, DefaultConfig}
    BY <2>2 DEF Broken
  <2>4. QED
    BY <2>1, <2>3 DEF Types
<1>3. CASE WriteFails(p)
  <2>1. CASE text' = text
    BY <2>1
  <2>2. CASE \E rest \in {text[setup[p].fd], Broken("torn")} :
               text' = [text EXCEPT ![setup[p].fd] = rest]
    BY <2>2 DEF Types, Broken
  <2>3. QED
    BY <1>3, <2>1, <2>2 DEF WriteFails
<1>4. text' = text \/ OpenTemp(p) \/ WriteTemp(p) \/ WriteFails(p)
  BY DEF SetupStep, Load, Answer, Refuse, ReadVault, OpenVault, WriteVault, Validate, Rename, Die
<1>5. QED
  BY <1>1, <1>2, <1>3, <1>4

LEMMA HandFrom ==
  ASSUME Types, NEW p \in Setup, SetupStep(p)
  PROVE  \/ setup'[p].config = setup[p].config
         \/ setup'[p].config = DefaultConfig
         \/ \E i \in Inode : setup'[p].config = text[i].config
         \/ /\ Validate(p)
            /\ setup'[p].config.providers = Insert(setup[p].config.providers, setup[p].answer)
<1> USE DEF Types, Record, Go
<1>1. CASE Load(p)
  <2>1. setup'[p].config = OnDisk.config
    BY <1>1 DEF Load, OnDisk
  <2>2. inode["config"] \in Inode \cup {0}
    OBVIOUS
  <2>3. OnDisk.config = DefaultConfig \/ \E i \in Inode : OnDisk.config = text[i].config
    BY <2>2 DEF OnDisk, Broken
  <2>4. QED
    BY <2>1, <2>3
<1>2. CASE Validate(p)
  <2>1. setup'[p].config.providers = Insert(setup[p].config.providers, setup[p].answer)
    BY <1>2 DEF Validate, Config
  <2>2. QED
    BY <1>2, <2>1
<1>3. CASE Answer(p) \/ Refuse(p) \/ ReadVault(p) \/ OpenVault(p) \/ WriteVault(p)
  <2>1. CASE Answer(p) \/ Refuse(p)
    BY <2>1 DEF Answer, Refuse
  <2>2. CASE ReadVault(p) \/ OpenVault(p)
    BY <2>2 DEF ReadVault, OpenVault
  <2>3. CASE WriteVault(p)
    BY <2>3 DEF WriteVault
  <2>4. QED
    BY <1>3, <2>1, <2>2, <2>3
<1>4. CASE OpenTemp(p) \/ WriteTemp(p) \/ Rename(p) \/ WriteFails(p) \/ Die(p)
  <2>1. setup'[p].config = setup[p].config
    BY <1>4 DEF OpenTemp, WriteTemp, Rename, WriteFails, Die
  <2>2. QED
    BY <2>1
<1>5. QED
  BY <1>1, <1>2, <1>3, <1>4 DEF SetupStep

LEMMA StepResolved ==
  ASSUME FilesAssumption, Types, AllResolved, NEW p \in Setup, SetupStep(p)
  PROVE  AllResolved'
<1>1. DOMAIN typed \subseteq DOMAIN typed'
  BY TypedGrows
<1>2. \A q \in Setup : q # p => setup'[q] = setup[q]
  BY OthersStay
<1>3. /\ Resolved(DefaultConfig.providers)
      /\ Resolved(setup[p].config.providers)
      /\ \A i \in Inode : Resolved(text[i].config.providers)
  BY DEF AllResolved, Resolved, DefaultConfig, NoEntries
<1>4. \A i \in Inode : Resolved(text'[i].config.providers)
  BY <1>3, TextsFrom
<1>5. Resolved(setup'[p].config.providers)
  <2>1. CASE /\ Validate(p)
             /\ setup'[p].config.providers = Insert(setup[p].config.providers, setup[p].answer)
    <3>1. setup[p].answer.source = "manual" => setup[p].answer.variable \in DOMAIN typed
      BY <2>1 DEF Validate, At, AllResolved
    <3>2. setup[p].config.providers \in Providers /\ setup[p].answer \in Answers
      BY DEF Types, Record, Config, Providers
    <3> DEFINE before == setup[p].config.providers
               answer == setup[p].answer
               after == Insert(before, answer)
    <3>3. Resolved(before)
      BY <1>3
    <3> HIDE DEF before, answer
    <3>4. /\ DOMAIN after = DOMAIN before \cup {answer.provider}
          /\ after[answer.provider] = answer
          /\ \A q \in DOMAIN before : q # answer.provider => after[q] = before[q]
      BY <3>2, InsertFacts DEF before, answer
    <3>5. answer.source = "manual" => answer.variable \in DOMAIN typed
      BY <3>1 DEF answer
    <3> HIDE DEF after
    <3>6. Resolved(after)
      BY <3>3, <3>4, <3>5 DEF Resolved
    <3>7. QED
      BY <2>1, <3>6 DEF after, before, answer
  <2>2. QED
    BY <1>3, <2>1, HandFrom
<1>6. \A q \in Setup : Resolved(setup'[q].config.providers)
  BY <1>2, <1>5 DEF AllResolved
<1>7. (\A i \in Inode : Resolved(text[i].config.providers)')
      /\ (\A q \in Setup : Resolved(setup[q].config.providers)')
  BY <1>1, <1>4, <1>6 DEF Resolved
<1>8. setup'[p].step = "validate" /\ setup'[p].answer.source = "manual" =>
        setup'[p].answer.variable \in DOMAIN typed'
  <2>1. CASE Answer(p)
    <3>1. PICK a \in Answers :
            setup' = [setup EXCEPT ![p].answer = a, ![p].step = AfterAnswer(a.source)]
      BY <2>1 DEF Answer
    <3>2. setup'[p].answer = a /\ setup'[p].step = AfterAnswer(a.source)
      BY <3>1 DEF Types, Record
    <3>3. QED
      BY <3>2 DEF AfterAnswer
  <2>2. CASE WriteVault(p)
    <3>1. setup'[p].answer = setup[p].answer
      BY <2>2 DEF WriteVault, Go, Types, Record
    <3>2. setup[p].answer.variable \in DOMAIN typed'
      BY <2>2 DEF WriteVault, Noted
    <3>3. QED
      BY <3>1, <3>2
  <2>3. CASE ~Answer(p) /\ ~WriteVault(p)
    <3>1. setup'[p].step # "validate"
      BY <2>3, NextStep DEF SetupStep
    <3>2. QED
      BY <3>1
  <2>4. QED
    BY <2>1, <2>2, <2>3
<1>9. \A q \in Setup : setup'[q].step = "validate" /\ setup'[q].answer.source = "manual" =>
        setup'[q].answer.variable \in DOMAIN typed'
  BY <1>1, <1>2, <1>8 DEF AllResolved
<1>10. QED
  BY <1>7, <1>9 DEF AllResolved

-----------------------------------------------------------------------------
\* What was saved

\* While nobody races, the setup that moves is the only one that has anything in hand.
LEMMA Alone ==
  ASSUME Types, HandAgrees, NEW p \in Setup, SetupStep(p), ~raced'
  PROVE  ~raced /\ Holding \subseteq {p} /\ Holding' \subseteq {p}
<1>1. \A q \in Setup : q # p => setup'[q] = setup[q]
  BY OthersStay
<1>2. CASE Load(p)
  <2>1. ~raced /\ Holding = {}
    BY <1>2 DEF Load
  <2>2. QED
    BY <1>1, <2>1 DEF Holding
<1>3. CASE ~Load(p)
  <2>1. ~raced
    BY <1>3 DEF SetupStep, Answer, Refuse, ReadVault, OpenVault, WriteVault, Validate, OpenTemp,
                WriteTemp, Rename, WriteFails, Die
  <2>2. p \in Holding
    BY <1>3 DEF SetupStep, Answer, Refuse, ReadVault, OpenVault, WriteVault, Validate, OpenTemp,
                WriteTemp, Rename, WriteFails, Die, At, Holding
  <2>3. Holding \subseteq {p}
    BY <2>1, <2>2 DEF HandAgrees
  <2>4. QED
    BY <1>1, <2>1, <2>3 DEF Holding
<1>4. QED
  BY <1>2, <1>3

\* Where the configuration on disk stays, all that is left to show is what the setup that
\* moves has in hand.
LEMMA HandSuffices ==
  ASSUME Types, HandAgrees, NEW p \in Setup, SetupStep(p), ~raced', ~crossed',
         OnDisk' = OnDisk, saved' = saved,
         setup'[p].step \in {"answer", "readVault", "openVault", "writeVault", "validate"} =>
           Agrees(setup'[p].config.providers),
         setup'[p].step \in {"openTemp", "writeTemp", "rename"} =>
           AgreesBut(setup'[p].config.providers, setup'[p].answer),
         setup'[p].step = "rename" => text'[inode'["temp"]].config = setup'[p].config
  PROVE  HandAgrees'
<1>1. ~raced /\ Holding' \subseteq {p}
  BY Alone
<1>2. \A q \in Setup : q # p => setup'[q].step \in {"ready", "done", "failed"}
  BY <1>1 DEF Holding
<1>3. Agrees(OnDisk.config.providers)'
  BY <1>1 DEF HandAgrees, Agrees
<1>4. setup'[p].step \in {"answer", "readVault", "openVault", "writeVault", "validate"} =>
        Agrees(setup[p].config.providers)'
  BY DEF Agrees
<1>5. setup'[p].step \in {"openTemp", "writeTemp", "rename"} =>
        AgreesBut(setup[p].config.providers, setup[p].answer)'
  BY DEF AgreesBut
<1>6. \A q, r \in Holding' : q = r
  BY <1>1
<1>7. \A q \in Setup :
        setup'[q].step \in {"answer", "readVault", "openVault", "writeVault", "validate"} =>
          Agrees(setup[q].config.providers)'
  BY <1>2, <1>4
<1>8. \A q \in Setup : setup'[q].step \in {"openTemp", "writeTemp", "rename"} =>
        AgreesBut(setup[q].config.providers, setup[q].answer)'
  BY <1>2, <1>5
<1>9. \A q \in Setup : setup'[q].step = "rename" => text'[inode'["temp"]].config = setup'[q].config
  BY <1>2
<1>10. QED
  BY <1>3, <1>6, <1>7, <1>8, <1>9 DEF HandAgrees

LEMMA StepAgrees ==
  ASSUME FilesAssumption, Types, TempIsMine, HandAgrees, NEW p \in Setup, SetupStep(p)
  PROVE  HandAgrees'
<1> SUFFICES ASSUME ~raced'
             PROVE  HandAgrees'
  BY DEF HandAgrees
<1>0. ~raced /\ ~crossed /\ Holding \subseteq {p}
  BY Alone DEF HandAgrees
<1>1. CASE Load(p)
  <2>1. setup'[p].config = OnDisk.config /\ UNCHANGED <<inode, text, crossed, saved>>
    BY <1>1 DEF Load, OnDisk, Types, Record
  <2>2. setup'[p].step \in {"failed", "answer"}
    BY <1>1, NextStep
  <2>3. Agrees(setup'[p].config.providers)
    BY <1>0, <2>1 DEF HandAgrees
  <2>4. OnDisk' = OnDisk
    BY <2>1 DEF OnDisk
  <2>5. QED
    BY <1>0, <2>1, <2>2, <2>3, <2>4, HandSuffices
<1>2. CASE Answer(p) \/ Refuse(p) \/ ReadVault(p) \/ OpenVault(p) \/ WriteVault(p)
  <2>1. UNCHANGED <<inode, text, crossed, saved>>
    BY <1>2 DEF Answer, Refuse, ReadVault, OpenVault, WriteVault
  <2>2. setup[p].step \in {"answer", "readVault", "openVault", "writeVault"}
    BY <1>2 DEF Answer, Refuse, ReadVault, OpenVault, WriteVault, At
  <2>3. setup'[p].step \in {"failed", "readVault", "openVault", "writeVault", "validate"}
    BY <1>2, NextStep
  <2>4. setup'[p].config = setup[p].config
    <3>1. CASE Answer(p)
      BY <3>1 DEF Answer, Types, Record
    <3>2. CASE ReadVault(p)
      BY <3>2 DEF ReadVault, Types, Record
    <3>3. CASE Refuse(p) \/ OpenVault(p) \/ WriteVault(p)
      BY <3>3 DEF Refuse, OpenVault, WriteVault, Go, Types, Record
    <3>4. QED
      BY <1>2, <3>1, <3>2, <3>3
  <2>5. Agrees(setup'[p].config.providers)
    BY <1>0, <2>2, <2>4 DEF HandAgrees
  <2>6. OnDisk' = OnDisk
    BY <2>1 DEF OnDisk
  <2>7. QED
    BY <1>0, <2>1, <2>3, <2>5, <2>6, HandSuffices
<1>3. CASE Validate(p)
  <2> DEFINE before == setup[p].config.providers
             answer == setup[p].answer
  <2>1. UNCHANGED <<inode, text, crossed, saved>> /\ setup[p].step = "validate"
    BY <1>3 DEF Validate, At
  <2>2. setup'[p].step \in {"openTemp", "failed"}
    BY <1>3, NextStep
  <2>3. setup'[p].config.providers = Insert(before, answer) /\ setup'[p].answer = answer
    BY <1>3 DEF Validate, Types, Record, Config
  <2>4. before \in Providers /\ answer \in Answers
    BY DEF Types, Record, Config, Providers
  <2>5. Agrees(before)
    BY <1>0, <2>1 DEF HandAgrees
  <2>6. AgreesBut(Insert(before, answer), answer)
    <3> HIDE DEF before, answer
    <3> DEFINE after == Insert(before, answer)
    <3>1. /\ DOMAIN after = DOMAIN before \cup {answer.provider}
          /\ after[answer.provider] = answer
          /\ \A q \in DOMAIN before : q # answer.provider => after[q] = before[q]
      BY <2>4, InsertFacts
    <3> HIDE DEF after
    <3>2. AgreesBut(after, answer)
      BY <2>5, <3>1 DEF Agrees, AgreesBut
    <3>3. QED
      BY <3>2 DEF after
  <2>7. OnDisk' = OnDisk
    BY <2>1 DEF OnDisk
  <2>8. AgreesBut(setup'[p].config.providers, setup'[p].answer)
    BY <2>3, <2>6
  <2>9. QED
    BY <1>0, <2>1, <2>2, <2>7, <2>8, HandSuffices
<1>4. CASE OpenTemp(p)
  <2>1. setup[p].step = "openTemp" /\ saved' = saved
    BY <1>4 DEF OpenTemp, At
  <2>2. Saving = {}
    BY <1>0, <2>1 DEF Saving, Holding
  <2>3. ~crossed'
    BY <1>0, <1>4, <2>2 DEF OpenTemp
  <2>4. /\ inode' = [inode EXCEPT !["temp"] = Opened("temp")]
        /\ text' = [text EXCEPT ![Opened("temp")] = Broken("empty")]
        /\ setup'[p].config = setup[p].config /\ setup'[p].answer = setup[p].answer
    BY <1>4 DEF OpenTemp, Temporary, Types, Record
  <2>5. /\ Opened("temp") \in Inode
        /\ inode["config"] # 0 => Opened("temp") # inode["config"]
    BY FreeInode
  <2>6. OnDisk' = OnDisk
    BY <2>4, <2>5 DEF OnDisk, Types
  <2>7. AgreesBut(setup[p].config.providers, setup[p].answer)
    BY <1>0, <2>1 DEF HandAgrees
  <2>8. setup'[p].step = "writeTemp"
    BY <1>4, NextStep
  <2>9. AgreesBut(setup'[p].config.providers, setup'[p].answer)
    BY <2>4, <2>7
  <2>10. QED
    BY <2>1, <2>3, <2>6, <2>8, <2>9, HandSuffices
<1>5. CASE WriteTemp(p)
  <2> DEFINE fd == setup[p].fd
             whole == [state |-> "whole", config |-> setup[p].config]
  <2>1. /\ setup[p].step = "writeTemp" /\ fd = inode["temp"] /\ fd \in Inode
        /\ fd # 0 /\ text[fd].state = "empty"
    BY <1>0, <1>5 DEF WriteTemp, At, TempIsMine, Types, Record
  <2>2. text' = [text EXCEPT ![fd] = whole] /\ UNCHANGED <<inode, crossed, saved>>
    BY <1>5, <2>1 DEF WriteTemp, Overlay
  <2>3. setup'[p].config = setup[p].config /\ setup'[p].answer = setup[p].answer
    BY <1>5 DEF WriteTemp, Types, Record
  <2>4. text'[inode'["temp"]].config = setup'[p].config
    BY <2>1, <2>2, <2>3 DEF Types
  <2>5. OnDisk' = OnDisk
    BY <2>1, <2>2 DEF OnDisk, Types
  <2>6. AgreesBut(setup[p].config.providers, setup[p].answer)
    BY <1>0, <2>1 DEF HandAgrees
  <2>7. setup'[p].step = "rename"
    BY <1>5, NextStep
  <2>8. AgreesBut(setup'[p].config.providers, setup'[p].answer)
    BY <2>3, <2>6
  <2>9. QED
    BY <1>0, <2>2, <2>4, <2>5, <2>7, <2>8, HandSuffices
<1>6. CASE Rename(p)
  <2>1. setup[p].step = "rename" /\ UNCHANGED <<text, crossed>>
    BY <1>6 DEF Rename, At
  <2>2. inode["temp"] # 0
    BY <1>0, <2>1 DEF TempIsMine
  <2>3. /\ inode'["config"] = inode["temp"]
        /\ saved' = Noted(saved, setup[p].answer.provider, setup[p].answer)
    BY <1>6, <2>2 DEF Rename, Renamed, Temporary
  <2>4. OnDisk'.config = setup[p].config
    BY <1>0, <2>1, <2>2, <2>3 DEF OnDisk, HandAgrees
  <2>5. AgreesBut(setup[p].config.providers, setup[p].answer)
    BY <1>0, <2>1 DEF HandAgrees
  <2>6. Agrees(OnDisk.config.providers)'
    BY <2>3, <2>4, <2>5 DEF Agrees, AgreesBut, Noted
  <2>7. setup'[p].step \in {"failed", "done"}
    BY <1>6, NextStep
  <2>8. Holding' = {} /\ \A q \in Setup : setup'[q].step \in {"ready", "done", "failed"}
    BY <2>7, Alone DEF Holding
  <2>9. QED
    BY <1>0, <2>1, <2>6, <2>8 DEF HandAgrees
<1>7. CASE WriteFails(p) \/ Die(p)
  <2>1. setup'[p].step = "failed" /\ UNCHANGED <<inode, crossed, saved>>
    BY <1>7, NextStep DEF WriteFails, Die
  <2>2. OnDisk' = OnDisk
    <3>1. CASE text' = text
      BY <2>1, <3>1 DEF OnDisk
    <3>2. CASE At(p, "writeTemp") /\ \E rest : text' = [text EXCEPT ![setup[p].fd] = rest]
      <4>1. setup[p].fd = inode["temp"] /\ setup[p].fd # 0
        BY <1>0, <3>2 DEF At, TempIsMine, Types
      <4>2. QED
        BY <2>1, <3>2, <4>1 DEF OnDisk, Types
    <3>3. QED
      BY <1>7, <3>1, <3>2 DEF WriteFails, Die
  <2>3. QED
    BY <1>0, <2>1, <2>2, HandSuffices
<1>8. QED
  BY <1>1, <1>2, <1>3, <1>4, <1>5, <1>6, <1>7 DEF SetupStep

-----------------------------------------------------------------------------
\* At first nothing is saved, typed or in hand.
LEMMA InitFiles == FilesAssumption /\ AtFirst => FilesInv
<1> SUFFICES ASSUME FilesAssumption, AtFirst
             PROVE  FilesInv
  OBVIOUS
<1>1. Types
  BY InitTypes
<1>2. PICK first \in 0..1, settings \in Initial :
        /\ inode = [name \in {"config", "temp"} |-> IF name = "config" THEN first ELSE 0]
        /\ text = [i \in Inode |->
             IF i = first
             THEN [state |-> "whole", config |-> [settings |-> settings, providers |-> NoEntries]]
             ELSE Broken("empty")]
  BY DEF AtFirst, FilesAtFirst
<1>3. \A p \in Setup : setup[p].step \in {"ready", "done"} /\ setup[p].config = DefaultConfig
  BY DEF AtFirst, Idle
<1>4. Holding = {} /\ Saving = {} /\ Rewriting = {}
  BY <1>3 DEF Holding, Saving, Rewriting
<1>5. \A i \in Inode : DOMAIN text[i].config.providers = {}
  BY <1>2 DEF Broken, DefaultConfig, NoEntries
<1>6. TempIsMine
  <2>1. inode["config"] # 0 => inode["config"] \in Inode /\ inode["config"] = first
    BY <1>1, <1>2 DEF Types
  <2>2. inode["config"] # 0 => text[inode["config"]].state = "whole"
    BY <1>2, <2>1
  <2>3. QED
    BY <1>3, <1>4, <2>2 DEF TempIsMine
<1>7. vault.keys = typed /\ DOMAIN saved = {} /\ ~crossed
  BY DEF AtFirst, FilesAtFirst, Ruined, NoEntries
<1>8. VaultIsMine
  BY <1>3, <1>4, <1>7 DEF VaultIsMine
<1>9. AllResolved
  BY <1>3, <1>5 DEF AllResolved, Resolved, DefaultConfig, NoEntries
<1>10. HandAgrees
  BY <1>3, <1>4, <1>7 DEF HandAgrees, Agrees
<1>11. QED
  BY <1>1, <1>6, <1>8, <1>9, <1>10 DEF FilesInv

LEMMA FilesStutter ==
  ASSUME FilesInv, UNCHANGED fileVars
  PROVE  FilesInv'
<1> USE DEF fileVars
<1>1. Types'
  BY DEF FilesInv, Types
<1>2. TempIsMine'
  BY DEF FilesInv, TempIsMine, Saving
<1>3. VaultIsMine'
  BY DEF FilesInv, VaultIsMine, Rewriting
<1>4. AllResolved'
  BY DEF FilesInv, AllResolved, Resolved
<1>5. HandAgrees'
  BY DEF FilesInv, HandAgrees, Holding, Agrees, AgreesBut, OnDisk
<1>6. QED
  BY <1>1, <1>2, <1>3, <1>4, <1>5 DEF FilesInv

LEMMA FilesStep ==
  ASSUME FilesAssumption, FilesInv, [\E p \in Setup : SetupStep(p)]_fileVars
  PROVE  FilesInv'
<1>1. ASSUME NEW p \in Setup, SetupStep(p)
      PROVE  FilesInv'
  BY <1>1, StepTypes, StepTemp, StepVault, StepResolved, StepAgrees DEF FilesInv
<1>2. QED
  BY <1>1, FilesStutter

\* The inductive invariant holds throughout.
THEOREM FilesInvariance == FilesSpec => []FilesInv
<1> USE FilesAssumption
<1>1. FilesInit => AtFirst
  <2>1. [Idle EXCEPT !.step = "ready"] = Idle
    BY DEF Idle
  <2>2. QED
    BY <2>1 DEF FilesInit, AtFirst
<1>2. FilesInit => FilesInv
  BY <1>1, InitFiles
<1>3. FilesInv /\ [\E p \in Setup : SetupStep(p)]_fileVars => FilesInv'
  BY FilesStep
<1>4. QED
  BY <1>2, <1>3, PTL DEF FilesSpec

-----------------------------------------------------------------------------
(* What the invariant says of the files *)

LEMMA VaultHoldsTyped ==
  ASSUME VaultIsMine, ~hurt, Rewriting = {}
  PROVE  vault.keys = typed
<1>1. {p \in Setup : setup[p].step = "writeVault"} \subseteq Rewriting
  BY DEF Rewriting
<1>2. \A p \in Setup : setup[p].step # "writeVault"
  BY <1>1
<1>3. QED
  BY <1>2 DEF VaultIsMine

\* All that is promised of the files.
Promises == FilesTypeOK /\ ConfigWhole /\ KeysSurvive /\ ConfiguredKeysResolve /\ SavedSetupStays

LEMMA InvariantSuffices == FilesInv => Promises
<1> SUFFICES ASSUME FilesInv
             PROVE  Promises
  OBVIOUS
<1>1. FilesTypeOK
  <2>1. \A p \in Setup : /\ setup[p].config \in Config /\ setup[p].answer \in Answers
                         /\ setup[p].keys \in Entries(Variable) /\ setup[p].fd \in Inode \cup {0}
    BY DEF FilesInv, Types, Record
  <2>2. QED
    BY <2>1 DEF FilesInv, Types, FilesTypeOK
<1>2. ConfigWhole
  BY DEF FilesInv, TempIsMine, ConfigWhole, OnDisk, Broken
<1>3. KeysSurvive
  BY VaultHoldsTyped DEF FilesInv, KeysSurvive
<1>4. ConfiguredKeysResolve
  <2>1. CASE inode["config"] = 0
    BY <2>1 DEF OnDisk, Broken, DefaultConfig, NoEntries, ConfiguredKeysResolve
  <2>2. CASE inode["config"] # 0
    <3>1. inode["config"] \in Inode
      BY <2>2 DEF FilesInv, Types
    <3>2. Resolved(OnDisk.config.providers)
      BY <2>2, <3>1 DEF FilesInv, OnDisk, AllResolved
    <3>3. QED
      BY <3>2, VaultHoldsTyped DEF FilesInv, ConfiguredKeysResolve, Resolved
  <2>3. QED
    BY <2>1, <2>2
<1>5. SavedSetupStays
  BY DEF FilesInv, HandAgrees, Agrees, SavedSetupStays
<1>6. QED
  BY <1>1, <1>2, <1>3, <1>4, <1>5 DEF Promises

-----------------------------------------------------------------------------
(* What is saved validates *)

ValidConfig(config) == config.settings \in Acceptable /\ ValidProviders(config.providers)

\* A setup saves only what it has found valid, and while no two have the temporary file open
\* at once, that is what it renames: a configuration that was saved over validates.
OnlyValid ==
  /\ \A p \in Setup : setup[p].step \in {"openTemp", "writeTemp", "rename"} => ValidConfig(setup[p].config)
  /\ ~crossed => \A p \in Setup : setup[p].step = "rename" => ValidConfig(text[inode["temp"]].config)
  /\ ~crossed => saved = NoEntries \/ (inode["config"] # 0 /\ ValidConfig(text[inode["config"]].config))

LEMMA StepOnlyValid ==
  ASSUME FilesAssumption, Types, TempIsMine, OnlyValid, NEW p \in Setup, SetupStep(p)
  PROVE  OnlyValid'
<1>1. \A q \in Setup : q # p => setup'[q] = setup[q]
  BY OthersStay
<1>2. ASSUME UNCHANGED <<inode, text, crossed, saved>>,
             setup'[p].step \in {"openTemp", "writeTemp", "rename"} => ValidConfig(setup'[p].config),
             setup'[p].step # "rename"
      PROVE  OnlyValid'
  <2>1. \A q \in Setup : setup'[q].step \in {"openTemp", "writeTemp", "rename"} =>
          ValidConfig(setup[q].config)'
    BY <1>1, <1>2 DEF OnlyValid, ValidConfig
  <2>2. \A q \in Setup : setup'[q].step = "rename" => setup[q].step = "rename"
    BY <1>1, <1>2
  <2>3. QED
    BY <1>2, <2>1, <2>2 DEF OnlyValid, ValidConfig
<1>3. CASE Load(p) \/ Answer(p) \/ Refuse(p) \/ ReadVault(p) \/ OpenVault(p) \/ WriteVault(p)
  <2>1. UNCHANGED <<inode, text, crossed, saved>>
    BY <1>3 DEF Load, Answer, Refuse, ReadVault, OpenVault, WriteVault
  <2>2. setup'[p].step \notin {"openTemp", "writeTemp", "rename"}
    BY <1>3, NextStep
  <2>3. QED
    BY <1>2, <2>1, <2>2
<1>4. CASE Validate(p)
  <2>1. UNCHANGED <<inode, text, crossed, saved>>
    BY <1>4 DEF Validate
  <2>2. setup'[p].step = "openTemp" => ValidConfig(setup'[p].config)
    BY <1>4 DEF Validate, AfterValidation, ValidConfig, Types, Record, Config
  <2>3. setup'[p].step \in {"openTemp", "failed"}
    BY <1>4, NextStep
  <2>4. QED
    BY <1>2, <2>1, <2>2, <2>3
<1>5. CASE OpenTemp(p)
  <2>1. setup[p].step = "openTemp" /\ setup'[p].step = "writeTemp" /\ UNCHANGED saved
    BY <1>5, NextStep DEF OpenTemp, At
  <2>2. setup'[p].config = setup[p].config
    BY <1>5 DEF OpenTemp, Types, Record
  <2>3. \A q \in Setup : setup'[q].step \in {"openTemp", "writeTemp", "rename"} =>
          ValidConfig(setup[q].config)'
    BY <1>1, <2>1, <2>2 DEF OnlyValid, ValidConfig
  <2>4. ASSUME ~crossed'
        PROVE  /\ ~crossed /\ \A q \in Setup : setup'[q].step # "rename"
               /\ inode'["config"] = inode["config"]
               /\ inode["config"] # 0 => text'[inode["config"]] = text[inode["config"]]
    <3>1. ~crossed /\ Saving = {}
      BY <1>5, <2>4 DEF OpenTemp
    <3>2. \A q \in Setup : setup'[q].step # "rename"
      BY <1>1, <2>1, <3>1 DEF Saving
    <3>3. /\ inode' = [inode EXCEPT !["temp"] = Opened("temp")]
          /\ text' = [text EXCEPT ![Opened("temp")] = Broken("empty")]
      BY <1>5 DEF OpenTemp, Temporary
    <3>4. QED
      BY <3>1, <3>2, <3>3, FreeInode DEF Types
  <2>5. QED
    BY <2>1, <2>3, <2>4 DEF OnlyValid, ValidConfig
<1>6. CASE WriteTemp(p)
  <2> DEFINE fd == setup[p].fd
             whole == [state |-> "whole", config |-> setup[p].config]
  <2>1. setup[p].step = "writeTemp" /\ UNCHANGED <<inode, crossed, saved>>
    BY <1>6 DEF WriteTemp, At
  <2>2. setup'[p].config = setup[p].config
    BY <1>6 DEF WriteTemp, Types, Record
  <2>3. ValidConfig(setup[p].config)
    BY <2>1 DEF OnlyValid
  <2>4. \A q \in Setup : setup'[q].step \in {"openTemp", "writeTemp", "rename"} =>
          ValidConfig(setup[q].config)'
    BY <1>1, <2>2, <2>3 DEF OnlyValid, ValidConfig
  <2>5. ASSUME ~crossed
        PROVE  /\ text'[inode["temp"]].config = setup[p].config
               /\ inode["config"] # 0 => text'[inode["config"]] = text[inode["config"]]
    <3>1. fd = inode["temp"] /\ text[fd].state = "empty" /\ fd # 0 /\ fd \in Inode
      BY <2>1, <2>5 DEF TempIsMine, Types, Record
    <3>2. text' = [text EXCEPT ![fd] = whole]
      BY <1>6, <3>1 DEF WriteTemp, Overlay
    <3>3. QED
      BY <3>1, <3>2 DEF Types
  <2>6. QED
    BY <2>1, <2>3, <2>4, <2>5 DEF OnlyValid, ValidConfig
<1>7. CASE Rename(p)
  <2>1. setup[p].step = "rename" /\ UNCHANGED <<text, crossed>>
    BY <1>7 DEF Rename, At
  <2>2. setup'[p].step \in {"failed", "done"}
    BY <1>7, NextStep
  <2>3. \A q \in Setup : setup'[q].step \in {"openTemp", "writeTemp", "rename"} =>
          ValidConfig(setup[q].config)'
    BY <1>1, <2>2 DEF OnlyValid, ValidConfig
  <2>4. ASSUME ~crossed
        PROVE  /\ \A q \in Setup : setup'[q].step # "rename"
               /\ inode'["config"] # 0 /\ ValidConfig(text[inode'["config"]].config)
    <3>1. \A q \in Saving : q = p
      BY <2>1, <2>4 DEF TempIsMine, Saving
    <3>2. inode["temp"] # 0
      BY <2>1, <2>4 DEF TempIsMine
    <3>3. inode'["config"] = inode["temp"]
      BY <1>7, <3>2 DEF Rename, Renamed, Temporary
    <3>4. QED
      BY <1>1, <2>1, <2>2, <2>4, <3>1, <3>2, <3>3 DEF OnlyValid, Saving
  <2>5. QED
    BY <2>1, <2>3, <2>4 DEF OnlyValid, ValidConfig
<1>8. CASE WriteFails(p) \/ Die(p)
  <2>1. setup'[p].step = "failed" /\ UNCHANGED <<inode, crossed, saved>>
    BY <1>8, NextStep DEF WriteFails, Die
  <2>2. CASE text' = text
    BY <1>2, <2>1, <2>2
  <2>3. CASE At(p, "writeTemp") /\ \E rest : text' = [text EXCEPT ![setup[p].fd] = rest]
    <3>1. \A q \in Setup : setup'[q].step \in {"openTemp", "writeTemp", "rename"} =>
            ValidConfig(setup[q].config)'
      BY <1>1, <2>1 DEF OnlyValid, ValidConfig
    <3>2. ASSUME ~crossed
          PROVE  /\ \A q \in Setup : setup'[q].step # "rename"
                 /\ inode["config"] # 0 => text'[inode["config"]] = text[inode["config"]]
      <4>1. p \in Saving /\ setup[p].fd = inode["temp"] /\ setup[p].fd # 0
        BY <2>3, <3>2 DEF At, Saving, TempIsMine, Types
      <4>2. \A q \in Saving : q = p
        BY <3>2, <4>1 DEF TempIsMine
      <4>3. \A q \in Setup : setup'[q].step # "rename"
        BY <1>1, <2>1, <4>2 DEF Saving
      <4>4. QED
        BY <2>3, <4>1, <4>3 DEF Types
    <3>3. QED
      BY <2>1, <3>1, <3>2 DEF OnlyValid, ValidConfig
  <2>4. QED
    BY <1>8, <2>2, <2>3 DEF WriteFails, Die
<1>9. QED
  BY <1>3, <1>4, <1>5, <1>6, <1>7, <1>8 DEF SetupStep

\* At first nothing was saved.
LEMMA InitOnlyValid == AtFirst => OnlyValid
BY DEF AtFirst, FilesAtFirst, Idle, OnlyValid

-----------------------------------------------------------------------------
(* The promises *)

\* Every variable keeps its type.
THEOREM FilesTypeCorrect == FilesSpec => []FilesTypeOK
<1>1. FilesInv => FilesTypeOK
  BY InvariantSuffices DEF Promises
<1>2. QED
  BY <1>1, FilesInvariance, PTL

\* Whichever write fails and whenever a setup dies, the configuration on disk is whole,
\* unless two setups had the temporary file open at once.
THEOREM ConfigStaysWhole == FilesSpec => []ConfigWhole
<1>1. FilesInv => ConfigWhole
  BY InvariantSuffices DEF Promises
<1>2. QED
  BY <1>1, FilesInvariance, PTL

\* A setup that saves a key, fails or dies loses no other.
THEOREM OtherKeysSurvive == FilesSpec => []KeysSurvive
<1>1. FilesInv => KeysSurvive
  BY InvariantSuffices DEF Promises
<1>2. QED
  BY <1>1, FilesInvariance, PTL

\* No provider whose key was typed by hand is configured before its key is in the vault.
THEOREM KeysOfConfiguredResolve == FilesSpec => []ConfiguredKeysResolve
<1>1. FilesInv => ConfiguredKeysResolve
  BY InvariantSuffices DEF Promises
<1>2. QED
  BY <1>1, FilesInvariance, PTL

\* What a setup reported as saved stays in the configuration, unless setups raced for it.
THEOREM SavedStays == FilesSpec => []SavedSetupStays
<1>1. FilesInv => SavedSetupStays
  BY InvariantSuffices DEF Promises
<1>2. QED
  BY <1>1, FilesInvariance, PTL
=============================================================================
