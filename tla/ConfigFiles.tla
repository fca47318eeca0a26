----------------------------- MODULE ConfigFiles -----------------------------
(***************************************************************************)
(* Interactive setups (src/src/setup.rs) and the files they write: the     *)
(* configuration, replaced by renaming a temporary file over it, and the   *)
(* vault of keys, rewritten in place.  Several setups may run at once; any *)
(* of them may be killed between two system calls, and any write may fail. *)
(*                                                                         *)
(* A file is a name for an inode.  Opening it for writing truncates the    *)
(* inode; a text is written over what the inode holds by then, from its    *)
(* start; a file that is still open keeps its inode when it is renamed.    *)
(***************************************************************************)
EXTENDS Integers, FiniteSets

CONSTANTS
  Setup,        \* runs of the setup
  Settings,     \* what a configuration says besides its providers
  Acceptable,   \* the settings that validate
  Default,      \* Config::default()
  Initial,      \* the settings of the file that may be there at first
  Answers,      \* what a user may answer: a provider, a source and a variable
  BadVariable   \* a variable whose name does not validate

Source == {"bashrc", "dotenv", "manual"}
ProviderId == {a.provider : a \in Answers}
Variable == {a.variable : a \in Answers}

ASSUME FilesAssumption ==
  /\ IsFiniteSet(Setup) /\ Answers # {}
  /\ Acceptable \subseteq Settings /\ Default \in Acceptable
  /\ Initial \subseteq Settings
  /\ \A a \in Answers : a.source \in Source

VARIABLES
  inode,   \* the name's inode of "config" and "temp", or 0
  text,    \* per inode: what it holds
  vault,   \* the vault, which keeps its inode
  setup,   \* per setup: where it is and what it works on
  typed,   \* history: the last key of each variable that a setup put into the vault
  hurt,    \* history: the vault was read or left in the middle of a rewriting
  crossed, \* history: two setups had the temporary file open at once
  raced,   \* history: two setups had the configuration in hand at once
  saved    \* history: the answer last saved for each provider

fileVars == <<inode, text, vault, setup, typed, hurt, crossed, raced, saved>>

NoEntries == [i \in {} |-> i]
Entries(keys) == UNION {[some -> Setup] : some \in SUBSET keys}
Config == [settings : Settings, providers : UNION {[some -> Answers] : some \in SUBSET ProviderId}]

\* A text is whole, or empty, or a part of one text and perhaps the end of another.
State == {"none", "empty", "torn", "whole"}
DefaultConfig == [settings |-> Default, providers |-> NoEntries]
ConfigText == [state : State, config : Config]
VaultText == [state : State, keys : Entries(Variable)]
Broken(state) == [state |-> state, config |-> DefaultConfig]
Ruined(state) == [state |-> state, keys |-> NoEntries]

Inode == 1..(Cardinality(Setup) + 2)

-----------------------------------------------------------------------------
\* write_private

\* The inodes that a name or an open file refers to.
InUse == {inode["config"], inode["temp"]} \cup {setup[p].fd : p \in Setup}

\* open with create and truncate: the inode of the name, or a new one.
Opened(name) ==
  IF inode[name] # 0 THEN inode[name]
  ELSE CHOOSE i \in Inode \ InUse : \A j \in Inode \ InUse : i <= j

\* write_all of a text over an inode: a longer text that is there already shows at its end.
Overlay(there, new, broken) == IF there.state = "empty" THEN {new} ELSE {new, broken}

-----------------------------------------------------------------------------
Idle == [step |-> "ready", config |-> DefaultConfig, answer |-> CHOOSE a \in Answers : TRUE,
         keys |-> NoEntries, fd |-> 0]

FilesAtFirst ==
  /\ \E first \in 0..1, settings \in Initial :
       /\ inode = [name \in {"config", "temp"} |-> IF name = "config" THEN first ELSE 0]
       /\ text = [i \in Inode |->
            IF i = first
            THEN [state |-> "whole", config |-> [settings |-> settings, providers |-> NoEntries]]
            ELSE Broken("empty")]
  /\ vault = Ruined("none")
  /\ typed = NoEntries
  /\ hurt = FALSE /\ crossed = FALSE /\ raced = FALSE
  /\ saved = NoEntries

FilesInit == FilesAtFirst /\ setup = [p \in Setup |-> Idle]

At(p, step) == setup[p].step = step
Go(p, step) == setup' = [setup EXCEPT ![p].step = step]

\* The setups that have the configuration, the vault or the temporary file in hand.
Holding   == {p \in Setup : setup[p].step \notin {"ready", "done", "failed"}}
Rewriting == {p \in Setup : setup[p].step \in {"openVault", "writeVault"}}
Saving    == {p \in Setup : setup[p].step \in {"writeTemp", "rename"}}

\* Config::load: the default where there is no file, or an empty one.
Load(p) ==
  /\ At(p, "ready")
  /\ LET there == IF inode["config"] = 0 THEN Broken("none") ELSE text[inode["config"]]
     IN setup' = [setup EXCEPT ![p].step = IF there.state = "torn" THEN "failed" ELSE "answer",
                               ![p].config = there.config]
  /\ raced' = (raced \/ Holding # {})
  /\ UNCHANGED <<inode, text, vault, typed, hurt, crossed, saved>>

\* Mutant: a key typed by hand is not put away.
SkipVault(source) == "validate"

\* Only a key typed by hand goes into the vault.
AfterAnswer(source) == IF source = "manual" THEN "readVault" ELSE "validate"

\* The prompts up to the credential: one that has no answer among its choices, or an empty
\* key, ends the setup.
Answer(p) ==
  /\ At(p, "answer")
  /\ \E a \in Answers : setup' = [setup EXCEPT ![p].answer = a, ![p].step = AfterAnswer(a.source)]
  /\ UNCHANGED <<inode, text, vault, typed, hurt, crossed, raced, saved>>

Refuse(p) ==
  /\ At(p, "answer")
  /\ Go(p, "failed")
  /\ UNCHANGED <<inode, text, vault, typed, hurt, crossed, raced, saved>>

\* upsert_secret reads the vault; any error counts as an empty one.
ReadVault(p) ==
  /\ At(p, "readVault")
  /\ \E keys \in {vault.keys, NoEntries} :
       /\ setup' = [setup EXCEPT ![p].keys = keys, ![p].step = "openVault"]
       /\ hurt' = (hurt \/ Rewriting # {} \/ keys # vault.keys)
  /\ UNCHANGED <<inode, text, vault, typed, crossed, raced, saved>>

OpenVault(p) ==
  /\ At(p, "openVault")
  /\ vault' = Ruined("empty")
  /\ Go(p, "writeVault")
  /\ UNCHANGED <<inode, text, typed, hurt, crossed, raced, saved>>

\* What the histories keep: f with value v at i.
Noted(f, i, v) == [j \in DOMAIN f \cup {i} |-> IF j = i THEN v ELSE f[j]]

\* Mutant: only the new key is written.
OnlyKey(keys, variable, key) == [v \in {variable} |-> key]

\* The lines of other variables stay, and the key comes last.
Upsert(keys, variable, key) ==
  [v \in DOMAIN keys \cup {variable} |-> IF v = variable THEN key ELSE keys[v]]

WriteVault(p) ==
  /\ At(p, "writeVault")
  /\ LET variable == setup[p].answer.variable
         new == [state |-> "whole", keys |-> Upsert(setup[p].keys, variable, p)]
     IN /\ vault' \in Overlay(vault, new, Ruined("torn"))
        /\ typed' = Noted(typed, variable, p)
  /\ Go(p, "validate")
  /\ UNCHANGED <<inode, text, hurt, crossed, raced, saved>>

\* Mutant: the providers that were there are dropped.
OnlyProvider(providers, answer) == [q \in {answer.provider} |-> answer]

Insert(providers, answer) ==
  [q \in DOMAIN providers \cup {answer.provider} |->
     IF q = answer.provider THEN answer ELSE providers[q]]

ValidProviders(providers) == \A q \in DOMAIN providers : providers[q].variable # BadVariable

\* Mutant: what does not validate is saved all the same.
SaveAnyway(valid) == "openTemp"

\* The configuration with the new provider validates, or the setup ends here: a key that
\* was typed is in the vault by now.
AfterValidation(valid) == IF valid THEN "openTemp" ELSE "failed"

Validate(p) ==
  /\ At(p, "validate")
  /\ LET new == Insert(setup[p].config.providers, setup[p].answer)
     IN setup' = [setup EXCEPT
          ![p].config.providers = new,
          ![p].step = AfterValidation(setup[p].config.settings \in Acceptable /\ ValidProviders(new))]
  /\ UNCHANGED <<inode, text, vault, typed, hurt, crossed, raced, saved>>

\* Mutant: the configuration is written in place.
InPlace == "config"

\* save writes path.with_extension("toml.tmp"), which is the same for every setup.
Temporary == "temp"

OpenTemp(p) ==
  /\ At(p, "openTemp")
  /\ inode' = [inode EXCEPT ![Temporary] = Opened(Temporary)]
  /\ text' = [text EXCEPT ![Opened(Temporary)] = Broken("empty")]
  /\ setup' = [setup EXCEPT ![p].fd = Opened(Temporary), ![p].step = "writeTemp"]
  /\ crossed' = (crossed \/ Saving # {})
  /\ UNCHANGED <<vault, typed, hurt, raced, saved>>

WriteTemp(p) ==
  /\ At(p, "writeTemp")
  /\ LET fd == setup[p].fd
         new == [state |-> "whole", config |-> setup[p].config]
     IN \E written \in Overlay(text[fd], new, Broken("torn")) : text' = [text EXCEPT ![fd] = written]
  /\ setup' = [setup EXCEPT ![p].fd = 0, ![p].step = "rename"]
  /\ UNCHANGED <<inode, vault, typed, hurt, crossed, raced, saved>>

\* The names after a rename of the temporary file over the configuration.
Renamed == [name \in {"config", "temp"} |-> IF name = "config" THEN inode[Temporary] ELSE 0]

\* fs::rename fails when another setup has renamed the temporary file away.
Rename(p) ==
  /\ At(p, "rename")
  /\ IF inode[Temporary] = 0
     THEN Go(p, "failed") /\ UNCHANGED <<inode, saved>>
     ELSE /\ inode' = Renamed
          /\ saved' = Noted(saved, setup[p].answer.provider, setup[p].answer)
          /\ Go(p, "done")
  /\ UNCHANGED <<text, vault, typed, hurt, crossed, raced>>

\* A full disk, or a kill: what was being written stays as it is, or in part.
WriteFails(p) ==
  /\ \/ /\ At(p, "writeVault")
        /\ vault' \in {vault, Ruined("torn")}
        /\ UNCHANGED text
     \/ /\ At(p, "writeTemp")
        /\ \E left \in {text[setup[p].fd], Broken("torn")} :
             text' = [text EXCEPT ![setup[p].fd] = left]
        /\ UNCHANGED vault
  /\ setup' = [setup EXCEPT ![p].fd = 0, ![p].step = "failed"]
  /\ hurt' = (hurt \/ At(p, "writeVault"))
  /\ UNCHANGED <<inode, typed, crossed, raced, saved>>

\* A kill of the process, or a failure of another call.  What was written stays: nothing
\* is synced to the disk, so that a power cut may leave less.
Die(p) ==
  /\ p \in Holding
  /\ setup' = [setup EXCEPT ![p].fd = 0, ![p].step = "failed"]
  /\ hurt' = (hurt \/ At(p, "writeVault"))
  /\ UNCHANGED <<inode, text, vault, typed, crossed, raced, saved>>

SetupStep(p) ==
  \/ Load(p) \/ Answer(p) \/ Refuse(p) \/ ReadVault(p) \/ OpenVault(p) \/ WriteVault(p)
  \/ Validate(p) \/ OpenTemp(p) \/ WriteTemp(p) \/ Rename(p) \/ WriteFails(p) \/ Die(p)

FilesSpec == FilesInit /\ [][\E p \in Setup : SetupStep(p)]_fileVars

-----------------------------------------------------------------------------
\* What a program that loads the configuration finds.
OnDisk == IF inode["config"] = 0 THEN Broken("none") ELSE text[inode["config"]]

\* Every variable has its type, and a setup's open file is its own inode.
FilesTypeOK ==
  /\ inode \in [{"config", "temp"} -> Inode \cup {0}]
  /\ inode["config"] # 0 => inode["config"] # inode["temp"]
  /\ text \in [Inode -> ConfigText]
  /\ vault \in VaultText
  /\ \A p \in Setup :
       /\ setup[p].config \in Config /\ setup[p].answer \in Answers
       /\ setup[p].keys \in Entries(Variable) /\ setup[p].fd \in Inode \cup {0}
       /\ setup[p].fd # 0 <=> setup[p].step = "writeTemp"
  /\ typed \in Entries(Variable)
  /\ {hurt, crossed, raced} \subseteq BOOLEAN
  /\ DOMAIN saved \subseteq ProviderId

\* Whatever write fails and whenever a setup dies, the configuration is whole, unless two
\* setups had the temporary file open at once.
ConfigWhole == ~crossed => OnDisk.state \in {"none", "whole"}

\* "manual vault preserves other keys and replaces selected key": a setup that saves a key,
\* fails or dies loses no other, unless one died while the vault was being rewritten, could
\* not read it, or read it while another was rewriting it.
KeysSurvive == ~hurt /\ Rewriting = {} => vault.keys = typed

\* A provider whose key was typed by hand is never configured before its key is in the
\* vault, and the key stays there.
ConfiguredKeysResolve ==
  ~hurt /\ ~crossed /\ Rewriting = {} =>
    \A q \in DOMAIN OnDisk.config.providers :
      LET a == OnDisk.config.providers[q]
      IN a.source = "manual" => a.variable \in DOMAIN vault.keys

\* What a setup reported as saved is what the configuration says, unless another setup had
\* loaded the configuration in the meantime.
SavedSetupStays ==
  ~raced => \A q \in DOMAIN saved : /\ q \in DOMAIN OnDisk.config.providers
                                    /\ OnDisk.config.providers[q] = saved[q]
=============================================================================
