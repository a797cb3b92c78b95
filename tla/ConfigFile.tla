----------------------------- MODULE ConfigFile -----------------------------
(***************************************************************************)
(* ~/.pc/config.json (src/src/config.rs) and those that read and write it: *)
(* every command reads it and creates it when it is missing, `pc config    *)
(* set-key` and the menus of `pc configure` (configure.rs) read it, change *)
(* a field and write it all back, `pc doctor` (health.rs) judges it.  A    *)
(* file is replaced by a rename, but nothing is locked in between.         *)
(***************************************************************************)
EXTENDS Integers, FiniteSets, FiniteSetsExt

CONSTANTS
  Reader,       \* the processes that only read
  Spec,         \* model specs that name a provider
  ProviderOf,   \* of a spec: "openrouter", "ollama" or "claude-cli"
  DefaultSpec,  \* the spec every role has by default
  Aliases,      \* the specs of claude-cli that the menus offer
  HandWritten,  \* files the user may write
  Offering,     \* what the providers may offer
  Word, Day,    \* the largest u64, and the longest delay
  Lo, Hi,       \* the range of the other numbers
  Shifts,       \* the largest shift of a delay
  MaxSaves      \* bound: files written

VARIABLES
  file,     \* the configuration file
  proc,     \* of each process: where it is, what it loaded, the fetched specs
  intended, \* ghost: the file, had every change been made to the newest one
  raced,    \* ghost: a process has written what it did not read last
  saved,    \* ghost: the last file of the menus, and what was served to them
  saves

configVars == <<file, proc, intended, raced, saved, saves>>

NoKey == "no key"
Keys == {NoKey, "key"}
Unset == "empty"                \* a spec of no characters
Bogus == "bogus"                \* a spec with an unsupported provider prefix
Role == {"compile", "triage"}   \* the second may be left empty
Url == {"local", "remote", "bad"}

Config == [key : Keys, role : [Role -> Spec \cup {Unset, Bogus}], url : Url,
           initial : 0..Word, max : 0..Word, knob : 0..Word]
NoConfig == [key |-> "missing"]
Malformed == [key |-> "malformed"]
Files == Config \cup {NoConfig, Malformed}

Default == [key |-> NoKey, role |-> [r \in Role |-> DefaultSpec], url |-> "local",
            initial |-> 1, max |-> Day, knob |-> Lo]

\* What load_config makes of the numbers: knob stands for each of those with a
\* range of its own, initial and max are those of the retries.
Sanitized(c) ==
  LET initial == Max({c.initial, 1})
  IN [c EXCEPT !.knob = Min({Max({@, Lo}), Hi}),
               !.initial = initial, !.max = Min({Max({c.max, initial}), Day})]

Process == Reader \cup {"setkey", "menus"}
\* seen is what the endpoints served when the models were fetched.
Nowhere == [openrouter |-> {}, local |-> {}, remote |-> {}, claude |-> FALSE]
Idle == [at |-> "idle", config |-> NoConfig, seen |-> Nowhere]
Done == [Idle EXCEPT !.at = "done"]

ConfigTypeOK ==
  /\ file \in Files /\ intended \in Files /\ raced \in BOOLEAN
  /\ proc \in [Process -> [at : {"idle", "missing", "loaded", "menu", "done"},
                           config : Files, seen : Offering \cup {Nowhere}]]
  /\ saved \in [config : Files, seen : Offering \cup {Nowhere}]
  /\ saves \in 0..MaxSaves

-----------------------------------------------------------------------------
(* Which configurations are accepted.                                      *)

\* validate_config with the scope All.
Wanted(c) == {c.role[r] : r \in Role} \ {Unset}
Uses(c, provider) == \E s \in Wanted(c) \ {Bogus} : ProviderOf[s] = provider
Sound(c) ==
  /\ c.role["compile"] # Unset
  /\ Bogus \notin Wanted(c)
  /\ Uses(c, "openrouter") => c.key # NoKey
  /\ Uses(c, "ollama") => c.url # "bad"

\* What an endpoint answers at a URL: nothing at one that is no URL.
Served(o, url) == IF url = "bad" THEN {} ELSE o[url]

\* fetch_models_async: Ollama falls back to the local daemon.
FallsBack(c, o) == Served(o, c.url) = {} /\ c.url # "local"
Inventory(c, o) ==
  (IF o.claude THEN Aliases ELSE {})
    \cup (IF c.key # NoKey THEN o.openrouter ELSE {})
    \cup (IF FallsBack(c, o) THEN o.local ELSE Served(o, c.url))

\* validate_config and validate_model_inventory find nothing.
Accepted(c, fetched) == Sound(c) /\ Wanted(c) \subseteq fetched

\* inspect_config with live probes: an endpoint that serves nothing is down.
Healthy(c, o) ==
  /\ Sound(c)
  /\ \A s \in Wanted(c) :
       CASE ProviderOf[s] = "openrouter" -> s \in o.openrouter
         [] ProviderOf[s] = "ollama" -> s \in Served(o, c.url)
         [] ProviderOf[s] = "claude-cli" -> o.claude

-----------------------------------------------------------------------------
(* The delay before a synchronization is tried again (store_sync.rs).      *)

\* Mutant of Saturated: arithmetic that wraps.
Wrapped(n) == n % (Word + 1)

Saturated(n) == Min({n, Word})

\* retry_delay: u64 arithmetic that saturates.
RetryDelay(c, failures) ==
  LET shift == Min({Max({failures - 1, 0}), Shifts})
  IN Min({Saturated(Max({c.initial, 1}) * 2^shift), Max({c.max, 1})})

\* persist_outcome: how far ahead the next attempt is, after a jitter.
RetryIn(c, failures, jitter) ==
  Min({Saturated(RetryDelay(c, failures) + jitter), Max({c.max, 1})})

-----------------------------------------------------------------------------
ConfigInit ==
  /\ file \in {NoConfig} \cup HandWritten
  /\ proc = [p \in Process |-> Idle]
  /\ intended = file /\ raced = FALSE
  /\ saved = [config |-> NoConfig, seen |-> Nowhere]
  /\ saves = 0

At(p, step) == proc[p].at = step

\* load_config.  A file that does not parse ends the process.
Load(p) ==
  /\ At(p, "idle")
  /\ proc' = [proc EXCEPT ![p] =
       CASE file = NoConfig -> [Idle EXCEPT !.at = "missing"]
         [] file = Malformed -> Done
         [] OTHER -> [Idle EXCEPT !.at = "loaded", !.config = Sanitized(file)]]
  /\ UNCHANGED <<file, intended, raced, saved, saves>>

\* The file is replaced by c to change some of its fields, the rest of the
\* intended one is to be kept.
Write(c, fields, newest) ==
  /\ saves < MaxSaves /\ saves' = saves + 1
  /\ file' = c
  /\ intended' = IF intended \notin Config THEN c
                 ELSE [k \in DOMAIN c |-> IF k \in fields THEN c[k] ELSE intended[k]]
  /\ raced' = (raced \/ ~newest)

\* The file has not been written since p read it.
Newest(p) == file \notin {NoConfig, Malformed} /\ proc[p].config = Sanitized(file)

\* load_config, when it found no file: it writes the defaults.
CreateDefaults(p) ==
  /\ At(p, "missing")
  /\ Write(Sanitized(Default), {}, file = NoConfig)
  /\ proc' = [proc EXCEPT ![p].at = "loaded", ![p].config = Sanitized(Default)]
  /\ UNCHANGED saved

\* `pc config set-key`.
SetKey ==
  /\ At("setkey", "loaded")
  /\ \E k \in Keys \ {NoKey} :
       Write([proc["setkey"].config EXCEPT !.key = k], {"key"}, Newest("setkey"))
  /\ proc' = [proc EXCEPT !["setkey"] = Done]
  /\ UNCHANGED saved

\* run_configure fetches the models once, before the first menu.
FetchModels ==
  /\ At("menus", "loaded")
  /\ \E o \in Offering :
       proc' = [proc EXCEPT !["menus"].at = "menu", !["menus"].seen = o]
  /\ UNCHANGED <<file, intended, raced, saved, saves>>

\* run_section and pick_model: one of the fetched specs, or any text when none
\* was fetched; no text changes nothing.
PickModel ==
  /\ At("menus", "menu")
  /\ LET c == proc["menus"].config
         fetched == Inventory(c, proc["menus"].seen)
     IN \E r \in Role : \E s \in IF fetched = {} THEN Spec \cup {Bogus} ELSE fetched :
          /\ s # c.role[r]
          /\ proc' = [proc EXCEPT !["menus"].config.role[r] = s]
  /\ UNCHANGED <<file, intended, raced, saved, saves>>

\* Save & quit.
SaveMenus ==
  /\ At("menus", "menu")
  /\ LET m == proc["menus"]
     IN /\ Accepted(m.config, Inventory(m.config, m.seen))
        /\ Write(m.config, {"role"},
                 file \notin {NoConfig, Malformed}
                   /\ [Sanitized(file) EXCEPT !.role = m.config.role] = m.config)
        /\ saved' = [config |-> m.config, seen |-> m.seen]
  /\ proc' = [proc EXCEPT !["menus"] = Done]

\* Quit, or a process that needed nothing but the values.
Leave(p) ==
  /\ At(p, IF p = "menus" THEN "menu" ELSE "loaded") /\ p # "setkey"
  /\ proc' = [proc EXCEPT ![p] = Done]
  /\ UNCHANGED <<file, intended, raced, saved, saves>>

\* The user edits the file.
EditByHand ==
  /\ \A p \in Process : proc[p].at # "missing"
  /\ saves < MaxSaves /\ saves' = saves + 1
  /\ file' \in HandWritten \ {file} /\ intended' = file'
  /\ UNCHANGED <<proc, raced, saved>>

ConfigNext ==
  \/ \E p \in Process : Load(p) \/ CreateDefaults(p) \/ Leave(p)
  \/ SetKey \/ FetchModels \/ PickModel \/ SaveMenus
  \/ EditByHand

-----------------------------------------------------------------------------
(* Properties.                                                             *)

\* config.rs:840-880: a key or a model that was saved is in the file until it
\* is changed, unless a process wrote a file it had read before it was written.
SettingsKept ==
  ~raced /\ intended \in Config =>
    file \in Config /\ file.key = intended.key /\ file.role = intended.role

\* configure.rs and health.rs judge alike: what the menus saved, `pc doctor`
\* finds healthy while the providers serve what they served, except that it
\* does not know the fallback of Ollama.
SavedIsHealthy ==
  saved.config \in Config /\ ~FallsBack(saved.config, saved.seen) =>
    Healthy(saved.config, saved.seen)

\* store_sync.rs:114-167: whatever numbers the file has, an attempt that failed
\* is tried again within the longest delay and not at once, and never sooner
\* for having failed more often.
RetriesAreSpaced ==
  \A p \in Process : proc[p].config \in Config =>
    LET c == proc[p].config
    IN \A n \in 1..Shifts + 2 :
         /\ \A j \in {0, 1, Word} : RetryIn(c, n, j) \in 1..Day
         /\ RetryDelay(c, n) <= RetryDelay(c, n + 1)

\* config.rs:629-762: no process works with a number out of its range, and what
\* it writes back is what it would make of it again.
NumbersInRange ==
  \A p \in Process : proc[p].config \in Config =>
    proc[p].config.knob \in Lo..Hi /\ Sanitized(proc[p].config) = proc[p].config

ConfigSafe == SettingsKept /\ SavedIsHealthy /\ RetriesAreSpaced /\ NumbersInRange
=============================================================================
