----------------------------- MODULE HookInstall -----------------------------
(***************************************************************************)
(* pc install (src/src/harness/install.rs): how the hooks are put into the *)
(* configuration file of a harness, which belongs to the user, and taken   *)
(* out again.  JSON files are parsed and merged, the YAML file gets a      *)
(* block between two sentinel lines, a plugin is a file of its own.  Files *)
(* are rewritten in place, so a killed process leaves a part of one.       *)
(***************************************************************************)
EXTENDS Integers, Sequences, FiniteSets, SequencesExt

CONSTANTS
  Binary,     \* the paths pc was run from
  Longer,     \* pairs of binaries: the path of the first begins with the second's
  Event,      \* the events of the harness
  Wired,      \* those that get a hook
  MaxOps,     \* bound: installs, removals and edits
  MaxTears    \* bound: writes that are cut off

VARIABLES
  harness,    \* whose file it is
  settings,   \* the JSON file
  legacy,     \* of codex: whether config.toml still has the old block
  text,       \* the lines of the YAML file
  plugin,     \* what the plugin file holds
  last,       \* the last command: what it was, of which binary, whether it worked
  own,        \* hook groups and lines the user has put there
  clashed,    \* a root event of codex was merged into a value that is no array
  ops, tears

installVars == <<harness, settings, legacy, text, plugin, last, own, clashed, ops, tears>>

\* git stands for the post-commit hook that earlier versions installed.
Harness == {"claude", "codex", "opencode", "hermes", "git"}
Mine == "mine"                     \* a command of the user
Command == Binary \cup {Mine}
Group == (SUBSET Command) \ {{}}
Absent == "absent"
Torn == "torn"
Scalar == <<{"scalar"}>>           \* a value that is no array
Nothing == <<{Absent}>>            \* no value
Value == Seq(Group) \cup {Scalar, Nothing}

\* The hooks object, of codex the events beside it at the root, and statusLine.
NoSettings == [hooks |-> [e \in Event |-> Nothing], root |-> [e \in Event |-> Nothing],
               status |-> Absent]
\* A file that does not parse.
NoJson == [NoSettings EXCEPT !.status = Torn]

\* "key" is a line hooks:, "entry" an indented line, "empty" a line hooks: {},
\* "line" any other line of the user, "sh" the first line of a script.
Token == {"open", "key", "entry", "close", "empty", "line", "sh"}

InstallTypeOK ==
  /\ harness \in Harness
  /\ settings \in [hooks : [Event -> Value], root : [Event -> Value],
                  status : Command \cup {Absent, Torn}]
  /\ legacy \in BOOLEAN /\ clashed \in BOOLEAN
  /\ text \in Seq(Token)
  /\ plugin \in Binary \cup {Absent, Torn}
  /\ own \in Nat /\ ops \in 0..MaxOps /\ tears \in 0..MaxTears

-----------------------------------------------------------------------------
(* JSON.                                                                   *)

\* Whether a command line begins with the path of a binary.
Begins(c, b) == c = b \/ <<c, b>> \in Longer

\* group_is_ours
Ours(g, b) == \E c \in g : Begins(c, b)

IsArray(v) == v /= Scalar /\ v /= Nothing

\* merge_hook_event: an array takes the groups of an array, nothing else fits.
Merged(existing, incoming) ==
  IF existing = Nothing THEN incoming
  ELSE IF IsArray(existing) /\ IsArray(incoming) THEN existing \o incoming
  ELSE existing

\* migrate_codex_root_events
Migrated(s) ==
  IF harness /= "codex" THEN s
  ELSE [s EXCEPT !.hooks = [e \in Event |-> IF s.root[e] = Nothing THEN s.hooks[e]
                                            ELSE Merged(s.hooks[e], s.root[e])],
                 !.root = [e \in Event |-> Nothing]]

Clash(s) ==
  harness = "codex" /\ \E e \in Event :
    s.root[e] /= Nothing /\ s.hooks[e] /= Nothing
    /\ ~(IsArray(s.root[e]) /\ IsArray(s.hooks[e]))

Without(groups, b) == SelectSeq(groups, LAMBDA g : ~Ours(g, b))

\* An event's groups when the hook is in: ours are replaced by one.
WiredOnce(v, b) == (IF v = Nothing THEN <<>> ELSE Without(v, b)) \o <<{b}>>

\* install_statusline: the exact command of this binary is replaced, any other kept.
StatusIn(status, b) == IF harness = "claude" /\ status \in {Absent, b} THEN b ELSE status

MergeFails(s) == \E e \in Wired : Migrated(s).hooks[e] = Scalar

JsonMerge(s, b) ==
  [Migrated(s) EXCEPT
     !.hooks = [e \in Event |-> IF e \in Wired THEN WiredOnce(@[e], b) ELSE @[e]],
     !.status = StatusIn(@, b)]

\* json_unmerge: of every event, wired or not; an event left empty goes.
JsonUnmerge(s, b) ==
  [Migrated(s) EXCEPT
     !.hooks = [e \in Event |->
        IF ~IsArray(@[e]) THEN @[e]
        ELSE IF Without(@[e], b) = <<>> THEN Nothing ELSE Without(@[e], b)],
     !.status = IF @ /= Absent /\ Begins(@, b) THEN Absent ELSE @]

-----------------------------------------------------------------------------
(* The YAML file.                                                          *)

Has(lines, t) == \E i \in DOMAIN lines : lines[i] = t
FirstOf(lines, t) == CHOOSE i \in DOMAIN lines :
                       lines[i] = t /\ \A j \in 1..(i - 1) : lines[j] /= t

\* strip_sentinel: from the first opening to the first closing line.
Stripped(lines) ==
  IF Has(lines, "open") /\ Has(lines, "close") /\ FirstOf(lines, "open") < FirstOf(lines, "close")
  THEN SubSeq(lines, 1, FirstOf(lines, "open") - 1)
       \o SubSeq(lines, FirstOf(lines, "close") + 1, Len(lines))
  ELSE lines

\* foreign_hooks_state: the first hooks: of the user has entries.
HooksTaken(lines) ==
  \E i \in DOMAIN lines :
    /\ lines[i] = "key" /\ \A j \in 1..(i - 1) : lines[j] \notin {"key", "empty"}
    /\ i < Len(lines) /\ lines[i + 1] = "entry"

\* remove_empty_hooks_line
NoEmptyHooks(lines) == SelectSeq(lines, LAMBDA t : t \notin {"key", "empty"})

Block == <<"open", "key", "entry", "close">>

YamlInstalled(lines) == NoEmptyHooks(Stripped(lines)) \o Block

-----------------------------------------------------------------------------
(* Actions.                                                                *)

InstallInit ==
  /\ harness \in Harness
  /\ settings \in IF harness \in {"claude", "codex"} THEN
       {[NoSettings EXCEPT !.hooks = h, !.root = r, !.status = st] :
          h \in [Event -> {Nothing, Scalar, <<{Mine}>>}],
          r \in IF harness = "codex" THEN [Event -> {Nothing, Scalar, <<{Mine}>>}]
                ELSE {NoSettings.root},
          st \in IF harness = "claude" THEN {Absent, Mine} ELSE {Absent}}
     ELSE {NoSettings}
  /\ legacy \in IF harness = "codex" THEN BOOLEAN ELSE {FALSE}
  /\ text \in IF harness = "hermes"
              THEN {<<>>, <<"line">>, <<"empty", "line">>, <<"key", "entry">>, <<"key", "line">>}
              ELSE IF harness = "git"
              THEN {<<"sh">> \o before \o <<"open", "entry", "close">> \o after :
                      before \in {<<>>, <<"line">>}, after \in {<<>>, <<"line">>}}
              ELSE {<<>>}
  /\ plugin = Absent
  /\ own = IF harness \in {"hermes", "git"} THEN Len(SelectSeq(text, LAMBDA t : t = "line"))
           ELSE Cardinality({e \in Event : settings.hooks[e] = <<{Mine}>>})
                + Cardinality({e \in Event : settings.root[e] = <<{Mine}>>})
  /\ last = <<>> /\ clashed = FALSE /\ ops = 0 /\ tears = 0

Done(op, b, ok) ==
  /\ ops < MaxOps /\ ops' = ops + 1
  /\ last' = <<op, b, ok>>
  /\ UNCHANGED <<harness, own>>

\* Installs into a JSON file, which it refuses to touch if it does not parse or
\* a wired event holds no array; codex's old TOML block is then removed.
InstallJson(b) ==
  /\ harness \in {"claude", "codex"}
  /\ IF settings = NoJson \/ MergeFails(settings)
     THEN Done("install", b, FALSE) /\ UNCHANGED <<settings, legacy, clashed>>
     ELSE /\ Done("install", b, TRUE)
          /\ settings' = JsonMerge(settings, b)
          /\ clashed' = (clashed \/ Clash(settings))
          /\ legacy' = FALSE
  /\ UNCHANGED <<text, plugin, tears>>

UninstallJson(b) ==
  /\ harness \in {"claude", "codex"}
  /\ Done("uninstall", b, settings /= NoJson)
  /\ settings' = IF settings = NoJson THEN NoJson ELSE JsonUnmerge(settings, b)
  /\ clashed' = (clashed \/ Clash(settings))
  /\ legacy' = FALSE
  /\ UNCHANGED <<text, plugin, tears>>

\* hooks: with entries of the user is left alone; the entries are printed.
InstallYaml(b) ==
  /\ harness = "hermes"
  /\ LET taken == HooksTaken(Stripped(text))
     IN /\ Done("install", b, ~taken)
        /\ text' = IF taken THEN text ELSE YamlInstalled(text)
  /\ UNCHANGED <<settings, legacy, plugin, clashed, tears>>

UninstallYaml(b) ==
  /\ harness = "hermes"
  /\ Done("uninstall", b, TRUE)
  /\ text' = IF Has(text, "open") THEN Stripped(text) ELSE text
  /\ UNCHANGED <<settings, legacy, plugin, clashed, tears>>

\* The retired git hook is only removed, and with it a script left empty.
UninstallGit(b) ==
  /\ harness = "git"
  /\ Done("uninstall", b, TRUE)
  /\ text' = IF ~Has(text, "open") THEN text
             ELSE IF Stripped(text) \in {<<>>, <<"sh">>} THEN <<>>
             ELSE Stripped(text)
  /\ UNCHANGED <<settings, legacy, plugin, clashed, tears>>

DropPlugin(b) ==
  /\ harness = "opencode"
  /\ Done("install", b, TRUE) /\ plugin' = b
  /\ UNCHANGED <<settings, legacy, text, clashed, tears>>

RemovePlugin(b) ==
  /\ harness = "opencode"
  /\ Done("uninstall", b, TRUE) /\ plugin' = Absent
  /\ UNCHANGED <<settings, legacy, text, clashed, tears>>

\* A writing process is killed: the file holds a beginning of the new text.
Tear(b) ==
  /\ tears < MaxTears /\ tears' = tears + 1
  /\ Done("torn", b, FALSE)
  /\ \/ harness \in {"claude", "codex"} /\ settings /= NoJson /\ ~MergeFails(settings)
        /\ settings' = NoJson /\ UNCHANGED <<text, plugin>>
     \/ harness = "hermes" /\ ~HooksTaken(Stripped(text))
        /\ (\E n \in 0..(Len(YamlInstalled(text)) - 1) : text' = SubSeq(YamlInstalled(text), 1, n))
        /\ UNCHANGED <<settings, plugin>>
     \/ harness = "opencode" /\ plugin' = Torn /\ UNCHANGED <<settings, text>>
  /\ UNCHANGED <<legacy, clashed>>

\* The user adds a hook, also beside a command of ours in its group, or a line.
Edit ==
  /\ ops < MaxOps /\ ops' = ops + 1
  /\ \/ /\ settings /= NoJson /\ harness \in {"claude", "codex"}
        /\ \E e \in Event :
             /\ settings.hooks[e] /= Scalar
             /\ settings' = [settings EXCEPT !.hooks[e] =
                               (IF @ = Nothing THEN <<>> ELSE @) \o <<{Mine}>>]
        /\ own' = own + 1 /\ UNCHANGED text
     \/ /\ settings /= NoJson /\ harness \in {"claude", "codex"}
        /\ \E e \in Event : \E i \in DOMAIN settings.hooks[e] :
             /\ IsArray(settings.hooks[e])
             /\ Mine \notin settings.hooks[e][i]
             /\ settings' = [settings EXCEPT !.hooks[e][i] = @ \cup {Mine}]
        /\ UNCHANGED <<own, text>>
     \/ /\ harness \in {"hermes", "git"}
        /\ text' = Append(text, "line") /\ own' = own + 1 /\ UNCHANGED settings
  /\ last' = <<>>
  /\ UNCHANGED <<harness, legacy, plugin, clashed, tears>>

InstallNext ==
  \/ \E b \in Binary :
       \/ InstallJson(b) \/ UninstallJson(b) \/ InstallYaml(b) \/ UninstallYaml(b)
       \/ UninstallGit(b) \/ DropPlugin(b) \/ RemovePlugin(b) \/ Tear(b)
  \/ Edit

-----------------------------------------------------------------------------
(* Properties.                                                             *)

Occurrences(lines, t) == Len(SelectSeq(lines, LAMBDA x : x = t))

\* However often and from whichever binary it is installed before, an event has
\* one hook of the binary that was installed last, the old block of codex is
\* gone, and the YAML file has one hooks: and one block.
InstalledOnce ==
  (last /= <<>> /\ last[1] = "install" /\ last[3]) =>
    CASE harness \in {"claude", "codex"} ->
           /\ \A e \in Wired : Len(SelectSeq(settings.hooks[e], LAMBDA g : Ours(g, last[2]))) = 1
           /\ ~legacy
      [] harness = "hermes" ->
           tears = 0 => Occurrences(text, "open") = 1 /\ Occurrences(text, "key") = 1
      [] harness = "opencode" -> plugin = last[2]

\* After a removal nothing runs that binary any more.
RemovedEntirely ==
  (last /= <<>> /\ last[1] = "uninstall" /\ last[3]) =>
    CASE harness \in {"claude", "codex"} ->
           /\ \A e \in Event : IsArray(settings.hooks[e]) =>
                \A i \in DOMAIN settings.hooks[e] : ~Ours(settings.hooks[e][i], last[2])
           /\ settings.status /= last[2]
      [] harness \in {"hermes", "git"} -> tears = 0 => ~Has(text, "open") /\ ~Has(text, "close")
      [] harness = "opencode" -> plugin = Absent

\* A hook group of the user, and a line of the YAML file, survive every install
\* and removal, unless a write was cut off or, in codex's file, an event at the
\* root met a value that cannot take it.
UsersHooksKept ==
  LET mine(v) == IF IsArray(v) THEN Occurrences(v, {Mine}) ELSE 0
      sum == FoldLeft(LAMBDA n, e : n + mine(settings.hooks[e]) + mine(settings.root[e]),
                      0, SetToSeq(Event))
  IN (tears = 0 /\ ~clashed) =>
       own = IF harness \in {"hermes", "git"} THEN Occurrences(text, "line") ELSE sum
=============================================================================
