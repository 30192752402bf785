---------------------------- MODULE DisplayConfig ----------------------------
(***************************************************************************)
(* The configuration file of the prompt's tokens: what is read from it,    *)
(* how it is completed with the defaults and compiled, and the cache that  *)
(* the refreshes of a daemon share (evaluation/infrastructure/             *)
(* toml_loader.rs, domain/display_config.rs, interface/cli/config).        *)
(*                                                                         *)
(* Of the thirteen tokens of a pull request, which are treated alike, one  *)
(* stands for all; `error` has no label.  An `Option` is a set with at     *)
(* most one element.  Hash collisions are left out: a fingerprint is the   *)
(* content itself.                                                         *)
(***************************************************************************)
EXTENDS DisplayFormat

CONSTANTS
  Refresh,       \* refreshes that can load the configuration at a time
  None,          \* no file; nothing cached
  Invalid,       \* a file that is not UTF-8 or not a configuration in TOML
  Initial,       \* what the file can hold at first
  Edited,        \* what an editor can save
  Symbol, Label, DefaultFormat,  \* of the default token
  ErrorSymbol, DefaultErrorFormat

VARIABLES
  file,     \* content of merge-ready.toml
  edit,     \* `merge-ready config edit`: "none", "creating" or "editor"
  cache,    \* CONFIG_CACHE
  load      \* what each refresh has read and made of it

vars == <<file, edit, cache, load>>

\* A file that sets nothing.
Empty == [merge_ready |-> {}, error |-> {}]

------------------------------------------------------------------------------
(* From content to compiled configuration. *)

\* The formats that a configuration sets.
FormatsIn(content) == UNION {section.format : section \in content.merge_ready \cup content.error}

\* The symbols and labels that it sets for pull requests.
TextsIn(content) == UNION {section.symbol \cup section.label : section \in content.merge_ready}

ASSUME FormatAssumption ==
  /\ {Symbol, Label, DefaultFormat, DefaultErrorFormat} \subseteq Seq(Token)
  /\ \A content \in (Initial \cup Edited) \ {None, Invalid} :
       FormatsIn(content) \subseteq Seq(Token) /\ TextsIn(content) \subseteq Seq(Token)

DefaultToken == [symbol |-> Symbol, label |-> Label, format |-> DefaultFormat]

DefaultError == [symbol |-> ErrorSymbol, format |-> DefaultErrorFormat]

\* The file `config edit` creates: the defaults, written out.
Defaults ==
  [merge_ready |-> {[symbol |-> {Symbol}, label |-> {Label}, format |-> {DefaultFormat}]},
   error |-> {[symbol |-> {ErrorSymbol}, format |-> {DefaultErrorFormat}]}]

Or(option, default) == IF option = {} THEN default ELSE CHOOSE x \in option : TRUE

\* Each field that is not set has its default.
merge_token(raw, default) ==
  [field \in DOMAIN default |->
     Or(UNION {section[field] : section \in raw}, default[field])]

\* What cannot be read or understood counts as a file that sets nothing.
parse_display_config(content) ==
  LET raw == IF content \in {None, Invalid} THEN Empty ELSE content
  IN [merge_ready |-> merge_token(raw.merge_ready, DefaultToken),
      error |-> merge_token(raw.error, DefaultError)]

\* compile: each format becomes its segments.
compile(token) ==
  [field \in (DOMAIN token \ {"format"}) \cup {"segments"} |->
     IF field = "segments" THEN compile_segments[token.format] ELSE token[field]]

CompiledDisplayConfig(content) ==
  LET display == parse_display_config(content)
  IN [merge_ready |-> compile(display.merge_ready), error |-> compile(display.error)]

------------------------------------------------------------------------------
(* The cache.  A refresh reads the file before it takes the lock, and      *)
(* compiles after it has released it.                                      *)

Idle == [stage |-> "idle"]

Init ==
  /\ file \in Initial
  /\ edit = "none"
  /\ cache = None
  /\ load = [r \in Refresh |-> Idle]

Goes(r, state) == load' = [load EXCEPT ![r] = state]

Read(r) ==
  /\ load[r].stage = "idle"
  /\ Goes(r, [stage |-> "read", content |-> file])
  /\ UNCHANGED <<file, edit, cache>>

Hit(r) == cache # None /\ cache.fingerprint = load[r].content

Done(r, config) == Goes(r, [stage |-> "loaded", content |-> load[r].content, config |-> config])

\* What was compiled last, if it was compiled of this content; else it is compiled anew.
LookUp(r) ==
  /\ load[r].stage = "read"
  /\ \/ Hit(r) /\ Done(r, cache.config)
     \/ ~Hit(r) /\ Goes(r, [stage |-> "compiled", content |-> load[r].content,
                            config |-> CompiledDisplayConfig(load[r].content)])
  /\ UNCHANGED <<file, edit, cache>>

\* Mutant: the fingerprint is that of the file by now.
Store_rereads(r) ==
  /\ load[r].stage = "compiled"
  /\ cache' = [fingerprint |-> file, config |-> load[r].config]
  /\ Done(r, load[r].config)
  /\ UNCHANGED <<file, edit>>

\* The last to compile is the one that is kept, even of an older content.
Store(r) ==
  /\ load[r].stage = "compiled"
  /\ cache' = [fingerprint |-> load[r].content, config |-> load[r].config]
  /\ Done(r, load[r].config)
  /\ UNCHANGED <<file, edit>>

\* The refresh has rendered with it.
Rendered(r) == load[r].stage = "loaded" /\ Goes(r, Idle) /\ UNCHANGED <<file, edit, cache>>

------------------------------------------------------------------------------
(* `merge-ready config edit`, and any other editor. *)

\* ensure_config_file: fs::write creates the file and then fills it.
EnsureConfigFile ==
  /\ edit = "none"
  /\ \/ file = None /\ file' = Empty /\ edit' = "creating"
     \/ file # None /\ file' = file /\ edit' = "editor"
  /\ UNCHANGED <<cache, load>>

\* The defaults are written.  If that fails, which leaves the file empty here, no editor starts.
WriteDefaults ==
  /\ edit = "creating"
  /\ \/ file' = Defaults /\ edit' = "editor"
     \/ file' = file /\ edit' = "none"
  /\ UNCHANGED <<cache, load>>

\* The editor ends, with or without having saved.
EditorEnds ==
  /\ edit = "editor" /\ edit' = "none"
  /\ file' \in Edited \cup {file}
  /\ UNCHANGED <<cache, load>>

Next ==
  \/ \E r \in Refresh : Read(r) \/ LookUp(r) \/ Store(r) \/ Rendered(r)
  \/ EnsureConfigFile \/ WriteDefaults \/ EditorEnds

Spec == Init /\ [][Next]_vars

------------------------------------------------------------------------------
(***************************************************************************)
(* A refresh renders with the configuration it has read, though refreshes  *)
(* that read before and after an edit store what they compiled in any      *)
(* order: what is cached was compiled of the content it is cached for.     *)
(***************************************************************************)
LoadedIsRead ==
  /\ cache # None => cache.config = CompiledDisplayConfig(cache.fingerprint)
  /\ \A r \in Refresh : load[r].stage = "loaded" =>
       load[r].config = CompiledDisplayConfig(load[r].content)

\* What a refresh has just compiled.
Fresh == {load[r].content : r \in {q \in Refresh : load[q].stage = "compiled"}}

Formats ==
  UNION {LET display == parse_display_config(content)
         IN {display.merge_ready.format, display.error.format} : content \in Fresh}

(***************************************************************************)
(* Parsing loses nothing: the segments, written out again, are the format, *)
(* whatever delimiters stand in it alone, in excess or in odd order.       *)
(***************************************************************************)
ParsedWhole == \A f \in Formats : Written(parse_segments[f]) = f
==============================================================================
