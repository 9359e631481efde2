------------------------------- MODULE Config -------------------------------
(***************************************************************************)
(* Reading the configuration: components/config_parser.cpp follows the     *)
(* includes of the main file line by line, makes sections of the lines and *)
(* components/config.cpp copies inherited keys; config.hpp looks values up *)
(* and follows the references in them.                                     *)
(*                                                                         *)
(* A line is a record of what its text says: [type, name, value], where a  *)
(* name may be invalid.  A value is plain, [is |-> "plain", v]; or a       *)
(* reference to a key of a section, or to something outside (environment,  *)
(* X resources, file), each with a fallback or None; or it is malformed.   *)
(* Operators whose name has a suffix are bugs that the code could have.    *)
(***************************************************************************)
EXTENDS Naturals, Sequences, SequencesExt, TLC

CONSTANTS
  Disks,      \* [files: file -> lines, dirs: directory -> sorted files]
  Main, Bar,  \* the file to read, the section of the bar
  Sections,   \* the names of sections, in the order of std::map
  Outside,    \* values of the environment: name -> value
  Stack       \* the calls that the thread's stack has room for

VARIABLES
  disk,
  pc,         \* "parse", "sections", "inherit", "ready", "failed"
  error,      \* what was thrown
  frames,     \* calls of parse_file(): [file, line, queue], the last is on
              \* top; queue: what its include line still has to read
  m_files, m_lines,
  m_sections, \* section -> key -> value
  todo        \* sections that copy_inherited() has yet to visit

vars == <<disk, pc, error, frames, m_files, m_lines, m_sections, todo>>

Plain(v) == [is |-> "plain", v |-> v]
Thrown(e) == [is |-> e]
None == [is |-> "none"]
Errors == {"key_error", "value_error", "overflow"}

Reserved == {"self", "BAR", "root"}
Invalid == "not a name"

TypeOK ==
  /\ disk \in Disks /\ pc \in {"parse", "sections", "inherit", "ready", "failed"}
  /\ error \in Errors \cup {"none", "cycle", "missing", "syntax", "undefined bar"}
  /\ \A i \in DOMAIN frames : frames[i].queue \in Seq(STRING)
  /\ m_files \in Seq(DOMAIN disk.files)
  /\ DOMAIN m_sections \subseteq Range(Sections) /\ todo \in Seq(Range(Sections))

Init ==
  /\ disk \in Disks /\ pc = "parse" /\ error = "none"
  /\ frames = <<[file |-> "", line |-> 0, queue |-> <<Main>>]>>
  /\ m_files = <<>> /\ m_lines = <<>> /\ m_sections = << >> /\ todo = <<>>

Fail(e) == pc' = "failed" /\ error' = e

-----------------------------------------------------------------------------
(* parse_file().                                                           *)
Top == Last(frames)
Path == {frames[i].file : i \in DOMAIN frames}

(* A file that is being read already is a cycle; one that was read before  *)
(* is read again.                                                          *)
Include ==
  /\ pc = "parse" /\ Top.queue # <<>>
  /\ LET file == Head(Top.queue)
         rest == [frames EXCEPT ![Len(frames)].queue = Tail(@)]
     IN IF file \in Path THEN Fail("cycle") /\ UNCHANGED <<frames, m_files>>
        ELSE IF file \notin DOMAIN disk.files THEN Fail("missing") /\ UNCHANGED <<frames, m_files>>
        ELSE /\ frames' = Append(rest, [file |-> file, line |-> 0, queue |-> <<>>])
             /\ m_files' = IF file \in Range(m_files) THEN m_files ELSE Append(m_files, file)
             /\ UNCHANGED <<pc, error>>
  /\ UNCHANGED <<disk, m_lines, m_sections, todo>>

(* parse_line(): what makes a line bad, and what makes it useless.         *)
Syntax(line) ==
  \/ line.type \in {"unknown", "bom"} \/ (line.type \in {"header", "key"} /\ line.name = Invalid)
  \/ line.type = "header" /\ line.name \in Reserved
Useful(line) == line.type \in {"header", "key"}

Listed(dir) == IF dir \in DOMAIN disk.dirs THEN disk.dirs[dir] ELSE <<>>

ReadLine ==
  /\ pc = "parse" /\ Top.file # "" /\ Top.queue = <<>> /\ Top.line < Len(disk.files[Top.file])
  /\ LET line == disk.files[Top.file][Top.line + 1]
         Next(queue) == [frames EXCEPT ![Len(frames)] = [@ EXCEPT !.line = @ + 1, !.queue = queue]]
     IN IF Syntax(line) THEN Fail("syntax") /\ UNCHANGED <<frames, m_lines>>
        ELSE /\ UNCHANGED <<pc, error>>
             /\ m_lines' = IF Useful(line) THEN Append(m_lines, line) ELSE m_lines
             /\ frames' = Next(CASE line.type = "include" -> <<line.name>>
                                 [] line.type = "directory" -> Listed(line.name)
                                 [] OTHER -> <<>>)
  /\ UNCHANGED <<disk, m_files, m_sections, todo>>

Return ==
  /\ pc = "parse" /\ Top.queue = <<>>
  /\ IF Top.file = "" THEN pc' = "sections" /\ UNCHANGED frames
     ELSE Top.line = Len(disk.files[Top.file]) /\ frames' = Front(frames) /\ UNCHANGED pc
  /\ UNCHANGED <<disk, error, m_files, m_lines, m_sections, todo>>

-----------------------------------------------------------------------------
(* create_sectionmap(): a section appears with its first key, and may go   *)
(* on later; a second value for a key is an error.                         *)
AddLine(s, line) ==
  LET old == IF s.current \in DOMAIN s.map THEN s.map[s.current] ELSE << >> IN
    IF s.bad THEN s
    ELSE IF line.type = "header" THEN [s EXCEPT !.current = line.name]
    ELSE IF s.current = "" \/ line.name \in DOMAIN old THEN [s EXCEPT !.bad = TRUE]
    ELSE [s EXCEPT !.map = (s.current :> (old @@ line.name :> line.value)) @@ @]

Sectionmap(lines) == FoldLeft(AddLine, [map |-> << >>, current |-> "", bad |-> FALSE], lines)

CreateSectionmap ==
  /\ pc = "sections"
  /\ LET made == Sectionmap(m_lines) IN
       IF made.bad THEN Fail("syntax") /\ UNCHANGED <<m_sections, todo>>
       ELSE IF Bar \notin DOMAIN made.map THEN Fail("undefined bar") /\ UNCHANGED <<m_sections, todo>>
       ELSE /\ pc' = "inherit" /\ m_sections' = made.map /\ UNCHANGED error
            /\ todo' = SelectSeq(Sections, LAMBDA s : s \in DOMAIN made.map)
  /\ UNCHANGED <<disk, frames, m_files, m_lines>>

-----------------------------------------------------------------------------
(* get() and dereference(), with the calls left on the stack.  A section   *)
(* called self is the one in which the reference stands.                   *)
Target(section, current) ==
  CASE section = "self" -> current
    [] section \in {"root", "BAR"} -> Bar
    [] OTHER -> section

OrFallback(ref) == IF ref.fallback = None THEN Thrown("value_error") ELSE ref.fallback

(* get() of a key with n calls left; deref[n, current, value] is what a    *)
(* value of section current comes to.                                      *)
GetWith(section, key, n, deref) ==
  IF section \in DOMAIN m_sections /\ key \in DOMAIN m_sections[section]
  THEN deref[n, section, m_sections[section][key]]
  ELSE Thrown("key_error")

DereferenceLocal_Outer(current, ref, n, deref) ==
  LET section == Target(ref.section, current) IN
    IF section \in DOMAIN m_sections /\ ref.key \in DOMAIN m_sections[section]
    THEN deref[n, current, m_sections[section][ref.key]]
    ELSE OrFallback(ref)

(* The key that is looked up still has the fallback appended to it: such a *)
(* key does not exist.                                                     *)
DereferenceLocal(current, ref, n, deref) ==
  LET section == Target(ref.section, current)
      got == IF ref.fallback # None THEN Thrown("key_error") ELSE GetWith(section, ref.key, n, deref)
  IN CASE got.is = "key_error" -> OrFallback(ref)
       [] got.is \in Errors \ {"key_error"} -> got
       [] OTHER -> deref[n, section, got]

DereferenceOutside(ref) == IF ref.name \in DOMAIN Outside THEN Outside[ref.name] ELSE OrFallback(ref)

Values ==
  LET plain == [is : {"plain"}, v : Seq(STRING)]
      fallback == plain \cup {None}
  IN plain \cup [is : Errors \cup {"malformed"}]
       \cup [is : {"local"}, section : STRING, key : STRING, fallback : fallback]
       \cup [is : {"outside"}, name : STRING, fallback : fallback]

Dereferenced[n \in 0 .. Stack, current \in STRING, value \in Values] ==
  CASE n = 0 -> Thrown("overflow")
    [] n # 0 /\ value.is = "local" -> DereferenceLocal(current, value, n - 1, Dereferenced)
    [] n # 0 /\ value.is = "outside" -> DereferenceOutside(value)
    [] n # 0 /\ value.is = "malformed" -> Thrown("value_error")
    [] OTHER -> value

Dereference(current, value) == Dereferenced[Stack, current, value]
Get(section, key) == GetWith(section, key, Stack, Dereferenced)

(* With a default, what was found is dereferenced once more.               *)
GetOr(section, key, default) ==
  LET got == Get(section, key)
      again == IF got.is \in Errors THEN got ELSE Dereference(section, got)
  IN IF again.is \in {"key_error", "value_error"} THEN default ELSE again

-----------------------------------------------------------------------------
(* copy_inherited(), one section after the other: a base counts with what  *)
(* it has inherited by then.                                               *)
InheritKeys == {"inherit", "inherit-2"}

Bases(section, keys) ==
  FlattenSeq([i \in DOMAIN keys |->
    LET got == Dereference(section, m_sections[section][keys[i]])
    IN IF got.is = "plain" THEN got.v ELSE <<"">>])

Emplace(values, base) == values @@ m_sections[base]

CopyInherited ==
  /\ pc = "inherit" /\ todo # <<>>
  /\ LET section == Head(todo) IN
       \E keys \in SetToSeqs(InheritKeys \cap DOMAIN m_sections[section]) :
         LET bases == Bases(section, keys) IN
           IF Range(bases) \subseteq DOMAIN m_sections
           THEN /\ m_sections' = [m_sections EXCEPT ![section] = FoldLeft(Emplace, @, bases)]
                /\ todo' = Tail(todo) /\ UNCHANGED <<pc, error>>
           ELSE Fail("value_error") /\ UNCHANGED <<m_sections, todo>>
  /\ UNCHANGED <<disk, frames, m_files, m_lines>>

Ready ==
  /\ pc = "inherit" /\ todo = <<>> /\ pc' = "ready"
  /\ UNCHANGED <<disk, error, frames, m_files, m_lines, m_sections, todo>>

ParseStep == Include \/ ReadLine \/ Return

Next == ParseStep \/ CreateSectionmap \/ CopyInherited \/ Ready

Spec == Init /\ [][Next]_vars

(* A call of parse_file() goes on until it is done.                        *)
FairSpec == Spec /\ WF_vars(ParseStep)

-----------------------------------------------------------------------------
(* The files that a file includes, and those it leads to.                  *)
Includes(file) ==
  LET lines == Range(disk.files[file]) IN
    {l.name : l \in {l \in lines : l.type = "include"}} \cup
    UNION {Range(Listed(l.name)) : l \in {l \in lines : l.type = "directory"}}

(* There are no more steps to a file than there are files.                 *)
Leads(files) ==
  LET after[n \in 0 .. Cardinality(DOMAIN disk.files)] ==
        IF n = 0 THEN files
        ELSE after[n - 1] \cup UNION {Includes(f) : f \in after[n - 1] \cap DOMAIN disk.files}
  IN after[Cardinality(DOMAIN disk.files)]

(* Only files that lead back to themselves are refused as a cycle: one     *)
(* that is included twice is not.  m_files, which the bar watches, holds   *)
(* every file that was read.                                               *)
IncludesFollowed ==
  LET cyclic == \E f \in Leads({Main}) \cap DOMAIN disk.files : f \in Leads(Includes(f)) IN
    /\ error = "cycle" => cyclic
    /\ pc \in {"sections", "inherit", "ready"} =>
         ~cyclic /\ Range(m_files) = Leads({Main})

(* Following includes ends.                                                *)
Reading == pc = "parse"
ReadingEnds == Reading ~> ~Reading

(* A section keeps its own values, has a value for every key of its bases, *)
(* and nothing that no section gives to that key.                          *)
Inherited ==
  pc = "ready" =>
    LET own == Sectionmap(m_lines).map IN
      \A s \in DOMAIN own :
        /\ \A k \in DOMAIN own[s] : m_sections[s][k] = own[s][k]
        /\ \A keys \in SetToSeqs(InheritKeys \cap DOMAIN own[s]) :
             \A b \in Range(Bases(s, keys)) : DOMAIN own[b] \subseteq DOMAIN m_sections[s]
        /\ \A k \in DOMAIN m_sections[s] :
             \E t \in DOMAIN own : k \in DOMAIN own[t] /\ m_sections[s][k] = own[t][k]

(* The chain of references that starts at a key, one link at a time.       *)
Link(at) ==
  CASE at.value.is = "local" /\ at.value.fallback # None -> [at EXCEPT !.value = @.fallback]
    [] at.value.is = "local" /\ at.value.fallback = None ->
         LET s == Target(at.value.section, at.section) IN
           [section |-> s,
            value |-> IF s \in DOMAIN m_sections /\ at.value.key \in DOMAIN m_sections[s]
                      THEN m_sections[s][at.value.key] ELSE Thrown("value_error")]
    [] at.value.is = "outside" -> [at EXCEPT !.value = DereferenceOutside(@)]
    [] at.value.is = "malformed" -> [at EXCEPT !.value = Thrown("value_error")]
    [] OTHER -> at

Chain(section, key) ==
  LET link[i \in 0 .. Stack] ==
        IF i = 0 THEN [section |-> section, value |-> m_sections[section][key]] ELSE Link(link[i - 1])
  IN link[Stack].value

(* A look-up gives what the chain of references ends in, and an error when *)
(* it ends in nothing; only a chain that never ends exhausts the stack.    *)
ReferencesResolve ==
  pc = "ready" =>
    \A s \in DOMAIN m_sections : \A k \in DOMAIN m_sections[s] :
      LET end == Chain(s, k)
          got == GetOr(s, k, None)
      IN CASE end.is = "value_error" -> got = None
           [] end.is \in {"local"} -> got = Thrown("overflow")
           [] OTHER -> got = end
=============================================================================
