-------------------------- MODULE ManifestCodegen --------------------------
(***************************************************************************)
(* The generator of the manifests.  internal/manifests/Gen.go runs it once *)
(* for each addon (cmd/codegen/Manifest.go), one after the other: ParseFile*)
(* of internal/manifests/ManifestCodegen.go turns the documents of a YAML  *)
(* file into named entries, WriteFiles an entry into a constant and a      *)
(* statement of the constructor.  Go compiles the result.                  *)
(*                                                                         *)
(* A document is known by its place in the file; of its contents there is  *)
(* what the generator and its code branch on.  The name of an entry is its *)
(* number, or HO for a health object.  The main function that WriteFiles   *)
(* can add, of which Gen.go makes no use, is known by its flag; whether it *)
(* could be written is left out.                                           *)
(***************************************************************************)
EXTENDS Integers, Sequences, SequencesExt

CONSTANTS
    Directives,  \* the manifests to generate, in the order of Gen.go
    Sources      \* the files a manifest may be generated from

\* What the generated code makes of a document as a template: it does not
\* parse, it parses but execution fails half-way, or it is executed.
Templates == {"malformed", "fails", "executes"}

\* A document decodes or not; a deployment (of a version the generator looks
\* for) has some containers with a liveness probe.
Docs == {d \in [decodes : BOOLEAN, template : Templates, deployment : BOOLEAN,
                probes : Nat] : ~d.deployment => d.probes = 0}

ASSUME CodegenConstants ==
    /\ Directives \in Seq(ToSet(Directives)) \ {<<>>}
    /\ IsInjective(Directives)
    /\ \A m \in ToSet(Directives) : Sources[m] \subseteq Seq(Docs) \ {<<>>}

Manifest == ToSet(Directives)

\* The name of a health entry, which no number is.
HO == -1

VARIABLES
    source,          \* the documents of the file of each manifest
    directive,       \* the one the generator works on
    phase,           \* what it does with it
    parsed,          \* how many documents have been parsed
    entries,         \* names and documents of the constants
    hasHealthCheck,  \* will the main function check the health?
    generated        \* the code of each manifest: its entries and that flag

generator == <<source, directive, phase, parsed, entries, hasHealthCheck,
               generated>>

Nothing == [entries |-> <<>>, hasHealthCheck |-> FALSE]

\* What Split returns has one part at least.
CodegenInit ==
    /\ source \in [Manifest -> UNION {Sources[m] : m \in Manifest}]
    /\ \A m \in Manifest : source[m] \in Sources[m]
    /\ directive = 1
    /\ phase = "parse"
    /\ parsed = 0
    /\ entries = <<>>
    /\ hasHealthCheck = FALSE
    /\ generated = [m \in Manifest |-> Nothing]

File == source[Directives[directive]]

Entry(name, i) == [name |-> name, doc |-> i]

\* One health entry for each container with a probe.
HealthEntries(i) == [j \in 1..File[i].probes |-> Entry(HO, i)]

-----------------------------------------------------------------------------
\* Mutant: a document with a health entry has no entry of its own.
EntriesOfEither(i) ==
    IF HealthEntries(i) = <<>> THEN <<Entry(Len(entries), i)>>
    ELSE HealthEntries(i)

\* The entries parseDoc appends for document i.
EntriesOf(i) == <<Entry(Len(entries), i)>> \o HealthEntries(i)

\* An error ends the generator, and the build with it.
Fail ==
    /\ phase' = "failed"
    /\ UNCHANGED <<source, directive, parsed, entries, hasHealthCheck,
                   generated>>

\* Mutant: every deployment counts as having a health check.
ParseDocAnyDeployment ==
    /\ phase = "parse" /\ parsed < Len(File)
    /\ LET i == parsed + 1
       IN  \/ ~File[i].decodes /\ Fail
           \/ /\ File[i].decodes
              /\ entries' = entries \o EntriesOf(i)
              /\ hasHealthCheck' = (hasHealthCheck \/ File[i].deployment)
              /\ parsed' = i
              /\ UNCHANGED <<source, directive, phase, generated>>

\* parseDoc, for the next document.
ParseDoc ==
    /\ phase = "parse" /\ parsed < Len(File)
    /\ LET i == parsed + 1
       IN  \/ ~File[i].decodes /\ Fail
           \/ /\ File[i].decodes
              /\ entries' = entries \o EntriesOf(i)
              /\ hasHealthCheck' = (hasHealthCheck \/ File[i].probes > 0)
              /\ parsed' = i
              /\ UNCHANGED <<source, directive, phase, generated>>

\* ParseFile has come to the end of the file.
ParseFile ==
    /\ phase = "parse" /\ parsed = Len(File)
    /\ phase' = "write"
    /\ UNCHANGED <<source, directive, parsed, entries, hasHealthCheck,
                   generated>>

\* The file of the manifest gets its code, then the generator of the next one
\* starts anew.
Writes(code) ==
    /\ phase = "write"
    /\ generated' = [generated EXCEPT ![Directives[directive]] = code]
    /\ IF directive = Len(Directives)
       THEN phase' = "compile" /\ UNCHANGED directive
       ELSE phase' = "parse" /\ directive' = directive + 1
    /\ parsed' = 0 /\ entries' = <<>> /\ hasHealthCheck' = FALSE
    /\ UNCHANGED source

WriteFiles == Writes([entries |-> entries, hasHealthCheck |-> hasHealthCheck])

\* An entry cannot be encoded: writeFile returns no error and leaves the file
\* empty.
EncodeFails == Writes(Nothing)

\* A file cannot be opened.
WriteFilesFails == phase = "write" /\ Fail

\* Go takes no empty file, and wants constants to have names of their own.
Compiles(m) ==
    LET es == generated[m].entries
    IN  es # <<>> /\ IsInjective([i \in DOMAIN es |-> es[i].name])

Compile ==
    /\ phase = "compile"
    /\ phase' = IF \A m \in Manifest : Compiles(m) THEN "built" ELSE "failed"
    /\ UNCHANGED <<source, directive, parsed, entries, hasHealthCheck,
                   generated>>

CodegenNext ==
    \/ ParseDoc \/ ParseFile
    \/ WriteFiles \/ EncodeFails \/ WriteFilesFails
    \/ Compile

-----------------------------------------------------------------------------
(* The generated constructor.  Statement by statement, it registers a      *)
(* health entry with RegisterHO, of which the last counts; of any other it *)
(* parses the template, whose error it returns, and registers what the     *)
(* execution has printed, whose error it does not look at.                 *)
Constructs(m) ==
    \A i \in DOMAIN generated[m].entries :
       LET e == generated[m].entries[i]
       IN  e.name # HO => source[m][e.doc].template # "malformed"

\* The places of the statements that register an object, and of those that
\* register the health object.
Objects(m) ==
    {i \in DOMAIN generated[m].entries : generated[m].entries[i].name # HO}

HealthObjects(m) == DOMAIN generated[m].entries \ Objects(m)

\* The document that the statement at place i registers.
DocAt(m, i) == generated[m].entries[i].doc

Whole(m, i) == source[m][i].template = "executes"

\* The document of the health object it registers (0: none).
HealthObject(m) ==
    IF HealthObjects(m) = {} THEN 0 ELSE DocAt(m, Max(HealthObjects(m)))

-----------------------------------------------------------------------------
(* Properties.                                                             *)

\* The main function of a manifest calls InitHealthCheck just when the manifest
\* has a health object; it would end with an error, or check nothing, if
\* parseDoc and the constructor did not agree.
HealthCheckHasObject ==
    phase = "built" =>
       \A m \in Manifest :
          generated[m].hasHealthCheck <=> HealthObject(m) # 0
=============================================================================
