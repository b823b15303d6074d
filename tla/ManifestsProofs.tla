-------------------------- MODULE ManifestsProofs ---------------------------
(***************************************************************************)
(* What Manifests guarantees for any addons, generated from any files.     *)
(***************************************************************************)
EXTENDS Manifests, SequenceTheorems, WellFoundedInduction, TLAPS

-----------------------------------------------------------------------------
(* The daemon: startServices and the goroutines it starts.                 *)

\* Where startServices is.
PlaceInv ==
    /\ pos \in 1..Len(Addons) + 1
    /\ step \in {"construct", "apply", "init", "watch", "done"}
    /\ step = "done" => pos = Len(Addons) + 1
    /\ step # "done" => pos # Len(Addons) + 1

\* A goroutine comes with a client, and a client before its goroutine.
ClientInv ==
    /\ watch \in [Addon -> {"none", "sleep", "poll"}]
    /\ \A a \in Addon : watch[a] # "none" => a \in client
    /\ step = "watch" => Addons[pos] \in client
    /\ panicked # "no client"

\* startServices has done with the addons before pos, and with those only.
DoneWith(i) == watch[Addons[i]] = "none" => Addons[i] \in warned
NotBoth(i) == Addons[i] \in warned => watch[Addons[i]] = "none"
Untouched(i) == watch[Addons[i]] = "none" /\ Addons[i] \notin warned

LedgerInv ==
    \A i \in 1..Len(Addons) :
       /\ i < pos => DoneWith(i) /\ NotBoth(i)
       /\ i >= pos => Untouched(i)

DaemonInv == PlaceInv /\ ClientInv /\ LedgerInv

\* The enabled addons are known by their places.
LEMMA AddonsAreDistinct ==
    /\ Len(Addons) \in Nat
    /\ \A i \in 1..Len(Addons) : Addons[i] \in Addon
    /\ \A i, j \in 1..Len(Addons) : Addons[i] = Addons[j] => i = j
    /\ \A a \in Addon : \E i \in 1..Len(Addons) : a = Addons[i]
BY ManifestsConstants DEF ManifestsConstants, IsInjective, Addon, ToSet

\* No addon has been looked at when startServices begins.
LEMMA DaemonInit == Init => DaemonInv
<1> SUFFICES ASSUME Init PROVE DaemonInv
  OBVIOUS
<1>1. Addons = <<>> <=> Len(Addons) = 0
  BY ManifestsConstants DEF ManifestsConstants
<1>2. PlaceInv
  BY <1>1, AddonsAreDistinct DEF Init, PlaceInv
<1>3. ClientInv
  BY DEF Init, ClientInv
<1>4. LedgerInv
  BY AddonsAreDistinct DEF Init, LedgerInv, Untouched
<1>5. QED
  BY <1>2, <1>3, <1>4 DEF DaemonInv

\* startServices goes on with the next addon: the one it leaves is either
\* watched or has been warned about, the others are as they were.
LEMMA DaemonContinues ==
    ASSUME DaemonInv, step \in {"apply", "init", "watch"}, Continue,
           client' = client, panicked' = panicked,
           \/ warned' = warned \cup {Addons[pos]} /\ watch' = watch
           \/ /\ warned' = warned
              /\ step = "watch"
              /\ watch' = [watch EXCEPT ![Addons[pos]] = "sleep"]
    PROVE  DaemonInv'
<1>1. /\ pos \in 1..Len(Addons) /\ pos' = pos + 1
      /\ step' \in {"construct", "done"}
      /\ PlaceInv'
  BY AddonsAreDistinct DEF DaemonInv, PlaceInv, Continue
<1>2. Addons[pos] \in Addon /\ Len(Addons) \in Nat
  BY <1>1, AddonsAreDistinct
<1>3. Untouched(pos) /\ ClientInv
  BY <1>1, <1>2 DEF DaemonInv, LedgerInv
<1>4. ClientInv'
  BY <1>1, <1>2, <1>3 DEF ClientInv
<1>5. ASSUME NEW i \in 1..Len(Addons), i = pos PROVE DoneWith(i)' /\ NotBoth(i)'
  <2>1. watch \in [Addon -> {"none", "sleep", "poll"}] /\ Addons[i] \in Addon
    BY <1>2, <1>3, <1>5 DEF ClientInv
  <2>2. Untouched(i)
    BY <1>3, <1>5 DEF Untouched
  <2>3. QED
    BY <1>5, <2>1, <2>2 DEF Untouched, DoneWith, NotBoth
<1>6. ASSUME NEW i \in 1..Len(Addons), i # pos
      PROVE  /\ watch'[Addons[i]] = watch[Addons[i]]
             /\ Addons[i] \in warned' <=> Addons[i] \in warned
  <2>1. Addons[i] # Addons[pos] /\ Addons[i] \in Addon
    BY <1>1, <1>6, AddonsAreDistinct
  <2>2. watch \in [Addon -> {"none", "sleep", "poll"}]
    BY <1>3 DEF ClientInv
  <2>3. QED
    BY <2>1, <2>2
<1>7. ASSUME NEW i \in 1..Len(Addons)
      PROVE  /\ i < pos' => DoneWith(i)' /\ NotBoth(i)'
             /\ i >= pos' => Untouched(i)'
  <2>1. CASE i = pos
    BY <1>1, <1>5, <2>1
  <2>2. CASE i < pos
    <3>1. DoneWith(i) /\ NotBoth(i)
      BY <2>2 DEF DaemonInv, LedgerInv
    <3>2. DoneWith(i)' /\ NotBoth(i)'
      BY <1>1, <1>6, <2>2, <3>1 DEF DoneWith, NotBoth
    <3>3. QED
      BY <1>1, <2>2, <3>2
  <2>3. CASE i > pos
    <3>1. Untouched(i)
      BY <1>1, <2>3 DEF DaemonInv, LedgerInv
    <3>2. Untouched(i)'
      BY <1>1, <1>6, <2>3, <3>1 DEF Untouched
    <3>3. QED
      BY <1>1, <2>3, <3>2
  <2>4. QED
    BY <1>1, <2>1, <2>2, <2>3
<1>8. QED
  BY <1>1, <1>4, <1>7 DEF DaemonInv, LedgerInv

\* A step that leaves the place of startServices and its ledger alone.
LEMMA DaemonStays ==
    ASSUME DaemonInv, UNCHANGED <<pos, warned, watch>>,
           step' # "done" <=> step # "done",
           step' \in {"construct", "apply", "init", "watch", "done"},
           client \subseteq client',
           step' = "watch" => Addons[pos] \in client',
           panicked' # "no client"
    PROVE  DaemonInv'
<1>1. PlaceInv'
  BY DEF DaemonInv, PlaceInv
<1>2. ClientInv'
  BY DEF DaemonInv, ClientInv
<1>3. LedgerInv'
  BY Zenon DEF DaemonInv, LedgerInv, DoneWith, NotBoth, Untouched
<1>4. QED
  BY <1>1, <1>2, <1>3 DEF DaemonInv

\* A goroutine that is awake falls asleep, or the other way round.
LEMMA DaemonTurns ==
    ASSUME DaemonInv, NEW a \in Addon, NEW w \in {"sleep", "poll"},
           watch[a] # "none", watch' = [watch EXCEPT ![a] = w],
           UNCHANGED <<pos, step, panicked, warned, client>>
    PROVE  DaemonInv'
<1>1. PlaceInv'
  BY DEF DaemonInv, PlaceInv
<1>2. ClientInv'
  BY DEF DaemonInv, ClientInv
<1>3. ASSUME NEW b \in Addon PROVE watch'[b] = "none" <=> watch[b] = "none"
  BY DEF DaemonInv, ClientInv
<1>4. ASSUME NEW i \in 1..Len(Addons)
      PROVE  /\ i < pos' => DoneWith(i)' /\ NotBoth(i)'
             /\ i >= pos' => Untouched(i)'
  <2>1. watch'[Addons[i]] = "none" <=> watch[Addons[i]] = "none"
    BY <1>3, AddonsAreDistinct
  <2>2. /\ i < pos => DoneWith(i) /\ NotBoth(i)
        /\ i >= pos => Untouched(i)
    BY DEF DaemonInv, LedgerInv
  <2>3. QED
    BY <2>1, <2>2 DEF DoneWith, NotBoth, Untouched
<1>5. QED
  BY <1>1, <1>2, <1>4 DEF DaemonInv, LedgerInv

\* Every step keeps the invariant.
LEMMA DaemonStep == DaemonInv /\ [Next]_vars => DaemonInv'
<1> SUFFICES ASSUME DaemonInv, [Next]_vars PROVE DaemonInv'
  OBVIOUS
<1>a. /\ step \in {"construct", "apply", "init", "watch", "done"}
      /\ panicked # "no client"
      /\ step = "watch" => Addons[pos] \in client
  BY DEF DaemonInv, PlaceInv, ClientInv
<1>1. CASE UNCHANGED daemon
  BY <1>1, <1>a, DaemonStays DEF daemon
<1>2. CASE Construct
  BY <1>2, <1>a, DaemonStays DEF Construct, At, Panic
<1>3. CASE Apply
  <2>1. CASE Panic("write")
    BY <2>1, <1>a, DaemonStays DEF Panic
  <2>2. CASE Warn
    BY <1>3, <2>2, DaemonContinues DEF Apply, At, Warn
  <2>3. CASE step' = "init" /\ UNCHANGED <<pos, panicked, warned, client, watch>>
    BY <1>3, <2>3, <1>a, DaemonStays DEF Apply, At
  <2>4. QED
    BY <1>3, <2>1, <2>2, <2>3 DEF Apply
<1>4. CASE InitHealthCheck
  <2>1. CASE Warn
    BY <1>4, <2>1, DaemonContinues DEF InitHealthCheck, At, Warn
  <2>2. CASE /\ client' = client \cup {Addons[pos]}
             /\ step' = "watch"
             /\ UNCHANGED <<pos, panicked, warned, watch>>
    BY <1>4, <2>2, <1>a, DaemonStays DEF InitHealthCheck, At
  <2>3. QED
    BY <1>4, <2>1, <2>2 DEF InitHealthCheck
<1>5. CASE Watch
  BY <1>5, DaemonContinues DEF Watch, At
<1>6. ASSUME NEW a \in Addon, Wake(a) PROVE DaemonInv'
  BY <1>6, DaemonTurns DEF Wake
<1>7. ASSUME NEW a \in Addon, Poll(a) PROVE DaemonInv'
  <2>1. a \in client
    BY <1>7 DEF DaemonInv, ClientInv, Poll
  <2>2. /\ watch[a] = "poll"
        /\ watch' = [watch EXCEPT ![a] = "sleep"]
        /\ UNCHANGED <<pos, step, panicked, warned, client>>
    BY <1>7, <2>1 DEF Poll, Reported
  <2>3. QED
    BY <2>2, DaemonTurns
<1>8. ASSUME NEW a \in Addon, Status(a) PROVE DaemonInv'
  <2>1. UNCHANGED <<pos, step, panicked, warned, client, watch>>
    BY <1>8, Zenon DEF Status
  <2>2. QED
    BY <2>1, <1>a, DaemonStays
<1>9. QED
  BY <1>1, <1>2, <1>3, <1>4, <1>5, <1>6, <1>7, <1>8, Zenon
  DEF Next, DaemonNext, startServices, vars

\* DaemonInv is an invariant.
LEMMA DaemonInvariant == Spec => []DaemonInv
  BY DaemonInit, DaemonStep, PTL DEF Spec

\* Each addon that startServices (Microkubed.go:417-453) has done with is
\* watched or has been warned about, and not both, however many addons there
\* are and whatever fails.
THEOREM NoAddonForgotten == Spec => []NoneForgotten
<1>1. ASSUME DaemonInv PROVE NoneForgotten
  <2> SUFFICES ASSUME NEW i \in 1..Len(Addons), i < pos \/ step = "done"
               PROVE  watch[Addons[i]] = "none" <=> Addons[i] \in warned
    BY DEF NoneForgotten
  <2>1. i < pos
    BY <1>1, AddonsAreDistinct DEF DaemonInv, PlaceInv
  <2>2. DoneWith(i) /\ NotBoth(i)
    BY <1>1, <2>1 DEF DaemonInv, LedgerInv
  <2>3. QED
    BY <2>2 DEF DoneWith, NotBoth
<1>2. QED
  BY <1>1, DaemonInvariant, PTL

-----------------------------------------------------------------------------
(* The generator: the constants of a manifest are made of its documents.   *)

EntriesFrom(file) == Seq([name : Int, doc : 1..Len(file)])

\* The manifests generated so far, and the one that is being generated.
GeneratorInv ==
    /\ source \in [Manifest -> Seq(Docs)]
    /\ directive \in 1..Len(Directives)
    /\ parsed \in Nat
    /\ entries \in EntriesFrom(File)
    /\ generated = [m \in Manifest |-> generated[m]]
    /\ \A m \in Manifest : generated[m].entries \in EntriesFrom(source[m])

\* The manifest that the generator works on is one of the list.
LEMMA DirectivesAreManifests ==
    /\ Len(Directives) \in Nat \ {0}
    /\ \A i \in 1..Len(Directives) : Directives[i] \in Manifest
BY CodegenConstants DEF CodegenConstants, Manifest, ToSet

\* Nothing has been generated at first.
LEMMA GeneratorInit == CodegenInit => GeneratorInv
<1> SUFFICES ASSUME CodegenInit PROVE GeneratorInv
  OBVIOUS
<1>1. \A m \in Manifest : source[m] \in Seq(Docs)
  BY CodegenConstants DEF CodegenConstants, CodegenInit, Manifest
<1>2. source \in [Manifest -> Seq(Docs)]
  BY <1>1 DEF CodegenInit
<1>3. \A m \in Manifest : generated[m] = Nothing
  BY DEF CodegenInit
<1>4. \A m \in Manifest : generated[m].entries \in EntriesFrom(source[m])
  <2>1. \A m \in Manifest : generated[m].entries = <<>>
    BY <1>3 DEF Nothing
  <2>2. \A file : <<>> \in EntriesFrom(file)
    BY DEF EntriesFrom
  <2>3. QED
    BY <2>1, <2>2
<1>5. generated = [m \in Manifest |-> generated[m]]
  BY DEF CodegenInit
<1>6. QED
  BY <1>2, <1>4, <1>5, DirectivesAreManifests DEF CodegenInit, GeneratorInv, EntriesFrom

\* A sequence of as many equal elements as a number says.
LEMMA Repeated ==
    ASSUME NEW S, NEW e \in S, NEW n \in Nat
    PROVE  [j \in 1..n |-> e] \in Seq(S)
OBVIOUS

\* An entry names a document of the file.
LEMMA EntryNamesDocument ==
    ASSUME NEW file, NEW es \in EntriesFrom(file), NEW i \in DOMAIN es
    PROVE  es[i].doc \in 1..Len(file)
<1> DEFINE Entries == [name : Int, doc : 1..Len(file)]
<1>1. es \in Seq(Entries)
  BY DEF EntriesFrom
<1>2. es[i] \in Entries
  <2> HIDE DEF Entries
  <2>1. QED
    BY <1>1
<1>3. QED
  BY <1>2

\* The entries of a document are made of it.
LEMMA EntriesOfDocument ==
    ASSUME GeneratorInv, NEW i \in 1..Len(File)
    PROVE  entries \o EntriesOf(i) \in EntriesFrom(File)
<1> DEFINE Entries == [name : Int, doc : 1..Len(File)]
<1>1. File \in Seq(Docs) /\ File[i] \in Docs
  BY DirectivesAreManifests DEF GeneratorInv, File
<1>2. File[i].probes \in Nat
  BY <1>1 DEF Docs
<1>3. Entry(HO, i) \in Entries
  BY DEF Entry, HO
<1>4. HealthEntries(i) \in Seq(Entries)
  <2> HIDE DEF Entries
  <2>1. QED
    BY <1>2, <1>3, Repeated DEF HealthEntries
<1>5. entries \in Seq(Entries)
  BY DEF GeneratorInv, EntriesFrom
<1>6. <<Entry(Len(entries), i)>> \in Seq(Entries)
  BY <1>5 DEF Entry
<1>7. QED
  BY <1>4, <1>5, <1>6 DEF EntriesOf, EntriesFrom

\* Every step of the generator keeps the invariant.
LEMMA GeneratorStep == GeneratorInv /\ CodegenNext => GeneratorInv'
<1> SUFFICES ASSUME GeneratorInv, CodegenNext PROVE GeneratorInv'
  OBVIOUS
<1>1. ASSUME UNCHANGED <<source, directive, entries, hasHealthCheck, generated>>,
             parsed' = parsed
      PROVE  GeneratorInv'
  BY <1>1 DEF GeneratorInv, File
<1>2. CASE ParseDoc
  <2>1. CASE Fail
    BY <1>1, <2>1 DEF Fail
  <2>2. CASE ~Fail
    <3> DEFINE i == parsed + 1
    <3>1. i \in 1..Len(File)
      BY <1>2, DirectivesAreManifests DEF ParseDoc, GeneratorInv, File
    <3>2. /\ entries' = entries \o EntriesOf(i)
          /\ parsed' = i
          /\ UNCHANGED <<source, directive, generated>>
      BY <1>2, <2>2 DEF ParseDoc
    <3>3. entries' \in EntriesFrom(File)
      BY <3>1, <3>2, EntriesOfDocument
    <3>4. File' = File
      BY <3>2 DEF File
    <3>5. QED
      BY <3>2, <3>3, <3>4 DEF GeneratorInv
  <2>3. QED
    BY <2>1, <2>2
<1>3. ASSUME NEW code, Writes(code), code.entries \in {entries, <<>>}
      PROVE  GeneratorInv'
  <2> DEFINE m == Directives[directive]
  <2>1. m \in Manifest
    BY DirectivesAreManifests DEF GeneratorInv
  <2>2. generated' = [generated EXCEPT ![m] = code]
    BY <1>3 DEF Writes
  <2>3. code.entries \in EntriesFrom(source[m])
    <3>1. entries \in EntriesFrom(source[m])
      BY DEF GeneratorInv, File
    <3>2. <<>> \in EntriesFrom(source[m])
      BY DEF EntriesFrom
    <3>3. QED
      BY <1>3, <3>1, <3>2
  <2>4. source' = source /\ entries' = <<>> /\ parsed' = 0 /\ hasHealthCheck' = FALSE
    BY <1>3 DEF Writes
  <2>5. directive' \in 1..Len(Directives)
    BY <1>3, DirectivesAreManifests DEF Writes, GeneratorInv
  <2>6. generated' = [d \in Manifest |-> generated'[d]]
    BY <2>2 DEF GeneratorInv
  <2>7. \A d \in Manifest : generated'[d].entries \in EntriesFrom(source[d])
    BY <2>1, <2>2, <2>3 DEF GeneratorInv
  <2>8. QED
    <3>1. entries' \in EntriesFrom(File')
      BY <2>4 DEF EntriesFrom
    <3>2. QED
      BY <2>4, <2>5, <2>6, <2>7, <3>1 DEF GeneratorInv
<1>4. CASE ParseFile \/ WriteFilesFails \/ Compile
  BY <1>1, <1>4 DEF ParseFile, WriteFilesFails, Fail, Compile
<1>5. CASE WriteFiles \/ EncodeFails
  BY <1>3, <1>5 DEF WriteFiles, EncodeFails, Nothing
<1>6. QED
  BY <1>2, <1>4, <1>5 DEF CodegenNext

\* The documents that the constructor of the panicking daemon has met.
BlameInv ==
    panicked = "nil manifest" =>
        /\ phase = "built"
        /\ step = "construct"
        /\ pos \in 1..Len(Addons)
        /\ ~Constructs(Addons[pos])

\* There are three places where the daemon may panic over an addon.
PanicInv == panicked \in Panics \cup {"no"}

\* The daemon that panics over a write is still at the addon it writes.
WriteInv == panicked = "write" => step = "apply"

\* Until it is done, startServices has an addon to work on.
LEMMA BusyWithAddon == PlaceInv /\ step # "done" => pos \in 1..Len(Addons)
  BY AddonsAreDistinct DEF PlaceInv

\* The daemon leaves the generator as it is, and the other way round.
LEMMA BlameStep ==
    DaemonInv /\ BlameInv /\ [Next]_vars => BlameInv'
<1> SUFFICES ASSUME DaemonInv, BlameInv, [Next]_vars, panicked' = "nil manifest"
             PROVE  /\ phase' = "built" /\ step' = "construct"
                    /\ pos' \in 1..Len(Addons)
                    /\ ~Constructs(Addons[pos])'
  BY DEF BlameInv
<1>1. CASE panicked = "nil manifest"
  <2>1. ~CodegenNext
    BY <1>1 DEF BlameInv, CodegenNext, ParseDoc, ParseFile, WriteFiles, EncodeFails,
                Writes, WriteFilesFails, Compile
  <2>2. ~DaemonNext
    BY <1>1 DEF DaemonNext, startServices, Construct, Apply, InitHealthCheck, Watch,
                Wake, Poll, Status, At, Runs
  <2>3. UNCHANGED vars
    BY <2>1, <2>2 DEF Next
  <2>4. QED
    BY <1>1, <2>3 DEF BlameInv, vars, daemon, generator, Constructs
<1>2. CASE panicked # "nil manifest"
  <2>1. DaemonNext /\ UNCHANGED generator
    BY <1>2 DEF Next, vars, daemon
  <2>2. /\ ~Constructs(Addons[pos]) /\ At("construct")
        /\ pos' = pos /\ step' = step
    BY <1>2, <2>1 DEF DaemonNext, startServices, Construct, Apply, InitHealthCheck,
                      Watch, Wake, Poll, Status, Warn, Panic, Reported
  <2>3. pos \in 1..Len(Addons)
    BY <2>2, BusyWithAddon DEF At, DaemonInv
  <2>4. QED
    BY <2>1, <2>2, <2>3 DEF At, Runs, generator, Constructs
<1>3. QED
  BY <1>1, <1>2

\* A step panics in one of those places.
LEMMA PanicStep == PanicInv /\ [Next]_vars => PanicInv'
BY DEF PanicInv, Panics, Next, DaemonNext, startServices, Construct, Apply,
       InitHealthCheck, Watch, Wake, Poll, Status, Warn, Panic, Reported, vars, daemon

\* No step of a daemon that has panicked follows.
LEMMA WriteStep == WriteInv /\ [Next]_vars => WriteInv'
<1> SUFFICES ASSUME WriteInv, [Next]_vars, panicked' = "write" PROVE step' = "apply"
  BY DEF WriteInv
<1>1. CASE UNCHANGED daemon
  BY <1>1 DEF WriteInv, daemon
<1>2. CASE DaemonNext
  <2>1. panicked = "no"
    BY <1>2 DEF DaemonNext, startServices, Construct, Apply, InitHealthCheck, Watch,
                Wake, Poll, Status, At, Runs
  <2>2. Apply /\ Panic("write")
    BY <1>2, <2>1 DEF DaemonNext, startServices, Construct, Apply, InitHealthCheck,
                      Watch, Wake, Poll, Status, Warn, Panic, Reported
  <2>3. QED
    BY <2>2 DEF Apply, At, Panic
<1>3. QED
  BY <1>1, <1>2 DEF Next, vars

\* For any addons and files the daemon panics over an addon only when a document
\* of its file is no template (Microkubed.go:422) or when the write of the
\* temporary file fails (KubeManifestBase.go:114): no goroutine ever runs into
\* IsHealthy without a client (KubeManifestBase.go:143).
THEOREM NoOtherPanic == Spec => []PanicHasCause
<1>1. Init => GeneratorInv /\ BlameInv /\ WriteInv /\ PanicInv
  BY GeneratorInit DEF Init, BlameInv, WriteInv, PanicInv
<1>2. GeneratorInv /\ [Next]_vars => GeneratorInv'
  <2>1. ASSUME GeneratorInv, UNCHANGED generator PROVE GeneratorInv'
    BY <2>1 DEF GeneratorInv, generator, File
  <2>2. QED
    BY <2>1, GeneratorStep DEF Next, vars
<1>3. ASSUME DaemonInv, GeneratorInv, BlameInv, WriteInv, PanicInv PROVE PanicHasCause
  <2>1. ASSUME panicked = "nil manifest"
        PROVE  \E i \in DOMAIN source[Addons[pos]] :
                  source[Addons[pos]][i].template = "malformed"
    <3> DEFINE m == Addons[pos]
    <3>1. ~Constructs(m) /\ m \in Manifest
      <4>1. Addons \in Seq(Manifest)
        BY ManifestsConstants DEF ManifestsConstants
      <4>2. pos \in 1..Len(Addons) /\ ~Constructs(m)
        BY <1>3, <2>1 DEF BlameInv
      <4>3. m \in Manifest
        BY <4>1, <4>2
      <4>4. QED
        BY <4>2, <4>3
    <3>2. PICK i \in DOMAIN generated[m].entries :
             source[m][generated[m].entries[i].doc].template = "malformed"
      BY <3>1 DEF Constructs
    <3>3. generated[m].entries \in EntriesFrom(source[m])
      BY <1>3, <3>1 DEF GeneratorInv
    <3>4. generated[m].entries[i].doc \in 1..Len(source[m])
      BY <3>2, <3>3, EntryNamesDocument
    <3>5. source[m] \in Seq(Docs)
      BY <1>3, <3>1 DEF GeneratorInv
    <3>6. QED
      BY <3>2, <3>4, <3>5
  <2>2. QED
    BY <1>3, <2>1
    DEF PanicHasCause, DaemonInv, ClientInv, PanicInv, Panics, BlameInv, WriteInv
<1>4. QED
  BY <1>1, <1>2, <1>3, DaemonInvariant, BlameStep, WriteStep, PanicStep, PTL DEF Spec

-----------------------------------------------------------------------------
(* The code that the generator makes of a file, document by document.      *)

\* Is this the code of the first k documents of a file?  There is one entry of
\* its own for each of them, in their order, and health entries only if the flag
\* is set.
CodeOf(k, es, flag) ==
    /\ \A d \in 1..k : \E i \in DOMAIN es : es[i].name # HO /\ es[i].doc = d
    /\ \A i \in DOMAIN es : es[i].doc <= k
    /\ \A i, j \in DOMAIN es : es[i].name # HO /\ es[j].name # HO /\ i < j =>
                                  es[i].doc < es[j].doc
    /\ flag <=> \E i \in DOMAIN es : es[i].name = HO

\* The manifest that the generator works on is made of the documents parsed so
\* far, and those before it of all documents of their files, or of none; but Go
\* has refused the latter.
CodeInv ==
    /\ parsed <= Len(File)
    /\ phase = "write" => parsed = Len(File)
    /\ CodeOf(parsed, entries, hasHealthCheck)
    /\ \A n \in 1..Len(Directives) :
          n < directive \/ phase \in {"compile", "built"} =>
             \/ CodeOf(Len(source[Directives[n]]), generated[Directives[n]].entries,
                       generated[Directives[n]].hasHealthCheck)
             \/ generated[Directives[n]] = Nothing
    /\ phase = "built" => \A m \in Manifest : generated[m].entries # <<>>

\* No code is the code of no document.
LEMMA NoCode == CodeOf(0, <<>>, FALSE)
BY DEF CodeOf

\* At the start there is none.
LEMMA CodeInit == CodegenInit => CodeInv
<1> SUFFICES ASSUME CodegenInit PROVE CodeInv
  OBVIOUS
<1>1. GeneratorInv
  BY GeneratorInit
<1>2. File \in Seq(Docs)
  BY <1>1, DirectivesAreManifests DEF GeneratorInv, File
<1>3. parsed = 0 /\ entries = <<>> /\ hasHealthCheck = FALSE /\ directive = 1
      /\ phase = "parse"
  BY DEF CodegenInit
<1>4. parsed <= Len(File)
  BY <1>2, <1>3
<1>5. \A n \in 1..Len(Directives) : ~(n < directive)
  BY <1>3, DirectivesAreManifests
<1>6. CodeOf(parsed, entries, hasHealthCheck)
  BY <1>3, NoCode
<1>7. QED
  BY <1>3, <1>4, <1>5, <1>6 DEF CodeInv

\* The entries of a document come after the others: one of its own, then the
\* health entries.
LEMMA EntriesAppended ==
    ASSUME GeneratorInv, NEW i \in 1..Len(File)
    PROVE  LET es == entries \o EntriesOf(i)
               n == Len(entries)
           IN  /\ n \in Nat /\ DOMAIN entries = 1..n
               /\ File[i].probes \in Nat
               /\ DOMAIN es = 1..n + 1 + File[i].probes
               /\ \A j \in 1..n : es[j] = entries[j]
               /\ es[n + 1] = Entry(n, i)
               /\ \A j \in n+2 .. n + 1 + File[i].probes : es[j] = Entry(HO, i)
<1> DEFINE n == Len(entries)
           p == File[i].probes
           own == <<Entry(n, i)>>
           ho == HealthEntries(i)
           E == [name : Int, doc : 1..Len(File)]
<1>1. File \in Seq(Docs) /\ File[i] \in Docs
  BY DirectivesAreManifests DEF GeneratorInv, File
<1>2. p \in Nat
  BY <1>1 DEF Docs
<1>3. entries \in Seq(E) /\ n \in Nat
  BY DEF GeneratorInv, EntriesFrom
<1>4. Entry(HO, i) \in E /\ Entry(n, i) \in E
  BY <1>3 DEF Entry, HO
<1> HIDE DEF E
<1>5. ho \in Seq(E) /\ Len(ho) = p /\ \A j \in 1..p : ho[j] = Entry(HO, i)
  <2>1. ho = [j \in 1..p |-> Entry(HO, i)]
    BY DEF HealthEntries
  <2> HIDE DEF ho, p
  <2>2. QED
    BY <1>2, <1>4, <2>1, Repeated
<1>6. own \in Seq(E) /\ Len(own) = 1 /\ own[1] = Entry(n, i)
  BY <1>4
<1> HIDE DEF own, ho, p, n
<1>7. /\ own \o ho \in Seq(E) /\ Len(own \o ho) = 1 + p
      /\ (own \o ho)[1] = Entry(n, i)
      /\ \A j \in 2..1 + p : (own \o ho)[j] = Entry(HO, i)
  <2>1. /\ own \o ho \in Seq(E) /\ Len(own \o ho) = Len(own) + Len(ho)
        /\ \A j \in 1..Len(own) + Len(ho) :
              (own \o ho)[j] = IF j <= Len(own) THEN own[j] ELSE ho[j - Len(own)]
    BY <1>5, <1>6, ConcatProperties
  <2>2. Len(own \o ho) = 1 + p /\ (own \o ho)[1] = own[1]
    BY <1>2, <1>5, <1>6, <2>1
  <2>3. \A j \in 2..1 + p : (own \o ho)[j] = ho[j - 1]
    BY <1>2, <1>5, <1>6, <2>1
  <2>4. \A j \in 2..1 + p : j - 1 \in 1..p
    BY <1>2
  <2>5. QED
    BY <1>5, <1>6, <2>1, <2>2, <2>3, <2>4
<1> DEFINE tail == own \o ho
<1> HIDE DEF tail
<1>8. tail \in Seq(E) /\ Len(tail) = 1 + p /\ tail[1] = Entry(n, i)
      /\ \A j \in 2..1 + p : tail[j] = Entry(HO, i)
  BY <1>7 DEF tail
<1>9. n = Len(entries)
  BY DEF n
<1>10. /\ Len(entries \o tail) = n + 1 + p
       /\ entries \o tail \in Seq(E)
       /\ \A j \in 1..n : (entries \o tail)[j] = entries[j]
       /\ (entries \o tail)[n + 1] = Entry(n, i)
       /\ \A j \in n+2 .. n + 1 + p : (entries \o tail)[j] = tail[j - n]
  BY <1>2, <1>3, <1>8, <1>9
<1>11. \A j \in n+2 .. n + 1 + p : (entries \o tail)[j] = Entry(HO, i)
  <2> SUFFICES ASSUME NEW j \in n+2 .. n + 1 + p
               PROVE  (entries \o tail)[j] = Entry(HO, i)
    OBVIOUS
  <2>1. j - n \in 2..1 + p
    BY <1>2, <1>3
  <2>2. QED
    BY <1>8, <1>10, <2>1
<1>12. EntriesOf(i) = tail
  BY DEF EntriesOf, tail, own, ho, n
<1>13. DOMAIN (entries \o tail) = 1..n + 1 + p /\ DOMAIN entries = 1..n
  BY <1>3, <1>9, <1>10
<1>14. QED
  BY <1>2, <1>3, <1>10, <1>11, <1>12, <1>13 DEF n, p

\* With the entries of the next document the code is that of one document more.
LEMMA CodeGrows ==
    ASSUME GeneratorInv, NEW i \in 1..Len(File), i = parsed + 1,
           CodeOf(parsed, entries, hasHealthCheck)
    PROVE  CodeOf(i, entries \o EntriesOf(i), hasHealthCheck \/ File[i].probes > 0)
<1> DEFINE es == entries \o EntriesOf(i)
           n == Len(entries)
           p == File[i].probes
           own(j) == es[j].name # HO
<1>1. /\ n \in Nat /\ p \in Nat /\ parsed \in Nat
      /\ DOMAIN entries = 1..n /\ DOMAIN es = 1..n + 1 + p
      /\ \A j \in 1..n : es[j] = entries[j]
      /\ es[n + 1] = Entry(n, i)
      /\ \A j \in n+2 .. n + 1 + p : es[j] = Entry(HO, i)
  BY EntriesAppended DEF GeneratorInv
<1> HIDE DEF es, n, p
<1>2. es[n + 1].name = n /\ es[n + 1].doc = i
      /\ \A j \in n+2 .. n + 1 + p : es[j].name = HO /\ es[j].doc = i
  <2>1. \A x : Entry(x, i).name = x /\ Entry(x, i).doc = i
    BY DEF Entry
  <2>2. QED
    BY <1>1, <2>1
<1>3. HO = -1 /\ n # HO
  BY <1>1 DEF HO
<1>4. /\ \A d \in 1..parsed : \E j \in 1..n : entries[j].name # HO /\ entries[j].doc = d
      /\ \A j \in 1..n : entries[j].doc <= parsed
      /\ \A j, k \in 1..n : entries[j].name # HO /\ entries[k].name # HO /\ j < k =>
                                entries[j].doc < entries[k].doc
      /\ hasHealthCheck <=> \E j \in 1..n : entries[j].name = HO
  BY <1>1 DEF CodeOf
<1>5. \A j \in 1..n : entries[j].doc \in Nat
  <2>1. \A j \in DOMAIN entries : entries[j].doc \in 1..Len(File)
    BY EntryNamesDocument DEF GeneratorInv
  <2>2. QED
    BY <1>1, <2>1
<1>6. \A j \in DOMAIN es : j \in 1..n \/ j = n + 1 \/ j \in n+2 .. n + 1 + p
  BY <1>1
<1>7. \A d \in 1..i : \E j \in DOMAIN es : own(j) /\ es[j].doc = d
  <2> SUFFICES ASSUME NEW d \in 1..i PROVE \E j \in DOMAIN es : own(j) /\ es[j].doc = d
    OBVIOUS
  <2>1. CASE d = i
    <3>1. n + 1 \in DOMAIN es
      BY <1>1
    <3>2. QED
      BY <1>2, <1>3, <2>1, <3>1
  <2>2. CASE d # i
    <3>1. d \in 1..parsed
      BY <1>1, <2>2
    <3>2. PICK j \in 1..n : entries[j].name # HO /\ entries[j].doc = d
      BY <1>4, <3>1
    <3>3. j \in DOMAIN es /\ es[j] = entries[j]
      BY <1>1
    <3>4. QED
      BY <3>2, <3>3
  <2>3. QED
    BY <2>1, <2>2
<1>8. \A j \in DOMAIN es : es[j].doc <= i
  <2> SUFFICES ASSUME NEW j \in DOMAIN es PROVE es[j].doc <= i
    OBVIOUS
  <2>1. CASE j \in 1..n
    BY <1>1, <1>4, <1>5, <2>1
  <2>2. CASE j \notin 1..n
    BY <1>1, <1>2, <1>6, <2>2
  <2>3. QED
    BY <2>1, <2>2
<1>9. \A j, k \in DOMAIN es : own(j) /\ own(k) /\ j < k => es[j].doc < es[k].doc
  <2> SUFFICES ASSUME NEW j \in DOMAIN es, NEW k \in DOMAIN es, own(j), own(k), j < k
               PROVE  es[j].doc < es[k].doc
    OBVIOUS
  <2>1. j \in 1..n + 1 /\ k \in 1..n + 1
    BY <1>1, <1>2, <1>6
  <2>2. j \in 1..n /\ es[j] = entries[j]
    BY <1>1, <2>1
  <2>3. CASE k = n + 1
    BY <1>1, <1>2, <1>4, <1>5, <2>2, <2>3
  <2>4. CASE k # n + 1
    <3>1. k \in 1..n
      BY <1>1, <2>1, <2>4
    <3>2. es[k] = entries[k]
      BY <1>1, <3>1
    <3>3. QED
      BY <1>4, <2>2, <3>1, <3>2
  <2>5. QED
    BY <2>3, <2>4
<1>10. (hasHealthCheck \/ p > 0) <=> \E j \in DOMAIN es : es[j].name = HO
  <2>1. ASSUME hasHealthCheck PROVE \E j \in DOMAIN es : es[j].name = HO
    <3>1. PICK j \in 1..n : entries[j].name = HO
      BY <1>4, <2>1
    <3>2. j \in DOMAIN es /\ es[j] = entries[j]
      BY <1>1
    <3>3. QED
      BY <3>1, <3>2
  <2>2. ASSUME p > 0 PROVE \E j \in DOMAIN es : es[j].name = HO
    <3>1. n + 2 \in n+2 .. n + 1 + p /\ n + 2 \in DOMAIN es
      BY <1>1, <2>2
    <3>2. QED
      BY <1>2, <3>1
  <2>3. ASSUME NEW j \in DOMAIN es, es[j].name = HO PROVE hasHealthCheck \/ p > 0
    <3>1. CASE j \in 1..n
      BY <1>1, <1>4, <2>3, <3>1
    <3>2. CASE j \notin 1..n
      BY <1>1, <1>2, <1>3, <1>6, <2>3, <3>2
    <3>3. QED
      BY <3>1, <3>2
  <2>4. QED
    BY <2>1, <2>2, <2>3
<1>11. QED
  BY <1>7, <1>8, <1>9, <1>10 DEF CodeOf, es, p

\* Every step of the generator keeps the code in accord with the files.
LEMMA CodeStep ==
    ASSUME GeneratorInv, CodeInv, CodegenNext
    PROVE  CodeInv'
<1> DEFINE Coded(n) ==
               \/ CodeOf(Len(source[Directives[n]]), generated[Directives[n]].entries,
                         generated[Directives[n]].hasHealthCheck)
               \/ generated[Directives[n]] = Nothing
<1>1. ASSUME UNCHANGED <<source, directive, parsed, entries, hasHealthCheck, generated>>,
             phase' = "write" => parsed = Len(File),
             phase' = "built" => \A m \in Manifest : generated[m].entries # <<>>,
             phase' \in {"compile", "built"} => phase \in {"compile", "built"}
      PROVE  CodeInv'
  <2>1. File' = File
    BY <1>1 DEF File
  <2>2. ASSUME NEW n \in 1..Len(Directives),
               n < directive' \/ phase' \in {"compile", "built"}
        PROVE  Coded(n)'
    <3>1. Coded(n)
      BY <1>1, <2>2 DEF CodeInv
    <3>2. QED
      BY <1>1, <3>1
  <2>3. CodeOf(parsed, entries, hasHealthCheck)'
    BY <1>1 DEF CodeInv
  <2>4. parsed' <= Len(File') /\ (phase' = "write" => parsed' = Len(File'))
    BY <1>1, <2>1 DEF CodeInv
  <2>5. phase' = "built" => \A m \in Manifest : generated'[m].entries # <<>>
    BY <1>1
  <2>6. QED
    BY <2>2, <2>3, <2>4, <2>5 DEF CodeInv
<1>2. CASE ParseDoc /\ ~Fail
  <2> DEFINE i == parsed + 1
  <2>1. i \in 1..Len(File) /\ i # 0
    BY <1>2, DirectivesAreManifests DEF ParseDoc, GeneratorInv, File
  <2>2. /\ entries' = entries \o EntriesOf(i)
        /\ hasHealthCheck' = (hasHealthCheck \/ File[i].probes > 0)
        /\ parsed' = i
        /\ phase = "parse"
        /\ UNCHANGED <<source, directive, phase, generated>>
    BY <1>2 DEF ParseDoc
  <2>3. File' = File
    BY <2>2 DEF File
  <2> HIDE DEF i
  <2>4. CodeOf(i, entries \o EntriesOf(i), hasHealthCheck \/ File[i].probes > 0)
    BY <2>1, CodeGrows DEF CodeInv, i
  <2>5. CodeOf(parsed, entries, hasHealthCheck)'
    BY <2>2, <2>4
  <2>6. ASSUME NEW n \in 1..Len(Directives),
               n < directive' \/ phase' \in {"compile", "built"}
        PROVE  Coded(n)'
    <3>1. Coded(n)
      BY <2>2, <2>6 DEF CodeInv
    <3>2. QED
      BY <2>2, <3>1
  <2>7. parsed' <= Len(File') /\ phase' # "write" /\ phase' # "built"
    BY <2>1, <2>2, <2>3
  <2>8. QED
    BY <2>5, <2>6, <2>7 DEF CodeInv
<1>3. ASSUME NEW code, Writes(code),
             \/ code = [entries |-> entries, hasHealthCheck |-> hasHealthCheck]
             \/ code = Nothing,
             CodegenNext
      PROVE  CodeInv'
  <2> DEFINE m == Directives[directive]
  <2>1. /\ generated' = [generated EXCEPT ![m] = code]
        /\ phase = "write" /\ phase' # "write"
        /\ directive' \in {directive, directive + 1}
        /\ phase' = "compile" => directive = Len(Directives)
        /\ phase' \in {"compile", "parse"}
        /\ parsed' = 0 /\ entries' = <<>> /\ hasHealthCheck' = FALSE
        /\ source' = source
    BY <1>3 DEF Writes
  <2>2. directive \in 1..Len(Directives) /\ m \in Manifest /\ Len(Directives) \in Nat
    BY DirectivesAreManifests DEF GeneratorInv
  <2>3. generated'[m] = code
    BY <2>1, <2>2 DEF GeneratorInv
  <2>4. parsed = Len(source[m]) /\ CodeOf(parsed, entries, hasHealthCheck)
    BY <2>1 DEF CodeInv, File
  <2>5. ASSUME NEW n \in 1..Len(Directives),
               n < directive' \/ phase' \in {"compile", "built"}
        PROVE  Coded(n)'
    <3>1. CASE n = directive
      BY <1>3, <2>1, <2>3, <2>4, <3>1
    <3>2. CASE n # directive
      <4>1. n < directive
        BY <2>1, <2>2, <2>5, <3>2
      <4>2. Coded(n)
        BY <4>1 DEF CodeInv
      <4>3. Directives[n] # m /\ Directives[n] \in Manifest
        BY <2>2, <3>2, CodegenConstants, DirectivesAreManifests
        DEF CodegenConstants, IsInjective
      <4>4. generated'[Directives[n]] = generated[Directives[n]]
        BY <2>1, <4>3 DEF GeneratorInv
      <4>5. QED
        BY <2>1, <4>2, <4>4
    <3>3. QED
      BY <3>1, <3>2
  <2>6. GeneratorInv'
    BY GeneratorStep
  <2>7. parsed' <= Len(File')
    <3>1. File' \in Seq(Docs)
      BY <2>6, DirectivesAreManifests DEF GeneratorInv, File
    <3>2. QED
      BY <2>1, <3>1
  <2>8. CodeOf(parsed, entries, hasHealthCheck)'
    BY <2>1, NoCode
  <2>9. QED
    BY <2>1, <2>5, <2>7, <2>8 DEF CodeInv
<1>4. CASE ParseFile
  BY <1>1, <1>4 DEF ParseFile
<1>5. CASE Fail
  BY <1>1, <1>5 DEF Fail
<1>6. CASE Compile
  BY <1>1, <1>6 DEF Compile, Compiles
<1>7. CASE WriteFiles \/ EncodeFails
  BY <1>3, <1>7 DEF WriteFiles, EncodeFails
<1>8. QED
  BY <1>2, <1>4, <1>5, <1>6, <1>7 DEF CodegenNext, WriteFilesFails

\* CodeInv is an invariant, too.
LEMMA CodeInvariant == Spec => [](GeneratorInv /\ CodeInv)
<1>1. Init => GeneratorInv /\ CodeInv
  BY GeneratorInit, CodeInit DEF Init
<1>2. GeneratorInv /\ CodeInv /\ [Next]_vars => (GeneratorInv /\ CodeInv)'
  <2>1. ASSUME GeneratorInv, CodeInv, UNCHANGED generator PROVE (GeneratorInv /\ CodeInv)'
    <3>1. File' = File
      BY <2>1 DEF generator, File
    <3>2. QED
      BY <2>1, <3>1, Zenon DEF GeneratorInv, CodeInv, generator
  <2>2. QED
    BY <2>1, GeneratorStep, CodeStep DEF Next, vars
<1>3. QED
  BY <1>1, <1>2, PTL DEF Spec

-----------------------------------------------------------------------------
(* What comes of the code of a manifest.                                   *)

\* The manifests that have been built are those of all documents.
LEMMA BuiltIsComplete ==
    ASSUME CodeInv, phase = "built", NEW m \in Manifest
    PROVE  CodeOf(Len(source[m]), generated[m].entries, generated[m].hasHealthCheck)
<1>1. PICK n \in 1..Len(Directives) : m = Directives[n]
  BY CodegenConstants DEF CodegenConstants, Manifest, ToSet
<1>2. generated[m] # Nothing
  BY DEF CodeInv, Nothing
<1>3. QED
  BY <1>1, <1>2 DEF CodeInv

\* The places of a sequence have a last one.
LEMMA LastPlace ==
    ASSUME NEW n \in Nat, NEW S \in SUBSET (1..n), S # {}
    PROVE  Max(S) \in S
<1> DEFINE T == {n - x : x \in S}
<1>1. T \in SUBSET Nat /\ T # {}
  <2>1. \A x \in S : n - x \in Nat
    OBVIOUS
  <2>2. PICK x \in S : TRUE
    OBVIOUS
  <2>3. n - x \in T
    BY <2>2
  <2>4. QED
    BY <2>1, <2>3
<1> HIDE DEF T
<1>2. PICK t \in T : \A y \in T : ~(<<y, t>> \in OpToRel(<, Nat))
  BY <1>1, NatLessThanWellFounded, WFMin
<1>3. \A y \in T : ~(y < t)
  BY <1>1, <1>2 DEF OpToRel
<1>4. PICK x \in S : t = n - x
  BY <1>2 DEF T
<1>5. \A y \in S : x >= y
  BY <1>3, <1>4 DEF T
<1>6. QED
  BY <1>4, <1>5 DEF Max

\* The main function of a manifest calls InitHealthCheck just when the
\* constructor registers a health object (ManifestCodegen.go:147-171, 331-333),
\* whatever the files are and however many of them there are.
THEOREM HealthChecksHaveObjects == Spec => []HealthCheckHasObject
<1>1. ASSUME GeneratorInv, CodeInv PROVE HealthCheckHasObject
  <2> SUFFICES ASSUME phase = "built", NEW m \in Manifest
               PROVE  generated[m].hasHealthCheck <=> HealthObject(m) # 0
    BY DEF HealthCheckHasObject
  <2> DEFINE es == generated[m].entries
             S == HealthObjects(m)
  <2>1. S = {i \in DOMAIN es : es[i].name = HO}
    BY DEF HealthObjects, Objects
  <2>2. generated[m].hasHealthCheck <=> S # {}
    <3>1. CodeOf(Len(source[m]), es, generated[m].hasHealthCheck)
      BY <1>1, BuiltIsComplete
    <3>2. QED
      BY <2>1, <3>1 DEF CodeOf
  <2>3. es \in EntriesFrom(source[m]) /\ DOMAIN es = 1..Len(es) /\ Len(es) \in Nat
    BY <1>1 DEF GeneratorInv, EntriesFrom
  <2>4. ASSUME S # {} PROVE HealthObject(m) # 0
    <3> HIDE DEF S, es
    <3>1. S \in SUBSET (1..Len(es))
      BY <2>1, <2>3
    <3>2. Max(S) \in S
      BY <2>3, <2>4, <3>1, LastPlace
    <3>3. es[Max(S)].doc \in 1..Len(source[m])
      BY <2>1, <2>3, <3>2, EntryNamesDocument
    <3>4. es[Max(S)].doc # 0
      BY <3>3
    <3>5. HealthObject(m) = es[Max(S)].doc
      BY <2>4 DEF HealthObject, DocAt, S, es
    <3>6. QED
      BY <3>4, <3>5
  <2>5. ASSUME S = {} PROVE HealthObject(m) = 0
    BY <2>5 DEF HealthObject
  <2>6. QED
    BY <2>2, <2>4, <2>5
<1>2. QED
  BY <1>1, CodeInvariant, PTL

\* What kubectl has applied without an error is whole, and comes from code that
\* has been built.
AppliedInv ==
    /\ step \in {"apply", "init", "watch"} => phase = "built"
    /\ step = "init" =>
          \A i \in Objects(Addons[pos]) : Whole(Addons[pos], DocAt(Addons[pos], i))

\* Every step keeps it: there is no generator left to run beside the daemon.
LEMMA AppliedStep == AppliedInv /\ [Next]_vars => AppliedInv'
<1> SUFFICES ASSUME AppliedInv, [Next]_vars PROVE AppliedInv'
  OBVIOUS
<1>1. CASE CodegenNext /\ UNCHANGED daemon
  <2>1. phase # "built"
    BY <1>1 DEF CodegenNext, ParseDoc, ParseFile, WriteFiles, EncodeFails, Writes,
                WriteFilesFails, Compile
  <2>2. step' \notin {"apply", "init", "watch"}
    BY <1>1, <2>1 DEF AppliedInv, daemon
  <2>3. QED
    BY <2>2 DEF AppliedInv
<1>2. CASE UNCHANGED generator /\ step' = step /\ pos' = pos
  BY <1>2 DEF AppliedInv, generator, Objects, Whole, DocAt
<1>3. CASE UNCHANGED generator /\ step' \in {"construct", "done"}
  BY <1>3 DEF AppliedInv
<1>4. CASE UNCHANGED generator /\ phase = "built" /\ step' \in {"apply", "watch"}
  BY <1>4 DEF AppliedInv, generator
<1>5. CASE /\ UNCHANGED generator /\ phase = "built" /\ pos' = pos
           /\ \A i \in Objects(Addons[pos]) : Whole(Addons[pos], DocAt(Addons[pos], i))
  BY <1>5 DEF AppliedInv, generator, Objects, Whole, DocAt
<1>6. CASE UNCHANGED generator /\ startServices
  <2>1. CASE Construct
    BY <1>2, <1>4, <1>6, <2>1 DEF Construct, At, Runs, Panic
  <2>2. CASE Apply
    BY <1>2, <1>3, <1>5, <1>6, <2>2 DEF Apply, At, Runs, Panic, Warn, Continue
  <2>3. CASE InitHealthCheck
    BY <1>3, <1>4, <1>6, <2>3 DEF InitHealthCheck, At, Runs, Warn, Continue
  <2>4. CASE Watch
    BY <1>3, <1>6, <2>4 DEF Watch, Continue
  <2>5. QED
    BY <1>6, <2>1, <2>2, <2>3, <2>4 DEF startServices
<1>7. ASSUME NEW a \in Addon, Wake(a) \/ Poll(a) \/ Status(a), UNCHANGED generator
      PROVE  AppliedInv'
  <2>1. step' = step /\ pos' = pos
    BY <1>7, Zenon DEF Wake, Poll, Status, Panic, Reported
  <2>2. QED
    BY <1>2, <1>7, <2>1
<1>8. CASE UNCHANGED vars
  BY <1>2, <1>8 DEF vars, daemon
<1>9. QED
  BY <1>1, <1>6, <1>7, <1>8, Zenon DEF Next, DaemonNext

\* A manifest that has been applied has had every document of its file, once,
\* whole and in the order of the file: parseDoc (ManifestCodegen.go:129-174),
\* the generated constructor and ApplyToCluster leave none out, however many
\* documents, probes and addons there are.
THEOREM EveryDocumentIsApplied == Spec => []EveryDocumentApplied
<1>1. Init => AppliedInv
  BY DEF Init, AppliedInv
<1>2. ASSUME DaemonInv, GeneratorInv, CodeInv, AppliedInv PROVE EveryDocumentApplied
  <2> DEFINE a == Addons[pos]
             es == generated[a].entries
  <2> SUFFICES ASSUME step = "init"
               PROVE  /\ \A d \in DOMAIN source[a] :
                            Whole(a, d) /\ \E i \in Objects(a) : DocAt(a, i) = d
                      /\ \A i, j \in Objects(a) : i < j => DocAt(a, i) < DocAt(a, j)
    BY DEF EveryDocumentApplied
  <2>1. a \in Manifest
    <3>1. pos \in 1..Len(Addons)
      BY <1>2, BusyWithAddon DEF DaemonInv
    <3>2. Addons \in Seq(Manifest)
      BY ManifestsConstants DEF ManifestsConstants
    <3>3. QED
      BY <3>1, <3>2
  <2>2. CodeOf(Len(source[a]), es, generated[a].hasHealthCheck)
    BY <1>2, <2>1, BuiltIsComplete DEF AppliedInv
  <2>3. DOMAIN source[a] = 1..Len(source[a])
    <3>1. source[a] \in Seq(Docs)
      BY <1>2, <2>1 DEF GeneratorInv
    <3>2. QED
      BY <3>1
  <2> HIDE DEF a
  <2>4. Objects(a) = {i \in DOMAIN es : es[i].name # HO} /\ \A i : DocAt(a, i) = es[i].doc
    BY DEF Objects, DocAt
  <2>5. \A i \in Objects(a) : Whole(a, DocAt(a, i))
    BY <1>2 DEF AppliedInv, a
  <2> HIDE DEF es
  <2>6. \A d \in DOMAIN source[a] : \E i \in Objects(a) : DocAt(a, i) = d
    BY <2>2, <2>3, <2>4 DEF CodeOf
  <2>7. \A i, j \in Objects(a) : i < j => DocAt(a, i) < DocAt(a, j)
    BY <2>2, <2>4 DEF CodeOf
  <2>8. \A d \in DOMAIN source[a] : Whole(a, d)
    BY <2>5, <2>6
  <2>9. QED
    BY <2>6, <2>7, <2>8
<1>3. QED
  BY <1>1, <1>2, AppliedStep, DaemonInvariant, CodeInvariant, PTL DEF Spec
=============================================================================
