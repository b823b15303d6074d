-------------------------- MODULE HostFilesProofs --------------------------
(***************************************************************************)
(* What Credentials guarantees for any directories and certificates, and   *)
(* however often the daemon is killed and started again; then what         *)
(* HostFiles adds to it, for any plugins and services.                     *)
(***************************************************************************)
EXTENDS HostFiles, TLAPS

-----------------------------------------------------------------------------
(* The i-th certificate of directory d, and its key.                       *)

IndexOf(d) == 1..Len(Certs[d])
On(d, i, kind) == disk[<<d, Certs[d][i], kind>>]
Is(d, i, kind, state) == On(d, i, kind).state = state

\* The file has been written, with success or without.
Made(d, i, kind) == On(d, i, kind).state \in {"written", "broken"}

Midway == pc \in {"openKey", "writeKey", "openPem", "writePem"}

PlaceInv ==
    /\ disk \in [Files -> Contents]
    /\ run \in 1..MaxRuns
    /\ pc \in Places
    /\ dir \in 1..Len(Dirs)
    /\ cert \in IndexOf(Here)
    /\ pc = "stat" => cert = 1

\* Nothing precedes the first certificate, and what there is belongs together.
Ordered(d) ==
    Is(d, 1, "pem", "absent") => \A i \in IndexOf(d) : Is(d, i, "pem", "absent")

Match(d) ==
    \A i \in IndexOf(d) : Is(d, i, "pem", "written") =>
        /\ Is(d, i, "key", "written") => On(d, i, "key").run = On(d, i, "pem").run
        /\ Is(d, 1, "pem", "written") => On(d, 1, "pem").run = On(d, i, "pem").run

\* The directory the daemon is filling: what it has made so far is of this run,
\* and what it has not made yet is not there.
Later(d) ==
    \A i \in IndexOf(d) : i > cert => Is(d, i, "pem", "absent")

Earlier(d) ==
    \A i \in IndexOf(d) : i < cert => Made(d, i, "pem") /\ Made(d, i, "key")

Current(d, c) ==
    /\ pc # "writePem" => Is(d, c, "pem", "absent")
    /\ pc = "writePem" => Is(d, c, "pem", "empty") /\ On(d, c, "pem").run = run
    /\ pc = "writeKey" => Is(d, c, "key", "empty")
    /\ pc # "openKey"  => On(d, c, "key").run = run
    /\ pc \in {"openPem", "writePem"} => Made(d, c, "key")
    /\ c > 1 => On(d, 1, "pem").run = run

Filling(d) ==
    /\ Later(d)
    /\ \A c \in IndexOf(d) : c = cert => Current(d, c)
    /\ Earlier(d)

\* The others: empty, full, or torn.
Full(d) == \A i \in IndexOf(d) : Made(d, i, "pem") /\ Made(d, i, "key")

Whole(d) == Is(d, 1, "pem", "absent") \/ Full(d) \/ d \in torn

PassedInv ==
    /\ pc # "down" => \A k \in 1..dir - 1 : ~Is(Dirs[k], 1, "pem", "absent")
    /\ Loaded => \A d \in DirSet : ~Is(d, 1, "pem", "absent")

CredInv ==
    /\ PlaceInv
    /\ \A d \in DirSet : Ordered(d) /\ Match(d)
    /\ Midway => Filling(Here)
    /\ \A d \in DirSet : Whole(d) \/ (Midway /\ d = Here)
    /\ PassedInv

\* The directories and their certificates are known by their places.
LEMMA CertsAreDistinct ==
    /\ Len(Dirs) \in Nat
    /\ \A k \in 1..Len(Dirs) : Dirs[k] \in DirSet
    /\ \A d \in DirSet : \E k \in 1..Len(Dirs) : d = Dirs[k]
    /\ \A d \in DirSet : Len(Certs[d]) \in Nat /\ 1 \in IndexOf(d)
    /\ \A d \in DirSet : \A i, j \in IndexOf(d) : Certs[d][i] = Certs[d][j] => i = j
    /\ \A d \in DirSet : \A i \in IndexOf(d) : \A kind \in {"key", "pem"} :
          <<d, Certs[d][i], kind>> \in Files
<1>1. Len(Dirs) \in Nat /\ \A k \in 1..Len(Dirs) : Dirs[k] \in DirSet
  BY CredentialConstants DEF CredentialConstants, DirSet
<1>2. ASSUME NEW d \in DirSet
      PROVE  /\ \E k \in 1..Len(Dirs) : d = Dirs[k]
             /\ Len(Certs[d]) \in Nat /\ 1 \in IndexOf(d)
             /\ \A i, j \in IndexOf(d) : Certs[d][i] = Certs[d][j] => i = j
  <2>1. PICK k \in 1..Len(Dirs) : d = Dirs[k]
    BY DEF DirSet
  <2>2. Certs[d] \in Seq(STRING) \ {<<>>}
    BY <2>1, CredentialConstants DEF CredentialConstants
  <2>3. Len(Certs[d]) \in Nat /\ Len(Certs[d]) # 0
    BY <2>2
  <2>4. \A i, j \in IndexOf(d) : Certs[d][i] = Certs[d][j] => i = j
    BY <2>1, CredentialConstants DEF CredentialConstants, IndexOf
  <2>5. QED
    BY <2>1, <2>3, <2>4 DEF IndexOf
<1>3. ASSUME NEW d \in DirSet, NEW i \in IndexOf(d), NEW kind \in {"key", "pem"}
      PROVE  <<d, Certs[d][i], kind>> \in Files
  <2>1. Certs[d][i] \in CertsOf(d)
    BY DEF CertsOf, IndexOf
  <2>2. Certs[d][i] \in UNION {CertsOf(e) : e \in DirSet}
    BY <2>1
  <2>3. QED
    BY <2>2 DEF Files
<1>4. QED
  BY <1>1, <1>2, <1>3

\* The first run starts with the first directory, and with what an earlier
\* installation may have left.
LEMMA CredInit == Init => CredInv
<1> SUFFICES ASSUME Init PROVE CredInv
  OBVIOUS
<1>1. 1 \in 1..Len(Dirs) /\ Dirs[1] \in DirSet
  BY CredentialConstants, CertsAreDistinct DEF CredentialConstants
<1>2. PlaceInv
  <2>1. MaxRuns \in Nat \ {0}
    BY CredentialConstants DEF CredentialConstants
  <2>2. Absent \in Contents
    BY <2>1 DEF Absent, Contents
  <2>3. QED
    BY <1>1, <2>1, <2>2, CertsAreDistinct DEF Init, PlaceInv, Places, Here
<1>3. ASSUME NEW d \in DirSet, NEW i \in IndexOf(d)
      PROVE  Is(d, i, "pem", "absent")
  BY CertsAreDistinct DEF Init, Is, On, Absent
<1>4. \A d \in DirSet : Ordered(d) /\ Match(d) /\ Whole(d)
  BY <1>3, CertsAreDistinct DEF Ordered, Match, Whole, Is
<1>5. ~Midway /\ PassedInv
  BY DEF Init, Midway, PassedInv, Loaded
<1>6. QED
  BY <1>2, <1>4, <1>5 DEF CredInv

-----------------------------------------------------------------------------
(* One step.                                                               *)

\* What is known of a directory is known by what its files hold.
LEMMA Kept ==
    ASSUME CredInv, UNCHANGED disk
    PROVE  \A d \in DirSet : /\ Ordered(d)' /\ Match(d)'
                             /\ torn \subseteq torn' /\ Whole(d) => Whole(d)'
BY DEF CredInv, Ordered, Match, Whole, Full, Is, Made, On

\* A write changes one file, the one that is being made.
LEMMA WritesOne ==
    ASSUME CredInv, NEW kind \in {"key", "pem"}, NEW v \in Contents,
           disk' = [disk EXCEPT ![File(kind)] = v]
    PROVE  /\ disk' \in [Files -> Contents]
           /\ \A d \in DirSet : \A i \in IndexOf(d) : \A k \in {"key", "pem"} :
                 On(d, i, k)' = IF d = Here /\ i = cert /\ k = kind
                                THEN v ELSE On(d, i, k)
<1>1. Here \in DirSet /\ cert \in IndexOf(Here) /\ disk \in [Files -> Contents]
  BY CertsAreDistinct DEF CredInv, PlaceInv, Here
<1>2. disk' \in [Files -> Contents]
  BY <1>1
<1>3. ASSUME NEW d \in DirSet, NEW i \in IndexOf(d), NEW k \in {"key", "pem"}
      PROVE  On(d, i, k)' = IF d = Here /\ i = cert /\ k = kind
                            THEN v ELSE On(d, i, k)
  <2>1. <<d, Certs[d][i], k>> \in Files
    BY CertsAreDistinct
  <2>2. <<d, Certs[d][i], k>> = File(kind) <=> d = Here /\ i = cert /\ k = kind
    BY <1>1, CertsAreDistinct DEF File
  <2>3. QED
    BY <1>1, <2>1, <2>2 DEF On
<1>4. QED
  BY <1>2, <1>3

\* Now(c) is one of the contents that a file may have.
LEMMA NowIsContents ==
    ASSUME PlaceInv
    PROVE  \A s \in {"empty", "written", "broken"} :
              /\ Now(s) \in Contents
              /\ Now(s).state = s /\ Now(s).run = run
BY CredentialConstants DEF CredentialConstants, PlaceInv, Now, Contents

\* A step to a place where no file is made.
LEMMA LeavesFiles ==
    ASSUME CredInv, UNCHANGED disk, ~Midway', PlaceInv', PassedInv',
           torn \subseteq torn',
           Midway => Is(Here, 1, "pem", "absent") \/ Here \in torn'
    PROVE  CredInv'
<1>1. ASSUME NEW d \in DirSet PROVE Whole(d)'
  <2>1. CASE Midway /\ d = Here
    BY <2>1 DEF Whole, Is, On
  <2>2. CASE ~(Midway /\ d = Here)
    BY <2>2 DEF CredInv, Whole, Full, Is, Made, On
  <2>3. QED
    BY <2>1, <2>2
<1>2. QED
  BY <1>1, Kept DEF CredInv

\* The daemon goes on to the next directory, or has done with all of them.
LEMMA PassesOn ==
    ASSUME PlaceInv, pc # "down", NEW here, here = Here,
           \A k \in 1..dir - 1 : ~Is(Dirs[k], 1, "pem", "absent")',
           ~Is(here, 1, "pem", "absent")',
           NextDir, disk' \in [Files -> Contents], UNCHANGED run
    PROVE  PlaceInv' /\ PassedInv' /\ ~Midway'
<1>1. PlaceInv'
  BY CertsAreDistinct DEF PlaceInv, NextDir, Places, Here
<1>2. pc' \in {"stat", "statConfig"} /\ ~Midway'
  BY DEF NextDir, Midway
<1>3. \A k \in 1..dir : ~Is(Dirs[k], 1, "pem", "absent")'
  <2>1. ASSUME NEW k \in 1..dir, k = dir PROVE ~Is(Dirs[k], 1, "pem", "absent")'
    BY <2>1 DEF Here, Is, On
  <2>2. QED
    BY <2>1 DEF PlaceInv
<1>4. \A k \in 1..dir' - 1 : ~Is(Dirs[k], 1, "pem", "absent")'
  BY <1>3 DEF PlaceInv, NextDir
<1>5. ASSUME Loaded', NEW d \in DirSet PROVE ~Is(d, 1, "pem", "absent")'
  <2>1. dir = Len(Dirs)
    BY <1>5 DEF Loaded, NextDir, PlaceInv
  <2>2. PICK k \in 1..Len(Dirs) : d = Dirs[k]
    BY CertsAreDistinct
  <2>3. QED
    BY <1>3, <2>1, <2>2
<1>6. QED
  BY <1>1, <1>2, <1>4, <1>5 DEF PassedInv

\* A file is opened or written to, and another one is to be made.
LEMMA FillsOn ==
    ASSUME CredInv, Midway, Midway',
           UNCHANGED <<run, dir, torn>>,
           disk' \in [Files -> Contents], PlaceInv',
           \A d \in DirSet \ {Here} : \A i \in IndexOf(d) : \A k \in {"key", "pem"} :
              On(d, i, k)' = On(d, i, k),
           NEW here, here = Here, Filling(here)', Ordered(here)', Match(here)',
           Is(here, 1, "pem", "absent")' => Is(here, 1, "pem", "absent")
    PROVE  CredInv'
<1>1. ASSUME NEW d \in DirSet PROVE Ordered(d)' /\ Match(d)'
  <2>1. CASE d = here
    BY <2>1
  <2>2. CASE d # here
    <3>1. \A i \in IndexOf(d) : \A k \in {"key", "pem"} : On(d, i, k)' = On(d, i, k)
      BY <2>2
    <3>2. Ordered(d) /\ Match(d) /\ 1 \in IndexOf(d)
      BY CertsAreDistinct DEF CredInv
    <3>3. QED
      BY <3>1, <3>2 DEF Ordered, Match, Is
  <2>3. QED
    BY <2>1, <2>2
<1>2. Here' = Here
  BY DEF Here
<1>3. ASSUME NEW d \in DirSet, d # Here PROVE Whole(d)'
  <2>1. Whole(d) /\ 1 \in IndexOf(d)
    BY <1>3, CertsAreDistinct DEF CredInv
  <2>2. \A i \in IndexOf(d) : \A k \in {"key", "pem"} : On(d, i, k)' = On(d, i, k)
    BY <1>3
  <2>3. QED
    BY <2>1, <2>2 DEF Whole, Full, Is, Made
<1>4. PassedInv'
  <2>1. ~Loaded'
    BY DEF Midway, Loaded
  <2>2. ASSUME NEW k \in 1..dir - 1 PROVE ~Is(Dirs[k], 1, "pem", "absent")'
    <3>1. Dirs[k] \in DirSet /\ 1 \in IndexOf(Dirs[k])
      BY CertsAreDistinct DEF CredInv, PlaceInv
    <3>2. ~Is(Dirs[k], 1, "pem", "absent")
      BY DEF CredInv, PassedInv, Midway
    <3>3. CASE Dirs[k] # Here
      BY <3>1, <3>2, <3>3 DEF Is
    <3>4. CASE Dirs[k] = Here
      BY <3>2, <3>4
    <3>5. QED
      BY <3>3, <3>4
  <2>3. QED
    BY <2>1, <2>2 DEF PassedInv
<1>5. Filling(Here)'
  BY <1>2 DEF Filling, Later, Current, Earlier, Is, On, IndexOf
<1>6. QED
  BY <1>1, <1>2, <1>3, <1>4, <1>5 DEF CredInv

-----------------------------------------------------------------------------
(* The actions.                                                            *)

\* One of the two files of the current certificate is opened or written to,
\* the certificate last.
LEMMA WritesHere ==
    ASSUME CredInv, UNCHANGED <<run, dir, cert, torn>>,
           NEW kind \in {"key", "pem"}, NEW v \in Contents,
           v.run = run,
           disk' = [disk EXCEPT ![File(kind)] = v],
           \/ /\ pc = "openKey" /\ pc' = "writeKey"
              /\ kind = "key" /\ v.state = "empty"
           \/ /\ pc = "writeKey" /\ pc' = "openPem"
              /\ kind = "key" /\ v.state \in {"written", "broken"}
           \/ /\ pc = "openPem" /\ pc' = "writePem"
              /\ kind = "pem" /\ v.state = "empty"
    PROVE  CredInv'
<1>1. PICK here : here = Here
  OBVIOUS
<1>2. Midway /\ Filling(here) /\ PlaceInv
  BY <1>1 DEF Midway, CredInv
<1>3. here \in DirSet /\ 1 \in IndexOf(here) /\ cert \in IndexOf(here)
  BY <1>1, <1>2, CertsAreDistinct DEF PlaceInv, Here
<1>4. Ordered(here) /\ Match(here)
  BY <1>3 DEF CredInv
<1>5. /\ disk' \in [Files -> Contents]
      /\ \A d \in DirSet : \A i \in IndexOf(d) : \A k \in {"key", "pem"} :
            On(d, i, k)' = IF d = Here /\ i = cert /\ k = kind
                           THEN v ELSE On(d, i, k)
  BY WritesOne
<1>6. PlaceInv' /\ Midway'
  BY <1>2, <1>5 DEF PlaceInv, Midway, Places, Here
<1>7. Ordered(here)'
  BY <1>1, <1>2, <1>3, <1>4, <1>5 DEF Ordered, Filling, Later, Earlier, Is, Made, IndexOf
<1>8. Match(here)'
  BY <1>1, <1>2, <1>3, <1>4, <1>5 DEF Match, Filling, Current, Is
<1>9. Filling(here)'
  <2>1. Later(here)' /\ Earlier(here)'
    BY <1>1, <1>2, <1>3, <1>5 DEF Filling, Later, Earlier, Is, Made
  <2>2. ASSUME NEW c \in IndexOf(here), c = cert' PROVE Current(here, c)'
    BY <1>1, <1>2, <1>3, <1>5, <2>2 DEF Filling, Current, Is, Made
  <2>3. QED
    BY <2>1, <2>2 DEF Filling
<1>10. QED
  BY <1>1, <1>2, <1>3, <1>5, <1>6, <1>7, <1>8, <1>9, FillsOn DEF Is

\* The key is created, or emptied if it is there.
LEMMA OpenKeyStep == CredInv /\ OpenKey => CredInv'
BY WritesHere, NowIsContents DEF OpenKey, Open, CredInv

\* The certificate is created, or emptied if it is there.
LEMMA OpenPemStep == CredInv /\ OpenPem => CredInv'
BY WritesHere, NowIsContents DEF OpenPem, Open, CredInv

\* The key has been written, or its error dropped: the certificate is next.
LEMMA WriteKeyStep == CredInv /\ WriteKey => CredInv'
<1> SUFFICES ASSUME CredInv, WriteKey PROVE CredInv'
  OBVIOUS
<1>1. ASSUME NEW s \in {"written", "broken"},
             disk' = [disk EXCEPT ![File("key")] = Now(s)]
      PROVE  CredInv'
  BY <1>1, WritesHere, NowIsContents DEF WriteKey, CredInv
<1>2. QED
  BY <1>1 DEF WriteKey, Encode

\* The certificate has been written, or its error dropped.
LEMMA WritePemStep == CredInv /\ WritePem => CredInv'
<1> SUFFICES ASSUME CredInv, WritePem PROVE CredInv'
  OBVIOUS
<1>1. PICK here : here = Here
  OBVIOUS
<1>2. /\ Midway /\ Filling(here) /\ PlaceInv
      /\ pc = "writePem" /\ UNCHANGED <<run, torn>>
  BY <1>1 DEF Midway, CredInv, WritePem
<1>3. /\ here \in DirSet /\ 1 \in IndexOf(here) /\ cert \in IndexOf(here)
      /\ Len(Certs[here]) \in Nat /\ Current(here, cert)
  BY <1>1, <1>2, CertsAreDistinct DEF PlaceInv, Here, Filling
<1>4. Ordered(here) /\ Match(here)
  BY <1>3 DEF CredInv
<1>5. PICK v \in Contents : /\ disk' = [disk EXCEPT ![File("pem")] = v]
                           /\ v.state \in {"written", "broken"} /\ v.run = run
  BY <1>2, NowIsContents DEF WritePem, Encode
<1>6. /\ disk' \in [Files -> Contents]
      /\ \A d \in DirSet : \A i \in IndexOf(d) : \A k \in {"key", "pem"} :
            On(d, i, k)' = IF d = Here /\ i = cert /\ k = "pem"
                           THEN v ELSE On(d, i, k)
  BY <1>5, WritesOne
<1>7. Ordered(here)'
  BY <1>1, <1>2, <1>3, <1>4, <1>5, <1>6
  DEF Ordered, Filling, Later, Earlier, Is, Made, IndexOf
<1>8. Match(here)'
  BY <1>1, <1>2, <1>3, <1>4, <1>5, <1>6
  DEF Match, Filling, Later, Current, Is, IndexOf
<1>9. CASE cert < Len(Certs[Here])
  <2>1. cert' = cert + 1 /\ pc' = "openKey" /\ UNCHANGED dir
    BY <1>9 DEF WritePem
  <2>2. cert' \in IndexOf(here)
    BY <1>1, <1>3, <1>9, <2>1 DEF IndexOf
  <2>3. PlaceInv' /\ Midway'
    BY <1>1, <1>2, <1>6, <2>1, <2>2 DEF PlaceInv, Midway, Places, Here
  <2>4. Later(here)' /\ Earlier(here)'
    BY <1>1, <1>2, <1>3, <1>5, <1>6, <2>1
    DEF Filling, Later, Earlier, Current, Is, Made, IndexOf
  <2>5. ASSUME NEW c \in IndexOf(here), c = cert' PROVE Current(here, c)'
    BY <1>1, <1>2, <1>3, <1>5, <1>6, <2>1, <2>5
    DEF Filling, Later, Current, Is, IndexOf
  <2>6. Filling(here)'
    BY <2>4, <2>5 DEF Filling
  <2>7. QED
    BY <1>1, <1>2, <1>3, <1>5, <1>6, <1>7, <1>8, <2>1, <2>3, <2>6, FillsOn DEF Is
<1>10. CASE ~(cert < Len(Certs[Here]))
  <2>1. NextDir
    BY <1>10 DEF WritePem
  <2>2. Full(here)'
    <3>1. ASSUME NEW i \in IndexOf(here)
          PROVE  Made(here, i, "pem")' /\ Made(here, i, "key")'
      <4>1. i < cert \/ i = cert
        BY <1>1, <1>3, <1>10 DEF IndexOf
      <4>2. CASE i < cert
        BY <1>2, <1>3, <1>5, <1>6, <4>2 DEF Filling, Earlier, Is, Made
      <4>3. CASE i = cert
        BY <1>1, <1>2, <1>3, <1>5, <1>6, <4>3 DEF Current, Is, Made
      <4>4. QED
        BY <4>1, <4>2, <4>3
    <3>2. QED
      BY <3>1 DEF Full
  <2>3. ASSUME NEW d \in DirSet PROVE Is(d, 1, "pem", "absent")' => Is(d, 1, "pem", "absent")
    BY <1>3, <1>5, <1>6, CertsAreDistinct DEF Is
  <2>4. ASSUME NEW k \in 1..dir - 1 PROVE ~Is(Dirs[k], 1, "pem", "absent")'
    BY <1>2, <2>3, CertsAreDistinct DEF CredInv, PassedInv, PlaceInv
  <2>5. ~Is(here, 1, "pem", "absent")'
    BY <1>3, <2>2 DEF Full, Made, Is
  <2>6. PlaceInv' /\ PassedInv' /\ ~Midway'
    BY <1>1, <1>2, <1>6, <2>1, <2>4, <2>5, PassesOn
  <2>7. ASSUME NEW d \in DirSet, d # here PROVE Ordered(d)' /\ Match(d)' /\ Whole(d)'
    <3>1. \A i \in IndexOf(d) : \A k \in {"key", "pem"} : On(d, i, k)' = On(d, i, k)
      BY <1>1, <1>6, <2>7
    <3>2. Ordered(d) /\ Match(d) /\ Whole(d) /\ 1 \in IndexOf(d)
      BY <1>1, <2>7, CertsAreDistinct DEF CredInv
    <3>3. QED
      BY <1>2, <3>1, <3>2 DEF Ordered, Match, Whole, Full, Is, Made
  <2>8. QED
    BY <1>7, <1>8, <2>2, <2>6, <2>7 DEF CredInv, Whole
<1>11. QED
  BY <1>9, <1>10

\* A directory is passed over when its first certificate exists, and filled
\* otherwise.
LEMMA EnsurePKIStep == CredInv /\ EnsurePKI => CredInv'
<1> SUFFICES ASSUME CredInv, EnsurePKI PROVE CredInv'
  OBVIOUS
<1>1. PICK here : here = Here
  OBVIOUS
<1>2. /\ PlaceInv /\ pc = "stat" /\ cert = 1 /\ ~Midway
      /\ here \in DirSet /\ 1 \in IndexOf(here) /\ Ordered(here)
      /\ UNCHANGED <<disk, run, torn>>
  BY <1>1, CertsAreDistinct DEF CredInv, PlaceInv, EnsurePKI, Midway, Here
<1>3. disk[Sought(Here)].state = "absent" <=> Is(here, 1, "pem", "absent")
  BY <1>1 DEF Sought, Is, On
<1>4. CASE Is(here, 1, "pem", "absent")
  <2>1. pc' = "openKey" /\ UNCHANGED <<dir, cert>>
    BY <1>3, <1>4 DEF EnsurePKI
  <2>2. PlaceInv'
    BY <1>2, <2>1 DEF PlaceInv, Places, Here
  <2>3. Later(here)' /\ Earlier(here)'
    BY <1>2, <1>4, <2>1 DEF Ordered, Later, Earlier, Is, On, IndexOf
  <2>4. ASSUME NEW c \in IndexOf(here), c = cert' PROVE Current(here, c)'
    BY <1>2, <1>4, <2>1, <2>4 DEF Current, Is, On
  <2>5. Filling(Here)'
    BY <1>1, <2>1, <2>3, <2>4 DEF Filling, Here, Later, Earlier, Current, Is, On, IndexOf
  <2>6. PassedInv'
    BY <1>2, <2>1 DEF CredInv, PassedInv, Loaded, Is, On
  <2>7. QED
    BY <1>2, <2>2, <2>5, <2>6, Kept DEF CredInv
<1>5. CASE ~Is(here, 1, "pem", "absent")
  <2>1. NextDir
    BY <1>3, <1>5 DEF EnsurePKI
  <2>2. PlaceInv' /\ PassedInv' /\ ~Midway'
    BY <1>1, <1>2, <1>5, <2>1, PassesOn DEF CredInv, PassedInv, PlaceInv, Is, On
  <2>3. QED
    BY <1>2, <2>2, LeavesFiles
<1>6. QED
  BY <1>4, <1>5

\* The daemon ends: while it fills a directory, that one is torn unless the
\* file that is looked for is still missing.
LEMMA EndsStep ==
    ASSUME CredInv, pc' = "down", UNCHANGED <<disk, run, dir, cert>>,
           torn' = (IF Midway /\ disk[Sought(Here)].state # "absent"
                    THEN torn \cup {Here} ELSE torn)
    PROVE  CredInv'
<1>1. PlaceInv'
  BY DEF CredInv, PlaceInv, Places, Here
<1>2. PassedInv' /\ ~Midway'
  BY DEF PassedInv, Loaded, Midway
<1>3. Midway => Is(Here, 1, "pem", "absent") \/ Here \in torn'
  BY DEF Sought, Is, On
<1>4. QED
  BY <1>1, <1>2, <1>3, LeavesFiles

\* Every step keeps the invariant.
LEMMA CredStep == CredInv /\ [Next]_vars => CredInv'
<1> SUFFICES ASSUME CredInv, [Next]_vars PROVE CredInv'
  OBVIOUS
<1>1. CASE EnsurePKI
  BY <1>1, EnsurePKIStep
<1>2. CASE OpenKey \/ WriteKey \/ OpenPem \/ WritePem
  BY <1>2, OpenKeyStep, WriteKeyStep, OpenPemStep, WritePemStep
<1>3. CASE OpenFails
  BY <1>3, EndsStep DEF OpenFails, Midway
<1>4. CASE ApiServerFails
  BY <1>4, EndsStep DEF ApiServerFails, Midway
<1>5. CASE EnsureKubeconfig \/ WriteKubeconfig
  <2>1. /\ pc \in {"statConfig", "writeConfig"} /\ pc' \in {"writeConfig", "ready"}
        /\ UNCHANGED <<disk, run, dir, cert, torn>>
    BY <1>5 DEF EnsureKubeconfig, WriteKubeconfig
  <2>2. PlaceInv' /\ ~Midway /\ ~Midway'
    BY <2>1 DEF CredInv, PlaceInv, Places, Here, Midway
  <2>3. PassedInv'
    BY <2>1 DEF CredInv, PassedInv, Loaded, Is, On
  <2>4. QED
    BY <2>1, <2>2, <2>3, LeavesFiles
<1>6. CASE Killed
  BY <1>6, EndsStep DEF Killed, Midway
<1>7. CASE Restart
  <2>1. PlaceInv' /\ ~Midway /\ ~Midway'
    <3>1. 1 \in 1..Len(Dirs) /\ 1 \in IndexOf(Dirs[1])
      BY CertsAreDistinct DEF CredInv, PlaceInv
    <3>2. run' \in 1..MaxRuns
      BY <1>7, CredentialConstants DEF Restart, CredInv, PlaceInv, CredentialConstants
    <3>3. QED
      BY <1>7, <3>1, <3>2 DEF Restart, CredInv, PlaceInv, Places, Here, Midway
  <2>2. PassedInv'
    BY <1>7 DEF Restart, PassedInv, Loaded
  <2>3. QED
    BY <1>7, <2>1, <2>2, LeavesFiles DEF Restart
<1>8. CASE UNCHANGED vars
  <2>1. PlaceInv' /\ PassedInv' /\ (Midway => Filling(Here)')
    BY <1>8
    DEF vars, CredInv, PlaceInv, PassedInv, Loaded, Filling, Later, Earlier,
        Current, Is, Made, On, Here, Midway
  <2>2. QED
    BY <1>8, <2>1, Kept DEF vars, CredInv, Midway, Here
<1>9. QED
  BY <1>1, <1>2, <1>3, <1>4, <1>5, <1>6, <1>7, <1>8 DEF Next, Ensure

\* CredInv is an invariant.
LEMMA CredInvariant == Spec => []CredInv
  BY CredInit, CredStep, PTL DEF Spec

-----------------------------------------------------------------------------
(* The properties.                                                         *)

\* What is said of the names of certificates is said of their places.
LEMMA ByPlace ==
    \A d \in DirSet : \A c \in CertsOf(d) : \E i \in IndexOf(d) : c = Certs[d][i]
BY DEF CertsOf, IndexOf

\* On disk a certificate belongs to its key and to the CA next to it, for any
\* directories, whenever the daemon is killed and however often it is started.
THEOREM CertificatesAlwaysMatch == Spec => []CertificatesMatch
<1>1. ASSUME CredInv PROVE CertificatesMatch
  <2> SUFFICES ASSUME NEW d \in DirSet, NEW c \in CertsOf(d), Written(d, c, "pem")
               PROVE  /\ Written(d, c, "key") =>
                            disk[<<d, c, "key">>].run = disk[<<d, c, "pem">>].run
                      /\ Written(d, Certs[d][1], "pem") =>
                            disk[Sought(d)].run = disk[<<d, c, "pem">>].run
    BY DEF CertificatesMatch
  <2>1. PICK i \in IndexOf(d) : c = Certs[d][i]
    BY ByPlace
  <2>2. Match(d)
    BY <1>1 DEF CredInv
  <2>3. QED
    BY <2>1, <2>2 DEF Match, Is, On, Written, Sought
<1>2. QED
  BY <1>1, CredInvariant, PTL

\* Once all is loaded, a file that is missing or incomplete is one whose write
\* has failed, or lies in a directory in which the daemon once ended after it had
\* created the file that it looks for.
THEOREM OnlyTornOrBrokenIsIncomplete == Spec => []RepairedUnlessTornOrBroken
<1>1. ASSUME CredInv PROVE RepairedUnlessTornOrBroken
  <2> SUFFICES ASSUME Loaded, NEW d \in DirSet \ torn, NEW c \in CertsOf(d),
                      NEW kind \in {"key", "pem"}
               PROVE  disk[<<d, c, kind>>].state \in {"written", "broken"}
    BY DEF RepairedUnlessTornOrBroken
  <2>1. PICK i \in IndexOf(d) : c = Certs[d][i]
    BY ByPlace
  <2>2. ~Midway /\ ~Is(d, 1, "pem", "absent")
    BY <1>1 DEF CredInv, PassedInv, Loaded, Midway
  <2>3. Full(d)
    BY <1>1, <2>2 DEF CredInv, Whole
  <2>4. QED
    BY <2>1, <2>3 DEF Full, Made, On
<1>2. QED
  BY <1>1, CredInvariant, PTL

\* A complete CA or signing certificate stays as it is for ever.
THEOREM CAStays == Spec => CANeverReplaced
<1>1. ASSUME CredInv, [Next]_vars
      PROVE  [\A d \in DirSet :
                disk[Sought(d)].state = "written" => disk'[Sought(d)] = disk[Sought(d)]]_vars
  <2>1. SUFFICES ASSUME NEW d \in DirSet, disk[Sought(d)].state = "written",
                        ~UNCHANGED disk
                 PROVE  disk'[Sought(d)] = disk[Sought(d)]
    OBVIOUS
  <2>2. PICK here : here = Here
    OBVIOUS
  <2>3. /\ 1 \in IndexOf(d) /\ here \in DirSet /\ cert \in IndexOf(here)
        /\ disk \in [Files -> Contents] /\ Sought(d) \in Files
        /\ On(d, 1, "pem") = disk[Sought(d)]
    BY <1>1, <2>2, CertsAreDistinct DEF CredInv, PlaceInv, Here, Sought, On
  <2>4. PICK kind \in {"key", "pem"} :
           /\ disk' = [disk EXCEPT ![File(kind)] = disk'[File(kind)]]
           /\ pc \in {"openKey", "writeKey", "openPem", "writePem"}
           /\ kind = "pem" => pc \in {"openPem", "writePem"}
    <3>1. PICK kind \in {"key", "pem"} :
             /\ \E v : disk' = [disk EXCEPT ![File(kind)] = v]
             /\ pc \in {"openKey", "writeKey", "openPem", "writePem"}
             /\ kind = "pem" => pc \in {"openPem", "writePem"}
      BY <1>1, <2>1
      DEF Next, Ensure, EnsurePKI, OpenKey, OpenPem, Open, OpenFails, WriteKey,
          WritePem, Encode, ApiServerFails, EnsureKubeconfig, WriteKubeconfig,
          Killed, Restart, vars
    <3>2. File(kind) \in Files
      BY <2>2, <2>3, CertsAreDistinct DEF File
    <3>3. QED
      BY <2>3, <3>1, <3>2
  <2>5. CASE File(kind) # Sought(d)
    BY <2>3, <2>4, <2>5
  <2>6. CASE File(kind) = Sought(d)
    <3>1. kind = "pem" /\ d = here /\ cert = 1
      BY <2>2, <2>3, <2>6, CertsAreDistinct DEF File, Sought
    <3>2. Current(here, cert)
      BY <1>1, <2>2, <2>3, <2>4 DEF CredInv, Midway, Filling
    <3>3. QED
      BY <2>1, <2>3, <2>4, <3>1, <3>2 DEF Current, Is
  <2>7. QED
    BY <2>5, <2>6
<1>2. QED
  BY <1>1, CredInvariant, PTL DEF Spec, CANeverReplaced

-----------------------------------------------------------------------------
(* A start of the daemon treats the credentials as Credentials says.       *)

\* For the credentials, log.Fatal is no different from a kill.
LEMMA FatalIsKilled == Fatal /\ pc \in {"stat", "statConfig", "ready"} => Killed
  BY DEF Fatal, Killed

\* A step of the daemon is one of Credentials, or changes none of its variables.
LEMMA HostStepIsStep == [HostNext]_hostVars => [Next]_vars
<1> SUFFICES ASSUME [HostNext]_hostVars PROVE [Next]_vars
  OBVIOUS
<1>1. CASE SkipPlugin \/ PlacePlugin \/ OpenPlugin \/ CopyPlugin
  BY <1>1, FatalIsKilled
  DEF SkipPlugin, PlacePlugin, OpenPlugin, CopyPlugin, AtPlugin, Next
<1>2. CASE CredentialsNext
  BY <1>2 DEF CredentialsNext, Next
<1>3. CASE BinaryMissing
  BY <1>3, FatalIsKilled DEF BinaryMissing, Next
<1>4. CASE ControllerManagerFails \/ CreateConfig \/ ExecuteTemplate \/ StartConfigured
  BY <1>4, FatalIsKilled
  DEF ControllerManagerFails, CreateConfig, ExecuteTemplate, StartConfigured,
      Makes, Next
<1>5. CASE HostKilled \/ HostRestart
  BY <1>5 DEF HostKilled, HostRestart, Next
<1>6. CASE UNCHANGED hostVars
  BY <1>6 DEF hostVars
<1>7. QED
  BY <1>1, <1>2, <1>3, <1>4, <1>5, <1>6 DEF HostNext

\* What is said of Credentials holds of the daemon that also copies plugins and
\* writes configurations: none of its steps touches a certificate.
THEOREM HostImplementsCredentials == HostSpec => Spec
  BY HostStepIsStep, PTL DEF HostSpec, HostInit, Spec

-----------------------------------------------------------------------------
(* The plugins.                                                            *)

\* Services start when the plugins are done, and a plugin that has been found
\* is there unless the daemon still works on it.
PluginInv ==
    /\ cni \in [PluginSet -> {"absent", "empty", "plugin"}]
    /\ plugin \in 1..Len(Plugins) + 1
    /\ pc \notin {"stat", "down"} => PluginsDone
    /\ started # {} => PluginsDone
    /\ copying # "find" => ~PluginsDone
    /\ copying = "copy" => cni[Plugin] # "absent"
    /\ found \subseteq PluginSet
    /\ \A p \in found : cni[p] # "absent" \/ (copying # "find" /\ p = Plugin)

\* The plugin that is looked at is one of the list.
LEMMA PluginsAreKnown ==
    /\ Len(Plugins) \in Nat
    /\ \A i \in 1..Len(Plugins) : Plugins[i] \in PluginSet
BY HostConstants DEF HostConstants, PluginSet

\* No plugin has been looked for when the first run starts.
LEMMA PluginInit == HostInit => PluginInv
<1>1. 1 \in 1..Len(Plugins) + 1
  BY PluginsAreKnown
<1>2. QED
  BY <1>1 DEF HostInit, Init, PluginInv

\* The daemon copies plugins before anything else.
LEMMA PluginSteps ==
    ASSUME PluginInv, SkipPlugin \/ PlacePlugin \/ OpenPlugin \/ CopyPlugin
    PROVE  PluginInv'
<1>1. /\ pc = "stat" /\ pc' \in {"stat", "down"}
      /\ ~PluginsDone /\ plugin \in 1..Len(Plugins) /\ Plugin \in PluginSet
      /\ started = {} /\ started' = {}
  BY PluginsAreKnown
  DEF PluginInv, SkipPlugin, PlacePlugin, OpenPlugin, CopyPlugin, AtPlugin,
      PluginsDone, Plugin, Fatal, vars, serviceVars
<1>2. CASE SkipPlugin
  BY <1>1, <1>2
  DEF PluginInv, SkipPlugin, AtPlugin, NextPlugin, PluginsDone, Plugin, vars
<1>3. CASE PlacePlugin
  <2>1. CASE NextPlugin /\ cni[Plugin] # "absent" /\ UNCHANGED cni
    BY <1>1, <1>3, <2>1
    DEF PluginInv, PlacePlugin, AtPlugin, NextPlugin, PluginsDone, Plugin, vars
  <2>2. CASE NextPlugin /\ cni' = [cni EXCEPT ![Plugin] = "plugin"]
    BY <1>1, <1>3, <2>2
    DEF PluginInv, PlacePlugin, AtPlugin, NextPlugin, PluginsDone, Plugin, vars
  <2>3. CASE copying' = "open" /\ UNCHANGED <<cni, plugin>>
    BY <1>1, <1>3, <2>3
    DEF PluginInv, PlacePlugin, AtPlugin, PluginsDone, Plugin, vars
  <2>4. QED
    BY <1>3, <2>1, <2>2, <2>3 DEF PlacePlugin
<1>4. CASE OpenPlugin
  <2>1. CASE cni' = [cni EXCEPT ![Plugin] = "empty"] /\ copying' = "copy"
    BY <1>1, <1>4, <2>1
    DEF PluginInv, OpenPlugin, AtPlugin, PluginsDone, Plugin
  <2>2. CASE UNCHANGED <<cni, copying>>
    BY <1>1, <1>4, <2>2
    DEF PluginInv, OpenPlugin, AtPlugin, PluginsDone, Plugin
  <2>3. QED
    BY <1>4, <2>1, <2>2 DEF OpenPlugin
<1>5. CASE CopyPlugin
  BY <1>1, <1>5
  DEF PluginInv, CopyPlugin, AtPlugin, PluginsDone, Plugin, pluginVars
<1>6. QED
  BY <1>2, <1>3, <1>4, <1>5

\* Every step keeps what is known of the plugins.
LEMMA PluginStep == PluginInv /\ [HostNext]_hostVars => PluginInv'
<1> SUFFICES ASSUME PluginInv, [HostNext]_hostVars PROVE PluginInv'
  OBVIOUS
<1>1. CASE SkipPlugin \/ PlacePlugin \/ OpenPlugin \/ CopyPlugin
  BY <1>1, PluginSteps
<1>2. ASSUME UNCHANGED pluginVars, started' = started \/ PluginsDone,
             PluginsDone \/ pc' \in {"stat", "down"}
      PROVE  PluginInv'
  BY <1>2 DEF pluginVars, PluginInv, PluginsDone, Plugin
<1>3. CASE CredentialsNext
  BY <1>2, <1>3 DEF CredentialsNext, serviceVars
<1>4. CASE BinaryMissing
  BY <1>2, <1>4 DEF BinaryMissing, Fatal, serviceVars
<1>5. CASE ControllerManagerFails \/ CreateConfig \/ ExecuteTemplate \/ StartConfigured
  <2>1. PluginsDone
    BY <1>5
    DEF PluginInv, ControllerManagerFails, CreateConfig, ExecuteTemplate,
        StartConfigured, Makes
  <2>2. UNCHANGED pluginVars
    BY <1>5
    DEF ControllerManagerFails, CreateConfig, ExecuteTemplate, StartConfigured
  <2>3. QED
    BY <1>2, <2>1, <2>2
<1>6. CASE HostKilled
  BY <1>2, <1>6 DEF HostKilled, Killed, serviceVars
<1>7. CASE HostRestart
  BY <1>7, PluginsAreKnown DEF HostRestart, Restart, PluginInv, PluginsDone, Plugin
<1>8. CASE UNCHANGED hostVars
  BY <1>2, <1>8 DEF hostVars, vars, serviceVars, PluginInv
<1>9. QED
  BY <1>1, <1>3, <1>4, <1>5, <1>6, <1>7, <1>8 DEF HostNext

\* When the kubelet is given the daemon's CNI directory because a bridge is in
\* it, so are all other plugins that were found.
THEOREM BridgeIsEnough == HostSpec => []BridgeStandsForAll
<1>1. PluginInv => BridgeStandsForAll
  BY DEF PluginInv, BridgeStandsForAll
<1>2. QED
  BY <1>1, PluginInit, PluginStep, PTL DEF HostSpec

-----------------------------------------------------------------------------
(* The services with a configuration.                                      *)

\* A configuration that has been made is not touched again by the same run.
ConfigInv ==
    /\ DOMAIN conf = ServiceSet
    /\ service \in 1..Len(Configured) + 1
    /\ \A s \in started : \E i \in 1..service - 1 : s = Configured[i]
    /\ \A s \in started : conf[s] = Now("written")
    /\ making = "start" => service <= Len(Configured) /\ conf[Service] = Now("written")

\* The service whose configuration is made is one of the list.
LEMMA ServicesAreKnown ==
    /\ Len(Configured) \in Nat
    /\ \A i \in 1..Len(Configured) : Configured[i] \in ServiceSet
    /\ \A i, j \in 1..Len(Configured) : Configured[i] = Configured[j] => i = j
BY HostConstants DEF HostConstants, ServiceSet

\* No configuration has been made when the first run starts.
LEMMA ConfigInit == HostInit => ConfigInv
<1>1. 1 \in 1..Len(Configured) + 1
  BY ServicesAreKnown
<1>2. QED
  BY <1>1 DEF HostInit, ConfigInv

\* The file of the service that is up next is none of a service started.
LEMMA WritesOwnConfig ==
    ASSUME ConfigInv, service <= Len(Configured), NEW state,
           conf' = [conf EXCEPT ![Service] = Now(state)],
           making' = "start" => state = "written",
           UNCHANGED <<run, service, started>>
    PROVE  ConfigInv'
<1>1. service \in 1..Len(Configured) /\ Service \in ServiceSet
  BY ServicesAreKnown DEF ConfigInv, Service
<1>2. ASSUME NEW s \in started PROVE conf'[s] = Now("written")
  <2>1. PICK i \in 1..service - 1 : s = Configured[i]
    BY DEF ConfigInv
  <2>2. s # Service /\ s \in ServiceSet
    BY <1>1, <2>1, ServicesAreKnown DEF Service
  <2>3. QED
    BY <2>2 DEF ConfigInv
<1>3. conf'[Service] = Now(state) /\ Service' = Service
  BY <1>1 DEF ConfigInv, Service
<1>4. \A x : Now(x)' = Now(x)
  BY DEF Now
<1>5. DOMAIN conf' = ServiceSet
  BY DEF ConfigInv
<1>6. QED
  BY <1>1, <1>2, <1>3, <1>4, <1>5 DEF ConfigInv

\* A step that leaves services and configurations alone keeps what is known of
\* them.
LEMMA ConfigStays ==
    ASSUME ConfigInv, UNCHANGED <<run, conf, service, making, started>>
    PROVE  ConfigInv'
BY DEF ConfigInv, Service, Now

\* Every step keeps what is known of the configurations.
LEMMA ConfigStep == ConfigInv /\ [HostNext]_hostVars => ConfigInv'
<1> SUFFICES ASSUME ConfigInv, [HostNext]_hostVars PROVE ConfigInv'
  OBVIOUS
<1>1. CASE SkipPlugin \/ PlacePlugin \/ OpenPlugin \/ CopyPlugin \/ BinaryMissing
  BY <1>1, ConfigStays
  DEF SkipPlugin, PlacePlugin, OpenPlugin, CopyPlugin, BinaryMissing, Fatal,
      vars, serviceVars
<1>2. CASE CredentialsNext
  <2>1. UNCHANGED run
    BY <1>2
    DEF CredentialsNext, Ensure, EnsurePKI, OpenKey, OpenPem, Open, WriteKey,
        WritePem, OpenFails, ApiServerFails, EnsureKubeconfig, WriteKubeconfig
  <2>2. QED
    BY <1>2, <2>1, ConfigStays DEF CredentialsNext, serviceVars
<1>3. CASE ControllerManagerFails
  BY <1>3, ConfigStays DEF ControllerManagerFails, Fatal, serviceVars
<1>4. CASE CreateConfig
  BY <1>4, ConfigStays, WritesOwnConfig DEF CreateConfig, Makes, Fatal, vars
<1>5. CASE ExecuteTemplate
  BY <1>5, ConfigStays, WritesOwnConfig DEF ExecuteTemplate, Makes, Fatal, vars
<1>6. CASE StartConfigured
  <2>1. /\ service \in 1..Len(Configured) /\ service' = service + 1
        /\ conf[Service] = Now("written") /\ making' = "create"
        /\ UNCHANGED <<run, conf>> /\ started' = started \cup {Service}
    BY <1>6, ServicesAreKnown DEF StartConfigured, Makes, ConfigInv, vars
  <2>2. Now("written")' = Now("written")
    BY <2>1 DEF Now
  <2>3. ASSUME NEW s \in started' PROVE \E i \in 1..service' - 1 : s = Configured[i]
    BY <2>1 DEF ConfigInv, Service
  <2>4. QED
    BY <2>1, <2>2, <2>3 DEF ConfigInv
<1>7. CASE HostKilled
  BY <1>7, ConfigStays DEF HostKilled, Killed, serviceVars
<1>8. CASE HostRestart
  BY <1>8, ServicesAreKnown DEF HostRestart, ConfigInv
<1>9. CASE UNCHANGED hostVars
  BY <1>9, ConfigStays DEF hostVars, vars, serviceVars
<1>10. QED
  BY <1>1, <1>2, <1>3, <1>4, <1>5, <1>6, <1>7, <1>8, <1>9 DEF HostNext

\* A service runs with the configuration that this run has made for it, for
\* any services, whatever earlier runs have left.
THEOREM ConfigurationIsFresh == HostSpec => []ConfiguredByThisRun
<1>1. ConfigInv => ConfiguredByThisRun
  BY DEF ConfigInv, ConfiguredByThisRun
<1>2. QED
  BY <1>1, ConfigInit, ConfigStep, PTL DEF HostSpec
=============================================================================
