---------------------------- MODULE Credentials ----------------------------
(***************************************************************************)
(* The credentials that microkubed keeps on disk over its restarts:        *)
(* CreateOrLoadCertificates (pkg/pki/MicrokubeCredentials.go), the files   *)
(* CertManager writes (pkg/pki/CertManager.go) and the kubeconfig of       *)
(* startKubeAPIServer (Microkubed.go:209-221), which embeds some of them.  *)
(*                                                                         *)
(* One action per write to the disk, so that the daemon can be killed      *)
(* between any two; systemd starts it again.  A certificate is known by    *)
(* the run of the daemon that made it: a run makes each certificate at     *)
(* most once, and signs with the CA that it has made itself.               *)
(***************************************************************************)
EXTENDS Integers, Sequences

CONSTANTS
    Dirs,       \* the directories, in the order they are gone through
    Certs,      \* Certs[d]: the names of the certificates in d, in the order
                \* they are made; the first one is also the file looked for
    KubeDir,    \* the directory whose certificates the kubeconfig embeds
    DiskFaults, \* TRUE: a write may fail (the error of pem.Encode is dropped)
    MaxRuns     \* bound: starts of the daemon

ASSUME CredentialConstants ==
    /\ Dirs \in Seq(STRING)
    /\ \E i \in 1..Len(Dirs) : Dirs[i] = KubeDir
    /\ \A k \in 1..Len(Dirs) :
          /\ Certs[Dirs[k]] \in Seq(STRING) \ {<<>>}
          /\ \A i, j \in 1..Len(Certs[Dirs[k]]) :
                Certs[Dirs[k]][i] = Certs[Dirs[k]][j] => i = j
    /\ DiskFaults \in BOOLEAN
    /\ MaxRuns \in Nat \ {0}

VARIABLES
    disk,      \* what each certificate and key file holds
    config,    \* what the kubeconfig holds
    run,       \* number of the current run of the daemon
    pc,        \* what the daemon is doing
    dir,       \* index in Dirs
    cert,      \* index in Certs of the directory
    torn       \* directories the daemon was killed in after the file it looks
               \* for had been created

vars == <<disk, config, run, pc, dir, cert, torn>>

DirSet    == {Dirs[i] : i \in 1..Len(Dirs)}
CertsOf(d) == {Certs[d][i] : i \in 1..Len(Certs[d])}
Files     == {<<d, c, kind>> : d \in DirSet, c \in UNION {CertsOf(e) : e \in DirSet},
                               kind \in {"key", "pem"}}

\* An empty file has been created and not been written yet; a broken one is
\* what a write that failed has left, which looks no different to the daemon.
Contents  == [state : {"absent", "empty", "written", "broken"}, run : 0..MaxRuns]
Places    == {"stat", "openKey", "writeKey", "openPem", "writePem",
              "statConfig", "writeConfig", "ready", "down"}

Absent == [state |-> "absent", run |-> 0]
Now(state) == [state |-> state, run |-> run]

TypeOK ==
    /\ disk \in [Files -> Contents]
    /\ config \in Contents
    /\ run \in 1..MaxRuns
    /\ pc \in Places
    /\ dir \in 1..Len(Dirs)
    /\ cert \in Nat
    /\ torn \subseteq DirSet

Init ==
    /\ disk = [f \in Files |-> Absent]
    /\ config = Absent
    /\ run = 1
    /\ pc = "stat" /\ dir = 1 /\ cert = 1
    /\ torn = {}

-----------------------------------------------------------------------------
Here          == Dirs[dir]
File(kind)    == <<Here, Certs[Here][cert], kind>>
Sought(d)     == <<d, Certs[d][1], "pem">>

Written(d, c, kind) == disk[<<d, c, kind>>].state = "written"
Complete(d) == \A c \in CertsOf(d) : Written(d, c, "key") /\ Written(d, c, "pem")

\* CreateOrLoadCertificates has returned without an error.
Loaded == pc \in {"statConfig", "writeConfig", "ready"}

\* The next directory, or the kubeconfig after the last one.
NextDir ==
    /\ cert' = 1
    /\ IF dir < Len(Dirs) THEN dir' = dir + 1 /\ pc' = "stat"
                          ELSE dir' = dir /\ pc' = "statConfig"

\* Mutant: the key is what is looked for.
EnsurePKIByKey ==
    /\ pc = "stat"
    /\ IF disk[<<Here, Certs[Here][1], "key">>].state = "absent"
         THEN pc' = "openKey" /\ UNCHANGED <<dir, cert>>
         ELSE NextDir
    /\ UNCHANGED <<disk, config, run, torn>>

\* Mutant: everything is made anew by every run.
EnsurePKIAnew ==
    /\ pc = "stat"
    /\ pc' = "openKey"
    /\ UNCHANGED <<disk, config, run, torn, dir, cert>>

\* ensureFullPKI, ensureCA, ensureSigningCert: os.Stat of one file decides
\* whether the whole directory exists.
EnsurePKI ==
    /\ pc = "stat"
    /\ IF disk[Sought(Here)].state = "absent"
         THEN pc' = "openKey" /\ UNCHANGED <<dir, cert>>
         ELSE NextDir
    /\ UNCHANGED <<disk, config, run, torn>>

\* writeCertToFiles: OpenFile creates or truncates the file.
Open(kind, at, next) ==
    /\ pc = at
    /\ disk' = [disk EXCEPT ![File(kind)] = Now("empty")]
    /\ pc' = next
    /\ UNCHANGED <<config, run, dir, cert, torn>>

OpenKey == Open("key", "openKey", "writeKey")
OpenPem == Open("pem", "openPem", "writePem")

\* An error of OpenFile, of the key generation or of the signature is returned
\* and fatal to the daemon.
OpenFails ==
    /\ DiskFaults
    /\ pc \in {"openKey", "openPem"}
    /\ pc' = "down"
    /\ torn' = IF disk[Sought(Here)].state # "absent" THEN torn \cup {Here}
                                                      ELSE torn
    /\ UNCHANGED <<disk, config, run, dir, cert>>

\* pem.Encode, whose error nobody looks at.
Encode(kind) ==
    \/ disk' = [disk EXCEPT ![File(kind)] = Now("written")]
    \/ DiskFaults /\ disk' = [disk EXCEPT ![File(kind)] = Now("broken")]

WriteKey ==
    /\ pc = "writeKey"
    /\ Encode("key")
    /\ pc' = "openPem"
    /\ UNCHANGED <<config, run, dir, cert, torn>>

\* After the certificate comes the next one of the directory.
WritePem ==
    /\ pc = "writePem"
    /\ Encode("pem")
    /\ IF cert < Len(Certs[Here])
         THEN cert' = cert + 1 /\ pc' = "openKey" /\ UNCHANGED dir
         ELSE NextDir
    /\ UNCHANGED <<config, run, torn>>

\* Without its certificates kube-apiserver does not get healthy, which is fatal.
ApiServerFails ==
    /\ pc = "statConfig"
    /\ ~Complete(KubeDir)
    /\ pc' = "down"
    /\ UNCHANGED <<disk, config, run, dir, cert, torn>>

\* startKubeAPIServer: the kubeconfig is created unless there is one.
EnsureKubeconfig ==
    /\ pc = "statConfig"
    /\ Complete(KubeDir)
    /\ IF config.state = "absent"
         THEN pc' = "writeConfig" /\ config' = Now("empty")
         ELSE pc' = "ready" /\ UNCHANGED config
    /\ UNCHANGED <<disk, run, dir, cert, torn>>

\* The template is executed into the file.
WriteKubeconfig ==
    /\ pc = "writeConfig"
    /\ config' = Now("written")
    /\ pc' = "ready"
    /\ UNCHANGED <<disk, run, dir, cert, torn>>

\* The daemon is killed (SIGKILL, power), or just stopped once it is up.
Killed ==
    /\ pc # "down"
    /\ pc' = "down"
    /\ torn' = IF pc \in {"openKey", "writeKey", "openPem", "writePem"}
                  /\ disk[Sought(Here)].state # "absent"
                 THEN torn \cup {Here} ELSE torn
    /\ UNCHANGED <<disk, config, run, dir, cert>>

Restart ==
    /\ pc = "down"
    /\ run < MaxRuns
    /\ run' = run + 1
    /\ pc' = "stat" /\ dir' = 1 /\ cert' = 1
    /\ UNCHANGED <<disk, config, torn>>

\* What a start does about the credentials.
Ensure ==
    \/ EnsurePKI
    \/ OpenKey \/ WriteKey \/ OpenPem \/ WritePem
    \/ OpenFails
    \/ ApiServerFails \/ EnsureKubeconfig \/ WriteKubeconfig

Next == Ensure \/ Killed \/ Restart

Spec == Init /\ [][Next]_vars

-----------------------------------------------------------------------------
(* Properties.                                                             *)

\* A certificate on disk belongs to the key next to it, when that could be
\* written, and was issued by the CA of its directory, wherever the daemon was
\* killed before (CertManager.go:80-112, MicrokubeCredentials.go:82-110).
CertificatesMatch ==
    \A d \in DirSet : \A c \in CertsOf(d) :
        Written(d, c, "pem") =>
            /\ Written(d, c, "key") =>
                  disk[<<d, c, "key">>].run = disk[<<d, c, "pem">>].run
            /\ Written(d, Certs[d][1], "pem") =>
                  disk[Sought(d)].run = disk[<<d, c, "pem">>].run

\* Two kinds of damage outlive a restart: the daemon has ended in a directory
\* after the file that is looked for had been created, or the write of a file
\* has failed and its error was dropped (CertManager.go:88, 99).  In any other
\* directory every file is found or made, and every file whose write has not
\* failed is complete (MicrokubeCredentials.go:70-180).
RepairedUnlessTornOrBroken ==
    Loaded => \A d \in DirSet \ torn : \A c \in CertsOf(d) :
        \A kind \in {"key", "pem"} :
            disk[<<d, c, kind>>].state \in {"written", "broken"}

\* What clients have been given stays valid: a CA or signing certificate that
\* is complete on disk is never replaced.
CANeverReplaced ==
    [][\A d \in DirSet :
          disk[Sought(d)].state = "written" => disk'[Sought(d)] = disk[Sought(d)]]_vars

=============================================================================
