--------------------------- MODULE TlsArtifacts ---------------------------
(***************************************************************************)
(* The four TLS files of the server (internal/server/security.go): the     *)
(* root certificate and its key, the server certificate and its key, how a *)
(* start of the server brings them up to date and how the -rotate-tls      *)
(* command replaces them, file by file.                                    *)
(*                                                                         *)
(* A key pair is a number.  The root certificate file holds the number of  *)
(* its pair, a key file the number of its pair, and the server certificate *)
(* names its own pair, the root pair that signed it and whether its        *)
(* validity period still runs.  A file may be missing, and a file written  *)
(* in place (os.WriteFile) is cut off when the process dies meanwhile.     *)
(***************************************************************************)
EXTENDS Naturals, Sequences

CONSTANTS Absent,   \* the file does not exist
          Torn      \* the file is cut off: no PEM block can be read from it

\* The names of the files, and the files of a new installation.
TlsFiles == {"rootCert", "rootKey", "cert", "key"}
NoArtifacts == [f \in TlsFiles |-> Absent]

FileExists(t, f) == t[f] # Absent
Readable(t, f) == t[f] \notin {Absent, Torn}

\* The pairs in use; a generated pair is one that nobody uses.
PairsIn(f, v) == IF f = "cert" THEN {v.pair, v.signer} ELSE {v}
PairsOf(t) == UNION {PairsIn(f, t[f]) : f \in {g \in TlsFiles : Readable(t, g)}}
FreshPair(used) == CHOOSE n \in 1 .. 32 : n \notin used /\ \A k \in 1 .. (n - 1) : k \in used

\* x509.CreateCertificate refuses a parent certificate that is not of the
\* signing key.
CanSign(root) == root.cert = root.key
GenerateServerCertificate(root, pair) == [pair |-> pair, signer |-> root.cert, live |-> TRUE]

\* The three outcomes of hasValidTLSArtifacts: an unreadable file is an error
\* and not a reason to write a new one.
HasValidTLSArtifacts(t) ==
    IF \E f \in {"cert", "key", "rootCert"} : ~FileExists(t, f) THEN "invalid"
    ELSE IF \E f \in {"cert", "key", "rootCert"} : t[f] = Torn THEN "error"
    ELSE IF t.cert.pair = t.key /\ t.cert.signer = t.rootCert /\ t.cert.live THEN "valid"
    ELSE "invalid"

\* A variant of RootIsReused: the root is made anew whenever the server certificate is.
RootNeverReused(t) == FALSE

\* loadOrCreateRootCA keeps the root when both of its files exist, and makes a
\* new one when either is missing.
RootIsReused(t) == FileExists(t, "rootCert") /\ FileExists(t, "rootKey")
RootIsReadable(t) == Readable(t, "rootCert") /\ Readable(t, "rootKey")

\* What ensureServerCertificate is going to write, as a sequence of file
\* writes; an error leaves the files alone.
Write(f, v) == [file |-> f, value |-> v]
ServerWrites(root, pair) ==
    <<Write("cert", GenerateServerCertificate(root, pair)), Write("key", pair)>>
EnsureServerCertificate(t, used) ==
    LET fresh == FreshPair(used)
        leaf == FreshPair(used \cup {fresh})
        kept == [cert |-> t.rootCert, key |-> t.rootKey]
        made == [cert |-> fresh, key |-> fresh]
    IN IF HasValidTLSArtifacts(t) = "error" THEN [ok |-> FALSE, writes |-> <<>>]
       ELSE IF HasValidTLSArtifacts(t) = "valid" THEN [ok |-> TRUE, writes |-> <<>>]
       ELSE IF ~RootIsReused(t)
            THEN [ok |-> TRUE,
                  writes |-> <<Write("rootCert", fresh), Write("rootKey", fresh)>>
                               \o ServerWrites(made, leaf)]
       ELSE IF RootIsReadable(t) /\ CanSign(kept)
            THEN [ok |-> TRUE, writes |-> ServerWrites(kept, fresh)]
       ELSE [ok |-> FALSE, writes |-> <<>>]

\* What RotateTLSArtifacts is going to write, after it has copied the files it
\* found to the archive directory.  Without a new root it needs a good old one.
RotateTLSArtifacts(t, newRoot, used) ==
    LET fresh == FreshPair(used)
        leaf == FreshPair(used \cup {fresh})
        kept == [cert |-> t.rootCert, key |-> t.rootKey]
        made == [cert |-> fresh, key |-> fresh]
    IN IF newRoot
       THEN [ok |-> TRUE,
             writes |-> <<Write("rootCert", fresh), Write("rootKey", fresh)>>
                          \o ServerWrites(made, leaf)]
       ELSE IF RootIsReadable(t) /\ CanSign(kept)
       THEN [ok |-> TRUE, writes |-> ServerWrites(kept, fresh)]
       ELSE [ok |-> FALSE, writes |-> <<>>]

\* One file write.  A start writes in place: the file is cut off first, whole
\* later.  A rotation writes a temporary file, removes the old file and
\* renames: the file is missing in between.
HalfWritten(t, w, inPlace) == [t EXCEPT ![w.file] = IF inPlace THEN Torn ELSE Absent]
Written(t, w) == [t EXCEPT ![w.file] = w.value]

\* credentials.NewServerTLSFromFile, which checks that the pair matches.
CanLoad(t) == Readable(t, "cert") /\ Readable(t, "key") /\ t.cert.pair = t.key
=============================================================================
