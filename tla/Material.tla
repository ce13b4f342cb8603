------------------------------ MODULE Material ------------------------------
(***************************************************************************)
(* The checks on the files a start depends on: the certificate and key of  *)
(* the TLS listener (tls.rs) and the executable, known hosts and identity  *)
(* of an SSH target (ssh.rs), as predicates on a file.                     *)
(*                                                                         *)
(* A file is [type, size, uid, gid, mode, content]; mode is the set of its *)
(* permission bits ("gw" is group write), content what the role that reads *)
(* it looks at.                                                            *)
(***************************************************************************)
EXTENDS Integers, Sequences, SequencesExt

GroupOrOtherWrite == {"gw", "ow"}                            \* 0o022
GroupOrOther == {"gr", "gw", "gx", "or", "ow", "ox"}         \* 0o077

MaxBytes(role) ==
    CASE role = "certificate" -> 1024 * 1024
      [] role = "private_key" -> 256 * 1024
      [] role = "executable"  -> 16 * 1024 * 1024
      [] role = "known_hosts" -> 4 * 1024 * 1024
      [] role = "identity"    -> 1024 * 1024

\* The daemon may execute the file: as its owner, as anyone, or by its group.
executable_by_daemon(file) ==
    IF file.uid = "daemon" THEN "ux" \in file.mode
    ELSE "ox" \in file.mode \/ ("gx" \in file.mode /\ file.gid = "daemon")

\* ssh::validate_metadata.
SshMetadata(role, file) ==
    /\ file.type = "file"
    /\ file.size \in 1 .. MaxBytes(role)
    /\ CASE role = "executable" -> /\ file.uid \in {"root", "daemon"}
                                   /\ file.mode \cap GroupOrOtherWrite = {}
                                   /\ executable_by_daemon(file)
         [] role = "known_hosts" -> file.uid = "daemon" /\ file.mode \cap GroupOrOtherWrite = {}
         [] role = "identity" -> file.uid = "daemon" /\ file.mode \cap GroupOrOther = {}

\* tls::validate_metadata.
TlsMetadata(role, file) ==
    /\ file.type = "file"
    /\ file.size \in 1 .. MaxBytes(role)
    /\ role = "private_key" => file.mode \cap GroupOrOther = {}

validate_known_hosts(content) == content.newline /\ ~ content.nul

canonical_padding(padding) ==
    Len(padding) \in 1 .. 8 /\ \A i \in DOMAIN padding : padding[i] = i

\* One unencrypted Ed25519 key in an OpenSSH envelope, read field by field;
\* "complete" says that every length prefix fits in what remains.
validate_ssh_identity(content) ==
    /\ content.newline /\ ~ content.nul
    /\ content.armour /\ content.body = "base64"
    /\ content.magic /\ content.complete
    /\ content.cipher = "none" /\ content.kdf = "none" /\ content.kdf_options = 0
    /\ content.keys = 1
    /\ content.private.len % 8 = 0 /\ content.trailing = 0
    /\ content.public.type = "ssh-ed25519" /\ content.public.key.len = 32
    /\ content.public.trailing = 0
    /\ content.private.check[1] = content.private.check[2]
    /\ content.private.type = "ssh-ed25519"
    /\ content.private.public.len = 32
    /\ content.private.key.len = 64
    /\ content.private.key.second_half = content.private.public
    /\ content.private.public = content.public.key
    /\ content.private.comment <= 1024
    /\ canonical_padding(content.private.padding)

\* What the bytes of a role must look like besides their size.
Validated(role, content) ==
    CASE role = "executable" -> TRUE
      [] role = "known_hosts" -> validate_known_hosts(content)
      [] role = "identity" -> validate_ssh_identity(content)

-----------------------------------------------------------------------------
(* PEM.                                                                     *)

\* has_only_pem_sections: nothing between sections of the allowed labels.  A line
\* is [is, label], where is = "begin", "end", "blank", "dashes" or "other".
has_only_pem_sections(lines, allowed) ==
    LET Step(scan, line) ==
            CASE line.is = "blank" \/ scan.bad -> scan
              [] scan.label = "" ->
                    IF line.is = "begin" /\ line.label \in allowed
                    THEN [scan EXCEPT !.label = line.label]
                    ELSE [scan EXCEPT !.bad = TRUE]
              [] OTHER ->
                    IF line.is = "end" /\ line.label = scan.label
                    THEN [scan EXCEPT !.label = "", !.sections = @ + 1]
                    ELSE [scan EXCEPT !.bad = line.is # "other"]
        last == FoldLeft(Step, [label |-> "", sections |-> 0, bad |-> FALSE], lines)
    IN  ~ last.bad /\ last.label = "" /\ last.sections > 0

KeyLabels == {"PRIVATE KEY", "RSA PRIVATE KEY", "EC PRIVATE KEY"}

\* load_with_hook, once both files are read: the error, or "none".  "items" are
\* the sections in order, each decodable or not; rustls compares the two halves.
TlsPairError(certificate, private_key) ==
    IF \/ ~ has_only_pem_sections(certificate.lines, {"CERTIFICATE"})
       \/ \E i \in DOMAIN certificate.items : ~ certificate.items[i]
       \/ certificate.items = <<>>
    THEN "CertificateMalformed"
    ELSE IF \/ ~ has_only_pem_sections(private_key.lines, KeyLabels)
            \/ Len(private_key.items) # 1
            \/ ~ private_key.items[1]
    THEN "PrivateKeyMalformed"
    ELSE IF certificate.pair # private_key.pair THEN "KeyMismatch"
    ELSE "none"

-----------------------------------------------------------------------------
(* The capability probe: ssh -G with the strict options.                    *)

YesOptions == {"batchmode", "clearallforwardings", "identitiesonly", "checkhostip",
               "pubkeyauthentication", "stricthostkeychecking"}
NoOptions == {"passwordauthentication", "kbdinteractiveauthentication", "updatehostkeys",
              "addkeystoagent", "hostbasedauthentication", "gssapiauthentication",
              "forwardagent", "forwardx11", "forwardx11trusted", "permitlocalcommand",
              "enableescapecommandline", "canonicalizehostname"}
NoneOptions == {"identityagent", "escapechar"}
NullOptions == {"identityfile", "certificatefile", "userknownhostsfile",
                "globalknownhostsfile"}
RequiredOptions == YesOptions \cup NoOptions \cup NoneOptions \cup NullOptions
                   \cup {"preferredauthentications", "requesttty"}

Allowed(option) ==
    CASE option \in YesOptions -> {"yes", "true"}
      [] option \in NoOptions -> {"no", "false"}
      [] option \in NoneOptions -> {"none"}
      [] option \in NullOptions -> {"/dev/null"}
      [] option = "preferredauthentications" -> {"publickey"}
      [] option = "requesttty" -> {"force"}

\* parse_probe_output: a line is [key, value]; every value present, no key twice.
parse_probe_output(output) ==
    /\ \A i \in DOMAIN output : output[i].value # ""
    /\ \A i, j \in DOMAIN output : output[i].key = output[j].key => i = j

\* What probe_capabilities asks of an answer that came in time.
Capable(answer) ==
    /\ answer.bytes <= 64 * 1024
    /\ answer.success
    /\ parse_probe_output(answer.output)
    /\ \A option \in RequiredOptions :
          \E i \in DOMAIN answer.output : /\ answer.output[i].key = option
                                          /\ answer.output[i].value \in Allowed(option)
    /\ \A i \in DOMAIN answer.output : answer.output[i].key \notin {"proxycommand", "proxyjump"}
=============================================================================
