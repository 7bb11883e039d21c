---------------------------- MODULE Certificates ----------------------------
(***************************************************************************)
(* The certificate set of `esb init`: ensure_certs() in                    *)
(* tools/cli/core/cert.py on one directory.                                *)
(*                                                                         *)
(* Each half of ensure_certs() looks at what exists, and writes a key file *)
(* and then a certificate file.  open(.., "wb") empties a file before it   *)
(* is written.  The process can be interrupted between any two of these    *)
(* steps, and the developer may delete a file between two commands.        *)
(***************************************************************************)
EXTENDS Integers, Sequences, SequencesExt

CONSTANTS None, Empty

File == {"rootCA.key", "rootCA.crt", "server.key", "server.crt"}

VARIABLES files,    \* content: None, Empty, a key, or <<key, signing key>> of server.crt
          newer,    \* server.crt has a later mtime than rootCA.crt
          pending,  \* the writes that the running generate function has left
          certPc,   \* "none", "root", "server", "ok", "failed"
          torn      \* halves that an interruption left looking complete

certVars == <<files, newer, pending, certPc, torn>>

CertInit == /\ files = [f \in File |-> None]
            /\ newer = FALSE
            /\ pending = <<>>
            /\ certPc = "none"
            /\ torn = {}

Exists(f) == files[f] # None

\* A key that was never seen: each one gets the least free number.
Seen == {files["rootCA.key"], files["rootCA.crt"], files["server.key"]}
        \cup (IF files["server.crt"] \in {None, Empty} THEN {} ELSE Range(files["server.crt"]))
FreshKey == CHOOSE k \in 1..6 : k \notin Seen /\ \A j \in 1..(k - 1) : j \in Seen

RootComplete == Exists("rootCA.key") /\ Exists("rootCA.crt")
ServerPresent == Exists("server.key") /\ Exists("server.crt")
ServerComplete == Exists("server.key") /\ Exists("server.crt") /\ newer

----------------------------------------------------------------------------
(* ensure_certs() *)

UseRoot == /\ certPc = "root" /\ pending = <<>>
           /\ RootComplete
           /\ certPc' = "server"
           /\ UNCHANGED <<files, newer, pending, torn>>

GenerateRoot ==
  /\ certPc = "root" /\ pending = <<>>
  /\ ~RootComplete
  /\ pending' = << <<"rootCA.key", FreshKey>>, <<"rootCA.crt", FreshKey>> >>
  /\ UNCHANGED <<files, newer, certPc, torn>>

UseServer == /\ certPc = "server" /\ pending = <<>>
             /\ ServerComplete
             /\ certPc' = "ok"
             /\ UNCHANGED <<files, newer, pending, torn>>

\* Loading an empty PEM file raises, now and in every later run.
GenerateServer ==
  /\ certPc = "server" /\ pending = <<>>
  /\ ~ServerComplete
  /\ IF Empty \in {files["rootCA.key"], files["rootCA.crt"]}
     THEN certPc' = "failed" /\ UNCHANGED pending
     ELSE /\ pending' = << <<"server.key", FreshKey>>,
                           <<"server.crt", <<FreshKey, files["rootCA.key"]>> >> >>
          /\ UNCHANGED certPc
  /\ UNCHANGED <<files, newer, torn>>

\* newer, once f has been written to.
Touch(f) == CASE f = "server.crt" -> TRUE
              [] f = "rootCA.crt" -> FALSE
              [] OTHER -> newer

\* open(file, "wb")
OpenFile ==
  /\ pending # <<>>
  /\ LET f == Head(pending)[1] IN
       /\ files[f] # Empty
       /\ files' = [files EXCEPT ![f] = Empty]
       /\ newer' = Touch(f)
  /\ UNCHANGED <<pending, certPc, torn>>

WriteFile ==
  /\ pending # <<>>
  /\ files[Head(pending)[1]] = Empty
  /\ files' = [files EXCEPT ![Head(pending)[1]] = Head(pending)[2]]
  /\ newer' = Touch(Head(pending)[1])
  /\ pending' = Tail(pending)
  /\ certPc' = IF Len(pending) > 1 THEN certPc
               ELSE IF certPc = "root" THEN "server" ELSE "ok"
  /\ torn' = IF Len(pending) > 1 THEN torn
             ELSE IF certPc = "root" THEN {} ELSE torn \ {"server"}

----------------------------------------------------------------------------
(* The end of init, and disturbances *)

\* install_root_ca() is run and may fail, or the certificates could not be made:
\* init only prints a warning.
InitEnds == /\ certPc \in {"ok", "failed"}
            /\ certPc' = "none"
            /\ UNCHANGED <<files, newer, pending, torn>>

\* Ctrl-C, a full disk, a killed process.
CertInterrupt ==
  /\ certPc # "none"
  /\ certPc' = "none"
  /\ pending' = <<>>
  /\ torn' = IF pending # <<>> /\ IF certPc = "root" THEN RootComplete ELSE ServerComplete
             THEN torn \cup {certPc} ELSE torn
  /\ UNCHANGED <<files, newer>>

DeleteFile(f) == /\ certPc = "none"
                 /\ Exists(f)
                 /\ files' = [files EXCEPT ![f] = None]
                 /\ newer' = (newer /\ f # "server.crt")
                 /\ UNCHANGED <<pending, certPc, torn>>

CertStep == UseRoot \/ GenerateRoot \/ UseServer \/ GenerateServer
            \/ OpenFile \/ WriteFile \/ InitEnds
=============================================================================
