------------------------------- MODULE Isnet -------------------------------
(***************************************************************************)
(* The isnet authentication protocol: check_auth and what it calls         *)
(* (xLib/isnet_client.c) against the command handlers of the server        *)
(* (xLib/isnet_server.c).  One connection and one user; the server's main  *)
(* loop, which reads a command and calls its handler, is the embedding     *)
(* program's.  TCP may hand two answers of the server to one recv.         *)
(* Passwords, salts and keys are abstracted to whether they fit.           *)
(***************************************************************************)
EXTENDS Integers, Sequences

CONSTANTS
  Coalesce,   (* can one recv return several answers?                      *)
  ServerDies  (* can the server close the connection unasked?              *)

VARIABLES
  conf,  (* the arguments of check_auth and the server's configuration    *)
  cli,   (* the client: where check_auth is, its cipher and its modes     *)
  srv,   (* the server's global variables, and where it is                *)
  up,    (* commands under way to the server                              *)
  down,  (* answers under way to the client                               *)
  res,   (* what check_auth returned                                      *)
  late   (* history: has a wait timed out while something was under way?  *)

vars == <<conf, cli, srv, up, down, res, late>>

Conf == [ crypt  : BOOLEAN,   \* keyex and cryptm are given
          chmode : BOOLEAN, cont : BOOLEAN,
          hasDH  : BOOLEAN,   \* Base64_DHspki # NULL
          ldap   : BOOLEAN,   \* Use_isNet_Ldap
          user   : {"unknown", "star", "hashed", "newhash"},
          right  : BOOLEAN ]  \* is it the user's password?

Steps == {"HELLO", "DH", "DATA", "SPKI", "MPKI", "CRYPT", "MODE",
          "USERID", "SALT", "PASSWD", "RESET", "BYE"}

Client == [step : Steps, waiting : BOOLEAN, key : BOOLEAN, chmode : BOOLEAN, salt : BOOLEAN]
Server == [at : {"loop", "mpki", "gone", "reset"}, keyex : BOOLEAN, key : BOOLEAN, type : BOOLEAN,
           useCrypt : BOOLEAN, noChlng : BOOLEAN, user : BOOLEAN, accepted : BOOLEAN]

(* tcp_send_crypt_mesg and get_plain_sBuffer encode and decode when there   *)
(* are both a key and a cipher; the client gets and frees them together.    *)
CliEnc == cli.key
SrvEnc == srv.key /\ srv.type

Init == /\ conf \in Conf
        /\ cli = [step |-> "HELLO", waiting |-> FALSE, key |-> FALSE,
                  chmode |-> conf.chmode, salt |-> FALSE]
        /\ srv = [at |-> "loop", keyex |-> FALSE, key |-> FALSE, type |-> FALSE,
                  useCrypt |-> FALSE, noChlng |-> FALSE, user |-> FALSE, accepted |-> FALSE]
        /\ up = <<>> /\ down = <<>> /\ res = "none" /\ late = FALSE
-----------------------------------------------------------------------------
(* The server: a handler takes a command and answers. *)
Take(c) == /\ srv.at = "loop" /\ up # <<>> /\ Head(up).cmd = c /\ Head(up).enc = SrvEnc
           /\ up' = Tail(up)
           /\ UNCHANGED <<conf, cli, res, late>>

AnswerEnc(says, enc) == down' = down \o [i \in DOMAIN says |-> [say |-> says[i], enc |-> enc]]
Answer(says) == AnswerEnc(says, SrvEnc)

Hello == Take("HELLO") /\ Answer(<<"OK">>) /\ UNCHANGED srv

KeyexDH == /\ Take("DH")
           /\ IF conf.hasDH
              THEN Answer(<<"OK", "DATA">>) /\ srv' = [srv EXCEPT !.useCrypt = TRUE, !.keyex = TRUE]
              ELSE Answer(<<"ERR">>) /\ UNCHANGED srv

KeyexSPKI == Take("SPKI") /\ Answer(<<"OK">>) /\ srv' = [srv EXCEPT !.at = "mpki"]

(* The rest of KEYEX SPKI: the client's key comes, and the shared one is    *)
(* made.  Whatever else comes is taken for a key too, if it can be decoded; *)
(* if not the handler refuses, and leaves an empty key behind.              *)
RecvMPKI == /\ srv.at = "mpki" /\ up # <<>>
            /\ up' = Tail(up)
            /\ srv' = [srv EXCEPT !.at = "loop", !.key = TRUE]
            /\ \/ srv.keyex /\ AnswerEnc(<<"OK">>, srv.type)
               \/ /\ ~srv.keyex \/ Head(up).cmd # "MPKI" \/ Head(up).enc # SrvEnc
                  /\ AnswerEnc(<<"ERR">>, srv.type)
            /\ UNCHANGED <<conf, cli, res, late>>

KeyexChlng == /\ Take("CHLNG")
              /\ IF ~conf.ldap
                 THEN Answer(<<"OK">>) /\ srv' = [srv EXCEPT !.noChlng = FALSE]
                 ELSE Answer(<<"ERR">>) /\ UNCHANGED srv

KeyexNoChlngForgets ==  \* a slip: the mode is agreed on but not set
  /\ Take("NOCHLNG")
  /\ Answer(IF srv.useCrypt THEN <<"OK">> ELSE <<"ERR">>) /\ UNCHANGED srv

KeyexNoChlng == /\ Take("NOCHLNG")
                /\ IF srv.useCrypt
                   THEN Answer(<<"OK">>) /\ srv' = [srv EXCEPT !.noChlng = TRUE]
                   ELSE Answer(<<"ERR">>) /\ UNCHANGED srv

CryptNewAtOnce ==  \* a slip: the answer is already encoded with the new cipher
  /\ Take("CRYPT")
  /\ IF srv.key
     THEN AnswerEnc(<<"OK">>, TRUE) /\ srv' = [srv EXCEPT !.type = TRUE]
     ELSE AnswerEnc(<<"ERR">>, FALSE) /\ UNCHANGED srv

(* CRYPT AES128CBC or 3DES3CBC: the cipher changes behind the answer. *)
Crypt == /\ Take("CRYPT")
         /\ IF srv.key
            THEN Answer(<<"OK">>) /\ srv' = [srv EXCEPT !.type = TRUE]
            ELSE AnswerEnc(<<"ERR">>, FALSE) /\ UNCHANGED srv

(* CRYPT RESET: the key and the cipher stay. *)
CryptReset == /\ Take("RESET")
              /\ IF srv.key THEN Answer(<<"OK">>) ELSE AnswerEnc(<<"ERR">>, FALSE)
              /\ UNCHANGED srv

(* USERID, whose password entry may be "*" (kept by LDAP) or of a kind of   *)
(* hash the handler does not know.                                          *)
UserRefused == conf.user = "unknown" \/ (srv.noChlng /\ ~srv.useCrypt) \/ (~srv.noChlng /\ conf.ldap)

UserIDSaltAlways ==  \* a slip: the salt is sent though nobody waits for it
  /\ Take("USERID")
  /\ srv' = IF UserRefused THEN srv ELSE [srv EXCEPT !.user = TRUE]
  /\ Answer(IF UserRefused \/ conf.user = "newhash" THEN <<"ERR">> ELSE <<"OK", "DATA">>)

UserID == /\ Take("USERID")
          /\ srv' = IF UserRefused THEN srv ELSE [srv EXCEPT !.user = TRUE]
          /\ \/ UserRefused /\ Answer(<<"ERR">>)
             \/ ~UserRefused /\ conf.user = "star" /\ Answer(<<"OK">>)
             \/ ~UserRefused /\ conf.user = "star" /\ conf.ldap /\ Answer(<<"ERR">>)  \* the LDAP server
             \/ ~UserRefused /\ conf.user = "newhash" /\ Answer(<<"ERR">>)
             \/ /\ ~UserRefused /\ conf.user = "hashed"
                /\ Answer(IF srv.noChlng THEN <<"OK">> ELSE <<"OK", "DATA">>)

(* PASSWD with the password, or with its hash under the salt. *)
Matches == \/ conf.user = "star" /\ conf.ldap
           \/ conf.user = "hashed" /\ (IF srv.noChlng THEN Head(up).raw
                                                       ELSE ~Head(up).raw /\ Head(up).salted)

Passwd == /\ Take("PASSWD")
          /\ LET ok == srv.user /\ conf.right /\ Matches
             IN  /\ Answer(IF ok THEN <<"OK">> ELSE <<"ERR">>)
                 /\ srv' = [srv EXCEPT !.accepted = ok]

Bye == Take("BYE") /\ Answer(<<"OK">>) /\ UNCHANGED srv

(* What is no command, or cannot be decoded, is refused or passed over. *)
NoCommand == /\ srv.at = "loop" /\ up # <<>>
             /\ Head(up).cmd = "MPKI" \/ Head(up).enc # SrvEnc
             /\ up' = Tail(up)
             /\ Answer(<<"ERR">>) \/ UNCHANGED down
             /\ UNCHANGED <<conf, cli, srv, res, late>>

(* The connection goes down at the server's end. *)
Die == /\ ServerDies /\ srv.at \in {"loop", "mpki"}
       /\ srv' = [srv EXCEPT !.at = "gone"]
       /\ UNCHANGED <<conf, cli, up, down, res, late>>

Serve == \/ Hello \/ KeyexDH \/ KeyexSPKI \/ RecvMPKI \/ KeyexChlng \/ KeyexNoChlng
         \/ Crypt \/ CryptReset \/ UserID \/ Passwd \/ Bye \/ NoCommand
-----------------------------------------------------------------------------
(* The client.  send_command_recv_ans sends a command... *)
Command == IF cli.step # "MODE" THEN cli.step ELSE IF cli.chmode THEN "CHLNG" ELSE "NOCHLNG"

Send == /\ res = "none" /\ ~cli.waiting
        /\ up' = Append(up, [cmd |-> Command, enc |-> CliEnc,
                             raw |-> ~cli.chmode, salted |-> cli.salt])
        /\ cli' = [cli EXCEPT !.waiting = TRUE]
        /\ UNCHANGED <<conf, srv, down, res, late>>

(* ...and what the caller does next.  DATA and SALT are the calls of        *)
(* recv_mesg_until_end, which only wait.                                    *)
Goto(s) == cli' = [cli EXCEPT !.step = s, !.waiting = s \in {"DATA", "SALT"}] /\ UNCHANGED res
Finish(r) == cli' = [cli EXCEPT !.waiting = FALSE] /\ res' = r

Mode(key, crypt) == /\ cli' = [cli EXCEPT !.step = "MODE", !.waiting = FALSE, !.key = key,
                                          !.chmode = @ \/ ~crypt]
                    /\ UNCHANGED res

CryptFailed == IF conf.cont THEN Mode(FALSE, TRUE) ELSE Finish("AGREE_ERROR")

GoOnUnchecked(ok) ==  \* a slip: the answer to PASSWD is not looked at, nor any later one
  CASE cli.step = "HELLO"  -> IF ~ok THEN Finish("START_ERROR")
                              ELSE IF conf.crypt THEN Goto("DH") ELSE Mode(FALSE, FALSE)
    [] cli.step = "DH"     -> IF ok THEN Goto("DATA") ELSE CryptFailed
    [] cli.step = "DATA"   -> IF ok THEN Goto("SPKI") ELSE CryptFailed
    [] cli.step = "SPKI"   -> IF ok THEN Goto("MPKI") ELSE CryptFailed
    [] cli.step = "MPKI"   -> IF ok THEN Goto("CRYPT") ELSE CryptFailed
    [] cli.step = "CRYPT"  -> IF ok THEN Mode(TRUE, TRUE) ELSE CryptFailed
    [] cli.step = "MODE"   -> IF ok THEN Goto("USERID") ELSE Finish("CHALLENGE_ERROR")
    [] cli.step = "USERID" -> IF ~ok THEN Finish("USER_ERROR")
                              ELSE Goto(IF cli.chmode THEN "SALT" ELSE "PASSWD")
    [] cli.step = "SALT"   -> cli' = [cli EXCEPT !.step = "PASSWD", !.waiting = FALSE, !.salt = ok]
                              /\ UNCHANGED res
    [] OTHER               -> IF cli.step = "BYE" THEN Finish("OK") ELSE Goto("BYE")

GoOnWaits(ok) ==  \* a slip: the salt is waited for however often the wait times out
  IF cli.step = "SALT" /\ ~ok THEN UNCHANGED <<cli, res>> ELSE GoOnUnchecked(ok)

GoOn(ok) ==
  CASE cli.step = "HELLO"  -> IF ~ok THEN Finish("START_ERROR")
                              ELSE IF conf.crypt THEN Goto("DH") ELSE Mode(FALSE, FALSE)
    [] cli.step = "DH"     -> IF ok THEN Goto("DATA") ELSE CryptFailed
    [] cli.step = "DATA"   -> IF ok THEN Goto("SPKI") ELSE CryptFailed
    [] cli.step = "SPKI"   -> IF ok THEN Goto("MPKI") ELSE CryptFailed
    [] cli.step = "MPKI"   -> IF ok THEN Goto("CRYPT") ELSE CryptFailed
    [] cli.step = "CRYPT"  -> IF ok THEN Mode(TRUE, TRUE) ELSE CryptFailed
    [] cli.step = "MODE"   -> IF ok THEN Goto("USERID") ELSE Finish("CHALLENGE_ERROR")
    [] cli.step = "USERID" -> IF ~ok THEN Finish("USER_ERROR")
                              ELSE Goto(IF cli.chmode THEN "SALT" ELSE "PASSWD")
    [] cli.step = "SALT"   -> cli' = [cli EXCEPT !.step = "PASSWD", !.waiting = FALSE, !.salt = ok]
                              /\ UNCHANGED res
    [] cli.step = "PASSWD" -> IF ~ok THEN Finish("PASSWD_ERROR")
                              ELSE Goto(IF conf.crypt THEN "RESET" ELSE "BYE")
    [] cli.step = "RESET"  -> Goto("BYE")
    [] cli.step = "BYE"    -> Finish("OK")

(* recv_mesg_until_end of a text, that ends with END. *)
Texts == {"DATA", "SALT"}
IsText(a) == a.say = "DATA" /\ a.enc = CliEnc

(* recv returns n answers: the first one is looked at, the others are lost  *)
(* with the buffer.  Encoded ones may not even be decoded together.         *)
Receive(n) ==
  /\ cli.waiting /\ cli.step \notin Texts /\ n \in 1 .. Len(down) /\ (n = 1 \/ Coalesce)
  /\ down' = SubSeq(down, n + 1, Len(down))
  /\ \/ GoOn(Head(down).say = "OK" /\ Head(down).enc = CliEnc)
     \/ n > 1 /\ CliEnc /\ GoOn(FALSE)
  /\ UNCHANGED <<conf, srv, up, late>>

(* What comes before the text is taken for its first lines. *)
ReceiveText(n) ==
  /\ cli.waiting /\ cli.step \in Texts /\ n \in 1 .. Len(down)
  /\ \E i \in 1 .. n : IsText(down[i]) /\ (i = n \/ Coalesce)
  /\ down' = SubSeq(down, n + 1, Len(down))
  /\ \/ GoOn(IsText(Head(down)))
     \/ n > 1 /\ CliEnc /\ GoOn(FALSE)
  /\ UNCHANGED <<conf, srv, up, late>>

(* Nothing comes for tm seconds, or no text, though it may be under way.    *)
Timeout ==
  /\ cli.waiting /\ GoOn(FALSE)
  /\ \E k \in 0 .. Len(down) :
       /\ k > 0 => cli.step \in Texts /\ \A i \in 1 .. k : ~IsText(down[i])
       /\ down' = SubSeq(down, k + 1, Len(down))
  /\ late' = (late \/ up # <<>> \/ down' # <<>> \/ srv.at \in {"gone", "reset"})
  /\ UNCHANGED <<conf, srv, up>>

(* recv finds the connection closed: send_command_recv_ans returns its 0,   *)
(* recv_mesg_until_end an empty buffer.  What is sent then is answered by a *)
(* reset, and recv fails once that has come.                                *)
Closed == /\ cli.waiting /\ down = <<>> /\ srv.at = "gone"
          /\ GoOn(cli.step \notin Texts)
          /\ srv' = [srv EXCEPT !.at = "reset"]
          /\ UNCHANGED <<conf, up, down, late>>

Reset == /\ cli.waiting /\ srv.at = "reset"
         /\ GoOn(FALSE) \/ (cli.step \notin Texts /\ GoOn(TRUE))
         /\ UNCHANGED <<conf, srv, up, down, late>>

ReceiveSome == \E n \in 1 .. Len(down) : Receive(n) \/ ReceiveText(n)

Next == Serve \/ Die \/ Send \/ ReceiveSome \/ Timeout \/ Closed \/ Reset

(* The server handles what it is sent, the client's calls return. *)
Fairness == WF_vars(Serve) /\ WF_vars(Send) /\ WF_vars(ReceiveSome \/ Timeout \/ Closed \/ Reset)

Spec == Init /\ [][Next]_vars /\ Fairness
-----------------------------------------------------------------------------
(* With cont the client goes on behind a wait that timed out, and takes the *)
(* answer that comes late for that of the next command.                     *)
Misled == late /\ conf.cont

(* As long as the connection lasts, whatever is under way was encoded the   *)
(* way its reader will decode it: the two sides change to the cipher at the *)
(* same place of the conversation, also when the negotiation fails half-way *)
(* and the client goes on.                                                  *)
SameCipher == srv.at \in {"loop", "mpki"} /\ ~Misled =>
                /\ \A i \in DOMAIN up   : up[i].enc = SrvEnc
                /\ \A i \in DOMAIN down : down[i].enc = CliEnc

(* When a command is sent no older answer is under way, so an answer is     *)
(* never taken for that of another command.  Only the salt may come late.   *)
AnswersMatch ==
  up # <<>> /\ down # <<>> => Misled \/ (late /\ cli.step \in {"PASSWD", "RESET", "BYE"})

(* The two sides agree whether PASSWD carries the password or its hash, as  *)
(* long as the connection lasts.                                            *)
ModesAgree ==
  cli.step = "PASSWD" /\ srv.at = "loop" /\ ~Misled => (cli.chmode <=> ~srv.noChlng)

(* check_auth reports success only for a password the server accepted, as   *)
(* long as the connection lasts and however late answers come; unless they  *)
(* misled a client with cont, which has no cipher then.                     *)
SuccessIsAccepted ==
  res = "OK" /\ srv.at = "loop" => srv.accepted \/ (Misled /\ ~cli.key)

(* check_auth returns, whatever goes wrong. *)
Returns == <>(res # "none")

=============================================================================
