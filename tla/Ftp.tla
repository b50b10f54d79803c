--------------------------------- MODULE Ftp ---------------------------------
(***************************************************************************)
(* The FTP service: the command handler (nettrap-proto-ftp), the data      *)
(* connections of listeners/tcp_ftp.rs, and the way the frame loop writes  *)
(* their replies.  Control connections run concurrently; they share one    *)
(* semaphore of data transfers and one range of passive ports.             *)
(*                                                                         *)
(* A command is [verb, arg]: arg is "none", "word", "spaces" (several      *)
(* words), "number", "bad" (a control character or stray blank), a path    *)
(* ("file", "large", "absent" without and "default" with a stub for its    *)
(* extension, "denied", "unsafe") or a data address ("own", "other").      *)
(***************************************************************************)
EXTENDS Naturals, Sequences, FiniteSets

CONSTANTS Clients, Commands, MaxReads,
          MaxBatch,                    \* commands that may arrive in one read
          HasRoot,                     \* ftproot is configured
          PassivePorts, MAX_FTP_PASSIVE_TRANSFERS

ASSUME FtpAssumption ==
    /\ IsFiniteSet(Clients) /\ MAX_FTP_PASSIVE_TRANSFERS \in Nat
    /\ 0 \notin PassivePorts
    /\ MaxReads \in Nat /\ MaxBatch \in Nat /\ HasRoot \in BOOLEAN

VARIABLES conn,      \* conn[c]: "open" or "closed"
          reads,     \* how many reads have returned commands
          queue,     \* the commands of the last read not handled yet
          resp,      \* the response collected since the last read
          passive,   \* FtpPassiveState: [listener, permit, active]
          busy,      \* the transfer under way: "none", "passive" or "active"
          permits,   \* the semaphore
          asked,     \* all the commands, in order (history)
          written    \* all the replies written, in order
ftpVars == <<conn, reads, queue, resp, passive, busy, permits, asked, written>>

NoData == [listener |-> 0, permit |-> FALSE, active |-> FALSE]
Reply(code, i) == [code |-> code, of |-> i]    \* of: which command it answers
Idle(c) == conn[c] = "open" /\ busy[c] = "none"

FtpInit == /\ conn = [c \in Clients |-> "open"]
           /\ reads = [c \in Clients |-> 0]
           /\ queue = [c \in Clients |-> <<>>]
           /\ resp = [c \in Clients |-> <<>>]
           /\ passive = [c \in Clients |-> NoData]
           /\ busy = [c \in Clients |-> "none"]
           /\ permits = MAX_FTP_PASSIVE_TRANSFERS
           /\ asked = [c \in Clients |-> <<>>]
           /\ written = [c \in Clients |-> <<>>]

------------------------------------------------------------------------------
(* Arguments.                                                              *)
Paths == {"file", "large", "absent", "default", "denied", "word", "number"}
ftp_command_has_args(k) == k.arg # "none"
required_arg(k, code)   == IF k.arg = "none" THEN 501 ELSE IF k.arg = "bad" THEN 501 ELSE code
has_path_traversal(k)   == k.arg \in {"unsafe", "bad"}
required_safe_path_arg(k, code) ==
    IF k.arg = "none" THEN 501 ELSE IF has_path_traversal(k) THEN 550 ELSE code
no_args(k, code) == IF ftp_command_has_args(k) THEN 501 ELSE code
type_response(k) == CASE k.arg = "none" -> 504 [] k.arg = "bad" -> 501
                      [] k.arg = "word" -> 200 [] OTHER -> 504
parse_ftp_data_addr(k)    == k.arg \in {"own", "other"}
validate_active_target(k) == k.arg = "own"
default_file_for_extension(k) == k.arg = "default"

(* FtpHandler::handle: one reply for every verb.                           *)
session_verbs(k) ==
    CASE k.verb \in {"USER", "PASS"} ->
            IF k.arg \in {"none", "bad", "spaces"} THEN 501 ELSE IF k.verb = "USER" THEN 331 ELSE 230
      [] k.verb = "PWD"               -> no_args(k, 257)
      [] k.verb = "TYPE"              -> type_response(k)
service_verbs(k) ==
    CASE k.verb = "SYST" -> no_args(k, 215)
      [] k.verb = "HOST" -> required_arg(k, IF k.arg = "number" THEN 504 ELSE 220)
      [] k.verb = "ACCT" -> IF k.arg \in {"none", "bad", "spaces"} THEN 501 ELSE 230
      [] k.verb = "REIN" -> no_args(k, 220)
      [] k.verb = "SMNT" -> required_arg(k, IF k.arg = "spaces" THEN 501 ELSE 502)
      [] k.verb = "FEAT" -> no_args(k, 211)
      [] k.verb = "OPTS" -> required_arg(k, IF k.arg = "word" THEN 200 ELSE 501)
size_response_from_metadata(k) == IF HasRoot /\ k.arg \in {"absent", "denied"} THEN 550 ELSE 213
transfer_parameter_verbs(k) ==
    CASE k.verb = "SIZE"             -> required_safe_path_arg(k, size_response_from_metadata(k))
      [] k.verb = "REST"             -> required_arg(k, IF k.arg = "number" THEN 350 ELSE 501)
      [] k.verb = "ALLO"             -> required_arg(k, IF k.arg = "number" THEN 202 ELSE 501)
      [] k.verb \in {"MODE", "STRU"} -> required_arg(k, IF k.arg = "word" THEN 200
                                                        ELSE IF k.arg = "spaces" THEN 501 ELSE 504)
      [] k.verb = "MDTM"             -> required_safe_path_arg(k, 213)
directory_verbs(k) ==
    CASE k.verb \in {"CWD", "RMD", "DELE", "RNTO"} -> required_safe_path_arg(k, 250)
      [] k.verb = "CDUP" -> no_args(k, 250)
      [] k.verb = "MKD"  -> required_safe_path_arg(k, 257)
      [] k.verb = "RNFR" -> required_safe_path_arg(k, 350)
      [] k.verb = "NOOP" -> no_args(k, 200)
      [] k.verb = "HELP" -> no_args(k, 214)
      [] k.verb = "STAT" -> no_args(k, 211)
      [] k.verb = "ABOR" -> no_args(k, 226)
      [] k.verb = "QUIT" -> no_args(k, 221)
      [] OTHER           -> 502
FtpHandle(k) ==
    CASE k.verb \in {"USER", "PASS", "PWD", "TYPE"} -> session_verbs(k)
      [] k.verb \in {"SYST", "HOST", "ACCT", "REIN", "SMNT", "FEAT", "OPTS"} -> service_verbs(k)
      [] k.verb \in {"SIZE", "REST", "ALLO", "MODE", "STRU", "MDTM"} -> transfer_parameter_verbs(k)
      [] OTHER -> directory_verbs(k)

(* What RETR finds beneath the root: 150 when there is something to send.  *)
prepare_retr_transfer(k) ==
    IF HasRoot
    THEN CASE k.arg \in {"file", "word", "number"} -> 150
           [] k.arg = "large"                      -> 552
           [] OTHER -> IF default_file_for_extension(k) THEN 150 ELSE 550
    ELSE IF default_file_for_extension(k) THEN 150 ELSE 550
list_entries(k) == IF HasRoot /\ k.arg \in {"absent", "denied"} THEN 550 ELSE 150
prepare_data_transfer(k) ==
    CASE k.verb \in {"LIST", "NLST"} -> IF has_path_traversal(k) THEN 550 ELSE list_entries(k)
      [] k.verb = "RETR"             -> required_safe_path_arg(k, prepare_retr_transfer(k))
      [] k.verb \in {"STOR", "APPE"} -> required_safe_path_arg(k, 150)

------------------------------------------------------------------------------
Cleared(d) == NoData                                  \* FtpPassiveState::clear
Released_never(d) == 0                                \* mutant: a closed socket keeps its permit
Released(d) == IF d.permit THEN 1 ELSE 0

(* The ports no listener is bound to.                                      *)
Bindable(dd) == PassivePorts \ {dd[c].listener : c \in Clients}

(* PASV and EPSV: the old data socket is closed first, then a permit and   *)
(* a port are taken.                                                       *)
open_ftp_passive_data_socket(c, i) ==
    LET left == permits + Released(passive[c])
        cleared == [passive EXCEPT ![c] = Cleared(@)]
    IN  /\ IF left = 0
           THEN /\ passive' = cleared /\ permits' = left
                /\ resp' = [resp EXCEPT ![c] = Append(@, Reply(425, i))]
           ELSE IF Bindable(cleared) = {}
           THEN /\ passive' = cleared /\ permits' = left
                /\ resp' = [resp EXCEPT ![c] = Append(@, Reply(425, i))]
           ELSE \E p \in Bindable(cleared) :
                  /\ passive' = [passive EXCEPT ![c] = [listener |-> p, permit |-> TRUE, active |-> FALSE]]
                  /\ permits' = left - 1
                  /\ resp' = [resp EXCEPT ![c] = Append(@, Reply(227, i))]
        /\ UNCHANGED <<conn, busy, written>>

(* Mutant: a new active address keeps the passive socket.                  *)
set_active_address_both(c, k, i) ==
    LET ok == parse_ftp_data_addr(k) /\ validate_active_target(k)
    IN  /\ passive' = [passive EXCEPT ![c].active = ok]
        /\ resp' = [resp EXCEPT ![c] = Append(@, Reply(IF ok THEN 200 ELSE 501, i))]
        /\ UNCHANGED <<conn, permits, busy, written>>

(* PORT and EPRT: an address that is refused forgets the old one, and      *)
(* leaves a passive socket open.                                           *)
set_active_address(c, k, i) ==
    LET ok == parse_ftp_data_addr(k) /\ validate_active_target(k)
    IN  /\ passive' = [passive EXCEPT ![c] = IF ok THEN [Cleared(@) EXCEPT !.active = TRUE]
                                        ELSE [@ EXCEPT !.active = FALSE]]
        /\ permits' = IF ok THEN permits + Released(passive[c]) ELSE permits
        /\ resp' = [resp EXCEPT ![c] = Append(@, Reply(IF ok THEN 200 ELSE 501, i))]
        /\ UNCHANGED <<conn, busy, written>>

(* A data command takes what PASV or PORT left; 150 of a passive transfer  *)
(* is written at once, before what the read has collected so far.  The     *)
(* write of 150 may fail, which ends the connection.                       *)
start_transfer(c, k, i, ok) ==
    LET d    == passive[c]
        code == prepare_data_transfer(k)
        left == permits + Released(d)
        refuse(n) == /\ resp' = [resp EXCEPT ![c] = Append(@, Reply(n, i))]
                     /\ permits' = left
                     /\ UNCHANGED <<conn, busy, written>>
    IN  /\ passive' = [passive EXCEPT ![c] = NoData]
        /\ CASE code # 150 -> refuse(code)
             [] code = 150 /\ d.listener # 0 ->
                  IF ok THEN /\ written' = [written EXCEPT ![c] = Append(@, Reply(150, i))]
                             /\ busy' = [busy EXCEPT ![c] = "passive"]
                             /\ UNCHANGED <<conn, resp, permits>>
                  ELSE /\ conn' = [conn EXCEPT ![c] = "closed"]
                       /\ permits' = left
                       /\ UNCHANGED <<busy, resp, written>>
             [] code = 150 /\ d.listener = 0 /\ d.active ->
                  IF permits = 0 THEN refuse(425)
                  ELSE /\ permits' = permits - 1
                       /\ busy' = [busy EXCEPT ![c] = "active"]
                       /\ UNCHANGED <<conn, resp, written>>
             [] OTHER -> refuse(425)

(* prepare_ftp_command on the next command of the read.                    *)
HandleCommand(c) ==
    LET k == Head(queue[c])
        i == Len(asked[c]) - Len(queue[c]) + 1
    IN  /\ Idle(c) /\ queue[c] # <<>>
        /\ queue' = [queue EXCEPT ![c] = IF k = [verb |-> "QUIT", arg |-> "none"] THEN <<>> ELSE Tail(@)]
        /\ CASE k.verb = "PASV" /\ ~ftp_command_has_args(k) -> open_ftp_passive_data_socket(c, i)
             [] k.verb = "PORT" -> set_active_address(c, k, i)
             [] k.verb \in {"LIST", "NLST", "RETR", "STOR", "APPE"} ->
                  \E ok \in BOOLEAN : start_transfer(c, k, i, ok)
             [] OTHER ->
                  LET clear == k.verb \in {"ABOR", "QUIT"}
                  IN  /\ passive' = IF clear THEN [passive EXCEPT ![c] = NoData] ELSE passive
                      /\ permits' = IF clear THEN permits + Released(passive[c]) ELSE permits
                      /\ resp' = [resp EXCEPT ![c] =
                                    Append(@, Reply(IF k.verb = "PASV" THEN 501 ELSE FtpHandle(k), i))]
                      /\ UNCHANGED <<conn, busy, written>>
        /\ UNCHANGED <<reads, asked>>

(* Mutant: the final reply is put before the 150 of an active transfer.    *)
TransferReplies_swapped(kind, code, i) ==
    IF kind = "active" THEN <<Reply(code, i), Reply(150, i)>> ELSE <<Reply(code, i)>>
TransferReplies(kind, code, i) ==
    IF kind = "active" THEN <<Reply(150, i), Reply(code, i)>> ELSE <<Reply(code, i)>>

(* finish_ftp_passive_transfer and finish_ftp_active_transfer: no data     *)
(* connection in time (425), a failed transfer (426), or 226.  An active   *)
(* transfer's 150 is only collected here.                                  *)
FinishTransfer(c, code) ==
    LET i == Len(asked[c]) - Len(queue[c])
    IN  /\ busy[c] # "none"
        /\ resp' = [resp EXCEPT ![c] = @ \o TransferReplies(busy[c], code, i)]
        /\ busy' = [busy EXCEPT ![c] = "none"]
        /\ permits' = permits + 1
        /\ UNCHANGED <<conn, reads, queue, passive, asked, written>>

------------------------------------------------------------------------------
(* Mutant: a connection that ends leaves its data socket behind.           *)
Close_control(c) == conn' = [conn EXCEPT ![c] = "closed"] /\ UNCHANGED <<passive, permits>>
Close(c) == /\ conn' = [conn EXCEPT ![c] = "closed"]
            /\ passive' = [passive EXCEPT ![c] = NoData]
            /\ permits' = permits + Released(passive[c])

(* A read returns the commands of one segment.                             *)
ServerReads(c) ==
    /\ Idle(c) /\ queue[c] = <<>> /\ resp[c] = <<>> /\ reads[c] < MaxReads
    /\ \E n \in 1 .. MaxBatch : \E b \in [1 .. n -> Commands] :
          /\ queue' = [queue EXCEPT ![c] = b]
          /\ asked' = [asked EXCEPT ![c] = @ \o b]
    /\ reads' = [reads EXCEPT ![c] = @ + 1]
    /\ UNCHANGED <<conn, resp, passive, busy, permits, written>>

(* The collected response goes out when the segment has been handled.      *)
WriteResponse(c, ok) ==
    LET quit == Reply(221, resp[c][Len(resp[c])].of) = resp[c][Len(resp[c])]
    IN  /\ Idle(c) /\ queue[c] = <<>> /\ resp[c] # <<>>
        /\ resp' = [resp EXCEPT ![c] = <<>>]
        /\ written' = IF ok THEN [written EXCEPT ![c] = @ \o resp[c]] ELSE written
        /\ IF ok /\ ~quit THEN UNCHANGED <<conn, passive, permits>> ELSE Close(c)
        /\ UNCHANGED <<reads, queue, busy, asked>>

(* The client went away or the read timed out.                             *)
ReadEnds(c) ==
    /\ Idle(c) /\ queue[c] = <<>> /\ resp[c] = <<>>
    /\ Close(c)
    /\ UNCHANGED <<reads, queue, resp, busy, asked, written>>

Done == (\A c \in Clients : conn[c] = "closed") /\ UNCHANGED ftpVars

FtpNext == \/ \E c \in Clients : \/ ServerReads(c) \/ HandleCommand(c) \/ ReadEnds(c)
                                 \/ \E code \in {226, 425, 426} : FinishTransfer(c, code)
                                 \/ \E ok \in BOOLEAN : WriteResponse(c, ok)
           \/ Done

(* Accept, connect, transfer, read and write all have timeouts.            *)
FtpFairness == \A c \in Clients :
                 /\ WF_ftpVars(HandleCommand(c)) /\ WF_ftpVars(ReadEnds(c))
                 /\ WF_ftpVars(\E code \in {226, 425, 426} : FinishTransfer(c, code))
                 /\ WF_ftpVars(\E ok \in BOOLEAN : WriteResponse(c, ok))
FtpSpec == FtpInit /\ [][FtpNext]_ftpVars /\ FtpFairness

------------------------------------------------------------------------------
(* A data socket is open exactly while its permit is held, and a client    *)
(* has either a passive socket or an active address, never both            *)
(* (FtpPassiveState is changed field by field in prepare_ftp_command).     *)
DataSocketExact ==
    \A c \in Clients : /\ passive[c].permit <=> passive[c].listener # 0
                       /\ ~(passive[c].permit /\ passive[c].active)
                       /\ \A b \in Clients \ {c} :
                             passive[b].listener = passive[c].listener => passive[c].listener = 0

(* Every permit of the semaphore is free, or held by one open socket, or   *)
(* by one transfer: none is lost on any path, the failed write of 150      *)
(* included.                                                               *)
PermitsExact ==
    permits + Cardinality({c \in Clients : passive[c].permit})
            + Cardinality({c \in Clients : busy[c] # "none"}) = MAX_FTP_PASSIVE_TRANSFERS

(* Every command gets one final reply, in the order of the commands, and   *)
(* the 150 of a transfer comes before its final reply, though a passive    *)
(* one is written at once and the rest is collected                        *)
(* (prepare_ordered_ftp_action).  The 150 itself may overtake the replies  *)
(* of earlier commands of the same segment.                                *)
Final(r) == r.code # 150
InOrder(all) ==
    /\ \A q \in DOMAIN all : Final(all[q]) =>
          /\ all[q].of >= 1
          /\ \A p \in 1 .. q - 1 : Final(all[p]) => all[p].of < all[q].of
          /\ \A m \in 1 .. all[q].of - 1 : \E p \in 1 .. q - 1 : Final(all[p]) /\ all[p].of = m
    /\ \A p, q \in DOMAIN all :
          ~Final(all[p]) /\ Final(all[q]) /\ all[q].of = all[p].of => p < q
AnswersInOrder == \A c \in Clients : InOrder(written[c] \o resp[c])

(* FTP with its data connections: sockets and addresses, permits and the   *)
(* order of the replies stay right on every path of a transfer             *)
(* (tcp_ftp.rs).                                                           *)
FtpInOrder == DataSocketExact /\ PermitsExact /\ AnswersInOrder

(* Every transfer ends and every connection gives its permit back, because *)
(* each wait of a data connection has a timeout.                           *)
PermitsReturn == <>[](permits = MAX_FTP_PASSIVE_TRANSFERS)
==============================================================================
