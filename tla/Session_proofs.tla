--------------------------- MODULE Session_proofs ---------------------------
(***************************************************************************)
(* What TLAPS proves of a session of client and server, over the mux that  *)
(* carries it, and of the tasks of the server that the session serves.     *)
(*                                                                         *)
(* A link (Link): once one side of it is over and the others have done     *)
(* what follows, nothing of it is left open, whatever the flow limit.  The *)
(* invariant says what each end has closed by when: the server's side, the *)
(* client's side, and what lies between them.                              *)
(*                                                                         *)
(* The end of the mux (MuxClose): once Close has stopped the queues,       *)
(* everything of the mux ends, for any number of packets and of            *)
(* connections of the peer.  The invariant says what has been closed by    *)
(* the time that a call of Close is at each of its steps.                  *)
(*                                                                         *)
(* npc with a configuration file (ConfigSession): what npc believes when   *)
(* it starts is so, and no task is left without somebody to delete it, for *)
(* any configuration and number of sessions.  The invariant says where an  *)
(* item and its answer are, by the steps of npc and of the bridge.         *)
(*                                                                         *)
(* The tasks (Tasks): a task on which no two activities overlapped is as   *)
(* its last request left it, in memory, in RunList, among the servers and  *)
(* in the file, and what was stopped or deleted stays so, also when the    *)
(* process crashes; for any tasks, handlers, requests and crashes.  The    *)
(* invariant says what a request finds of its task before each of its      *)
(* steps, which every step of that request, of others and of the servers   *)
(* has to keep.                                                            *)
(***************************************************************************)
EXTENDS Nps, FiniteSetTheorems, SequenceTheorems, TLAPS

(* A link (Link).                                                          *)
kind == v1
direct == v2
open == v3
gone == v4
session == v5
pc == v6
spent == v7
clientAddr == v8
empty == v9
limited == v10
unclosed == v11
refused == v12

USE DEF kind, direct, open, gone, session, pc, spent, clientAddr, empty, limited, unclosed,
        refused

\* The steps of the handlers and of the copies.
Steps == {"none", "copy", "closing", "ended", "request", "link", "wait", "control", "left",
          "accept", "udp"}
Linked == pc["up"] # "none"        \* SendLinkInfo has made the link
Accepted == pc["cup"] # "none"     \* the client has reached the target

\* Before the link there is the user, and the UDP socket of an association.
BeforeInv ==
    /\ ~Linked =>
          /\ \A w \in K!Copies : pc[w] = "none"
          /\ pc["client"] = "none" /\ pc["server"] \in {"request", "link", "left"}
          /\ open \subseteq {"user", "reply"} /\ gone \subseteq {"user"} /\ limited = {}
          /\ pc["server"] = "left" => open = {} \/ unclosed
    /\ pc["server"] = "request" => ~Linked /\ kind \in {"tcp", "socks5"} /\ open \subseteq {"user"}
    /\ pc["server"] = "link" => ~Linked /\ kind # "socks5"
    /\ kind = "socks5" => ~Linked

\* The server's side of the link: a copy that ended has closed what it copied between,
\* and the handler of an association closes it all.
ServerInv ==
    /\ Linked =>
          /\ pc["up"] \in {"copy", "ended"} /\ pc["down"] \in {"copy", "ended"}
          /\ pc["server"] \in (IF kind = "udp" THEN {"control", "left"} ELSE {"wait", "left"})
          /\ direct <=> pc["client"] = "none"
          /\ kind # "udp" /\ pc["server"] = "left" => pc["up"] = "ended" /\ pc["down"] = "ended"
          /\ kind = "udp" /\ pc["server"] = "left" =>
                "user" \notin open /\ "near" \notin open /\ "reply" \notin open
    /\ pc["up"] = "ended" \/ pc["down"] = "ended" =>
          /\ kind = "udp" => "user" \notin open
          /\ kind # "udp" /\ limited = {} => "user" \notin open /\ "near" \notin open

\* The client's side: what has ended there closes the connection of the session.
ClientInv ==
    /\ ~Accepted => pc["cdown"] = "none" /\ "target" \notin open /\ "target" \notin gone
    /\ Accepted =>
          /\ Linked /\ ~direct
          /\ pc["cdown"] \in {"copy", "ended"} /\ pc["cup"] \in {"copy", "closing", "ended"}
          /\ pc["client"] \in {"wait", "udp", "left"}
    /\ Linked /\ ~direct /\ ~Accepted => pc["client"] \in {"accept", "left"}
    /\ pc["client"] = "left" \/ pc["cup"] = "ended" \/ pc["cdown"] = "ended" =>
          "far" \notin open
    /\ pc["cup"] \in {"closing", "ended"} => "target" \notin open
    /\ pc["cdown"] = "ended" /\ kind # "udp" => "target" \notin open

\* Which ends a link of some kind has, and what the end of the session takes along.
EndsInv ==
    /\ "far" \in open => ~direct
    /\ "reply" \in open => kind = "udp"
    /\ kind = "udp" => ~direct /\ gone \subseteq {"user"}
    /\ "near" \in gone => direct
    /\ ~session /\ ~direct => "near" \notin open /\ "far" \notin open

\* A copy that the limit has ended has ended, and overran it by one at most.
FlowInv ==
    /\ \A w \in limited : pc[w] = "ended"
    /\ spent <= FlowLimit + (IF "up" \in limited THEN 1 ELSE 0)
                          + (IF "down" \in limited THEN 1 ELSE 0)

\* The client's socket is closed before the connection of the session only for a
\* datagram it has refused.
EmptyInv ==
    /\ kind = "udp" /\ Accepted /\ "target" \notin open /\ ~refused =>
          "near" \notin open \/ "far" \notin open
    /\ empty # "none" => refused

\* Everyone is at one of the steps.
PcInv == pc \in [K!Copies \cup {"server", "client"} -> Steps]

\* What the two sides and the ends have to do with each other, and the invariant.
LinkInv == BeforeInv /\ ServerInv /\ ClientInv /\ EndsInv
IInv == PcInv /\ K!TypeOK /\ LinkInv /\ FlowInv /\ EmptyInv

\* Closed for every copy of a link, whatever carries it.
LEMMA ClosedSets ==
    /\ K!Closed("up") = IF kind = "udp" THEN {"user"} ELSE {"user", "near"}
    /\ K!Closed("down") = IF kind = "udp" THEN {"user"} ELSE {"near", "user"}
    /\ K!Closed("cup") = IF kind = "udp" THEN {"target"} ELSE {"far", "target"}
    /\ K!Closed("cdown") = IF kind = "udp" THEN {"far"} ELSE {"target", "far"}
<1>1. CASE kind = "udp"
  BY <1>1 DEF K!Closed
<1>2. CASE kind # "udp"
  <2>1. /\ K!Source("up") = "user" /\ K!Source("down") = "near"
        /\ K!Source("cup") = "far" /\ K!Source("cdown") = "target"
    BY <1>2 DEF K!Source
  <2>2. /\ K!Dest("up") = "near" /\ K!Dest("down") = "user"
        /\ K!Dest("cup") = "target" /\ K!Dest("cdown") = "far"
    BY <1>2 DEF K!Dest
  <2>3. \A w : K!Closed(w) = {K!Source(w), K!Dest(w)}
    BY <1>2 DEF K!Closed
  <2>4. QED
    BY <1>2, <2>1, <2>2, <2>3
<1>3. QED
  BY <1>1, <1>2

\* What a copy that fails does to the state.
LEMMA CopyFailsFacts ==
    ASSUME NEW w \in K!Copies, K!CopyFails(w)
    PROVE  /\ pc[w] = "copy"
           /\ pc' = [pc EXCEPT ![w] = IF kind = "udp" /\ w = "cup" THEN "closing" ELSE "ended"]
           /\ open' = open \ K!Closed(w)
           /\ UNCHANGED <<kind, direct, gone, session, spent, limited, clientAddr, empty, refused,
                          unclosed>>
  BY DEF K!CopyFails, K!Goes, K!flow, K!udpvars

\* Every process stays at a step of its own.
LEMMA StepPc == ASSUME IInv, [K!Next]_(K!vars) PROVE PcInv'
<1> USE FlowAssumption
    DEF IInv, LinkInv, PcInv, BeforeInv, ServerInv, ClientInv, EndsInv, FlowInv, EmptyInv,
        Linked, Accepted, Steps, K!Copies, K!flow, K!udpvars, K!Goes
<1>1. CASE K!Refuse
  BY <1>1 DEF K!Refuse
<1>2. CASE K!AskTcp
  BY <1>2 DEF K!AskTcp
<1>3. CASE K!AskConnect
  BY <1>3 DEF K!AskConnect
<1>4. CASE K!AskNothing
  BY <1>4 DEF K!AskNothing
<1>5. CASE K!AskUdp
  BY <1>5 DEF K!AskUdp
<1>6. CASE K!NoLink
  BY <1>6 DEF K!NoLink
<1>7. CASE K!Control
  BY <1>7 DEF K!Control
<1>8. CASE K!SendLinkInfo
  BY <1>8 DEF K!SendLinkInfo
<1>9. CASE K!CopyWaitGroup("server", "up", "down")
  BY <1>9 DEF K!CopyWaitGroup
<1>10. CASE K!CopyWaitGroup("client", "cup", "cdown")
  BY <1>10 DEF K!CopyWaitGroup
<1>11. CASE K!RejectLink
  BY <1>11 DEF K!RejectLink
<1>12. CASE K!DialUdp5
  BY <1>12 DEF K!DialUdp5
<1>13. CASE K!CloseServerConn
  BY <1>13 DEF K!CloseServerConn
<1>14. CASE K!AcceptLink
  BY <1>14 DEF K!AcceptLink
<1>15. CASE K!Datagram
  BY <1>15 DEF K!Datagram
<1>16. CASE K!BadDatagram
  BY <1>16 DEF K!BadDatagram
<1>17. CASE K!SendEmpty
  BY <1>17 DEF K!SendEmpty
<1>18. CASE K!GiveEmpty
  BY <1>18 DEF K!GiveEmpty
<1>19. CASE \E e \in K!Ends : K!Leave(e)
  BY <1>19 DEF K!Leave, K!Ends
<1>20. CASE K!SessionEnds
  BY <1>20 DEF K!SessionEnds
<1>21. CASE UNCHANGED K!vars
  BY <1>21 DEF K!vars
<1>22. ASSUME NEW w \in K!Copies, K!Copy(w) PROVE PcInv'
  <2>1. CASE w = "up"
    BY <1>22, <2>1 DEF K!Copy, K!Source, K!Dest, K!TypeOK
  <2>2. CASE w = "down"
    BY <1>22, <2>2 DEF K!Copy, K!Source, K!Dest, K!TypeOK
  <2>3. QED
    BY <1>22, <2>1, <2>2 DEF K!Copy
<1>23. ASSUME NEW w \in K!Copies, K!CopyFails(w) PROVE PcInv'
  <2>1. CASE w = "up"
    BY <1>23, <2>1, CopyFailsFacts, ClosedSets
  <2>2. CASE w = "down"
    BY <1>23, <2>2, CopyFailsFacts, ClosedSets
  <2>3. CASE w = "cup"
    BY <1>23, <2>3, CopyFailsFacts, ClosedSets
  <2>4. CASE w = "cdown"
    BY <1>23, <2>4, CopyFailsFacts, ClosedSets
  <2>5. QED
    BY <2>1, <2>2, <2>3, <2>4
<1>24. QED
  BY <1>1, <1>2, <1>3, <1>4, <1>5, <1>6, <1>7, <1>8, <1>9, <1>10, <1>11, <1>12, <1>13, <1>14,
     <1>15, <1>16, <1>17, <1>18, <1>19, <1>20, <1>21, <1>22, <1>23 DEF K!Next

\* Every step keeps the types.
LEMMA StepType == ASSUME IInv, [K!Next]_(K!vars) PROVE K!TypeOK'
<1> USE FlowAssumption
    DEF IInv, LinkInv, PcInv, BeforeInv, ServerInv, ClientInv, EndsInv, FlowInv, EmptyInv, K!TypeOK, K!Ends,
        Linked, Accepted, Steps, K!Copies, K!flow, K!udpvars, K!Goes
<1>1. CASE K!Refuse
  BY <1>1 DEF K!Refuse
<1>2. CASE K!AskTcp
  BY <1>2 DEF K!AskTcp
<1>3. CASE K!AskConnect
  BY <1>3 DEF K!AskConnect
<1>4. CASE K!AskNothing
  BY <1>4 DEF K!AskNothing
<1>5. CASE K!AskUdp
  BY <1>5 DEF K!AskUdp
<1>6. CASE K!NoLink
  BY <1>6 DEF K!NoLink
<1>7. CASE K!Control
  BY <1>7 DEF K!Control
<1>8. CASE K!SendLinkInfo
  BY <1>8 DEF K!SendLinkInfo
<1>9. CASE K!CopyWaitGroup("server", "up", "down")
  BY <1>9 DEF K!CopyWaitGroup
<1>10. CASE K!CopyWaitGroup("client", "cup", "cdown")
  BY <1>10 DEF K!CopyWaitGroup
<1>11. CASE K!RejectLink
  BY <1>11 DEF K!RejectLink
<1>12. CASE K!DialUdp5
  BY <1>12 DEF K!DialUdp5
<1>13. CASE K!CloseServerConn
  BY <1>13 DEF K!CloseServerConn
<1>14. CASE K!AcceptLink
  BY <1>14 DEF K!AcceptLink
<1>15. CASE K!Datagram
  BY <1>15 DEF K!Datagram
<1>16. CASE K!BadDatagram
  BY <1>16 DEF K!BadDatagram
<1>17. CASE K!SendEmpty
  BY <1>17 DEF K!SendEmpty
<1>18. CASE K!GiveEmpty
  BY <1>18 DEF K!GiveEmpty
<1>19. CASE \E e \in K!Ends : K!Leave(e)
  BY <1>19 DEF K!Leave, K!Ends
<1>20. CASE K!SessionEnds
  BY <1>20 DEF K!SessionEnds
<1>21. CASE UNCHANGED K!vars
  BY <1>21 DEF K!vars
<1>22. ASSUME NEW w \in K!Copies, K!Copy(w) PROVE K!TypeOK'
  <2>1. CASE w = "up"
    BY <1>22, <2>1 DEF K!Copy, K!Source, K!Dest, K!TypeOK
  <2>2. CASE w = "down"
    BY <1>22, <2>2 DEF K!Copy, K!Source, K!Dest, K!TypeOK
  <2>3. QED
    BY <1>22, <2>1, <2>2 DEF K!Copy
<1>23. ASSUME NEW w \in K!Copies, K!CopyFails(w) PROVE K!TypeOK'
  <2>1. CASE w = "up"
    BY <1>23, <2>1, CopyFailsFacts, ClosedSets
  <2>2. CASE w = "down"
    BY <1>23, <2>2, CopyFailsFacts, ClosedSets
  <2>3. CASE w = "cup"
    BY ZenonT(40), <1>23, <2>3, CopyFailsFacts, ClosedSets
  <2>4. CASE w = "cdown"
    BY <1>23, <2>4, CopyFailsFacts, ClosedSets
  <2>5. QED
    BY <2>1, <2>2, <2>3, <2>4
<1>24. QED
  BY <1>1, <1>2, <1>3, <1>4, <1>5, <1>6, <1>7, <1>8, <1>9, <1>10, <1>11, <1>12, <1>13, <1>14,
     <1>15, <1>16, <1>17, <1>18, <1>19, <1>20, <1>21, <1>22, <1>23 DEF K!Next

\* No step but SendLinkInfo opens what belongs to a link.
LEMMA StepBefore == ASSUME IInv, [K!Next]_(K!vars) PROVE BeforeInv'
<1> USE FlowAssumption
    DEF IInv, LinkInv, PcInv, BeforeInv, ServerInv, ClientInv, EndsInv, FlowInv, EmptyInv,
        Linked, Accepted, Steps, K!Copies, K!flow, K!udpvars, K!Goes
<1>1. CASE K!Refuse
  BY <1>1 DEF K!Refuse
<1>2. CASE K!AskTcp
  BY <1>2 DEF K!AskTcp
<1>3. CASE K!AskConnect
  BY <1>3 DEF K!AskConnect
<1>4. CASE K!AskNothing
  BY <1>4 DEF K!AskNothing
<1>5. CASE K!AskUdp
  BY <1>5 DEF K!AskUdp
<1>6. CASE K!NoLink
  BY <1>6 DEF K!NoLink
<1>7. CASE K!Control
  BY <1>7 DEF K!Control
<1>8. CASE K!SendLinkInfo
  BY <1>8 DEF K!SendLinkInfo
<1>9. CASE K!CopyWaitGroup("server", "up", "down")
  BY <1>9 DEF K!CopyWaitGroup
<1>10. CASE K!CopyWaitGroup("client", "cup", "cdown")
  BY <1>10 DEF K!CopyWaitGroup
<1>11. CASE K!RejectLink
  BY <1>11 DEF K!RejectLink
<1>12. CASE K!DialUdp5
  BY <1>12 DEF K!DialUdp5
<1>13. CASE K!CloseServerConn
  BY <1>13 DEF K!CloseServerConn
<1>14. CASE K!AcceptLink
  BY <1>14 DEF K!AcceptLink
<1>15. CASE K!Datagram
  BY <1>15 DEF K!Datagram
<1>16. CASE K!BadDatagram
  BY <1>16 DEF K!BadDatagram
<1>17. CASE K!SendEmpty
  BY <1>17 DEF K!SendEmpty
<1>18. CASE K!GiveEmpty
  BY <1>18 DEF K!GiveEmpty
<1>19. CASE \E e \in K!Ends : K!Leave(e)
  BY <1>19 DEF K!Leave, K!Ends
<1>20. CASE K!SessionEnds
  BY <1>20 DEF K!SessionEnds
<1>21. CASE UNCHANGED K!vars
  BY <1>21 DEF K!vars
<1>22. ASSUME NEW w \in K!Copies, K!Copy(w) PROVE BeforeInv'
  <2>1. CASE w = "up"
    BY <1>22, <2>1 DEF K!Copy, K!Source, K!Dest, K!TypeOK
  <2>2. CASE w = "down"
    BY <1>22, <2>2 DEF K!Copy, K!Source, K!Dest, K!TypeOK
  <2>3. QED
    BY <1>22, <2>1, <2>2 DEF K!Copy
<1>23. ASSUME NEW w \in K!Copies, K!CopyFails(w) PROVE BeforeInv'
  <2>1. CASE w = "up"
    BY <1>23, <2>1, CopyFailsFacts, ClosedSets
  <2>2. CASE w = "down"
    BY <1>23, <2>2, CopyFailsFacts, ClosedSets
  <2>3. CASE w = "cup"
    BY <1>23, <2>3, CopyFailsFacts, ClosedSets
  <2>4. CASE w = "cdown"
    BY <1>23, <2>4, CopyFailsFacts, ClosedSets
  <2>5. QED
    BY <2>1, <2>2, <2>3, <2>4
<1>24. QED
  BY <1>1, <1>2, <1>3, <1>4, <1>5, <1>6, <1>7, <1>8, <1>9, <1>10, <1>11, <1>12, <1>13, <1>14,
     <1>15, <1>16, <1>17, <1>18, <1>19, <1>20, <1>21, <1>22, <1>23 DEF K!Next

\* Every step keeps what has ended at the server closed.
LEMMA StepServer == ASSUME IInv, [K!Next]_(K!vars) PROVE ServerInv'
<1> USE FlowAssumption
    DEF IInv, LinkInv, PcInv, BeforeInv, ServerInv, ClientInv, EndsInv, FlowInv, EmptyInv,
        Linked, Accepted, Steps, K!Copies, K!flow, K!udpvars, K!Goes
<1>1. CASE K!Refuse
  BY <1>1 DEF K!Refuse
<1>2. CASE K!AskTcp
  BY <1>2 DEF K!AskTcp
<1>3. CASE K!AskConnect
  BY <1>3 DEF K!AskConnect
<1>4. CASE K!AskNothing
  BY <1>4 DEF K!AskNothing
<1>5. CASE K!AskUdp
  BY <1>5 DEF K!AskUdp
<1>6. CASE K!NoLink
  BY <1>6 DEF K!NoLink
<1>7. CASE K!Control
  BY <1>7 DEF K!Control
<1>8. CASE K!SendLinkInfo
  BY <1>8 DEF K!SendLinkInfo
<1>9. CASE K!CopyWaitGroup("server", "up", "down")
  BY <1>9 DEF K!CopyWaitGroup
<1>10. CASE K!CopyWaitGroup("client", "cup", "cdown")
  BY <1>10 DEF K!CopyWaitGroup
<1>11. CASE K!RejectLink
  BY <1>11 DEF K!RejectLink
<1>12. CASE K!DialUdp5
  BY <1>12 DEF K!DialUdp5
<1>13. CASE K!CloseServerConn
  BY <1>13 DEF K!CloseServerConn
<1>14. CASE K!AcceptLink
  BY <1>14 DEF K!AcceptLink
<1>15. CASE K!Datagram
  BY <1>15 DEF K!Datagram
<1>16. CASE K!BadDatagram
  BY <1>16 DEF K!BadDatagram
<1>17. CASE K!SendEmpty
  BY <1>17 DEF K!SendEmpty
<1>18. CASE K!GiveEmpty
  BY <1>18 DEF K!GiveEmpty
<1>19. CASE \E e \in K!Ends : K!Leave(e)
  BY <1>19 DEF K!Leave, K!Ends
<1>20. CASE K!SessionEnds
  BY <1>20 DEF K!SessionEnds
<1>21. CASE UNCHANGED K!vars
  BY <1>21 DEF K!vars
<1>22. ASSUME NEW w \in K!Copies, K!Copy(w) PROVE ServerInv'
  <2>1. CASE w = "up"
    BY <1>22, <2>1 DEF K!Copy, K!Source, K!Dest, K!TypeOK
  <2>2. CASE w = "down"
    BY <1>22, <2>2 DEF K!Copy, K!Source, K!Dest, K!TypeOK
  <2>3. QED
    BY <1>22, <2>1, <2>2 DEF K!Copy
<1>23. ASSUME NEW w \in K!Copies, K!CopyFails(w) PROVE ServerInv'
  <2>1. CASE w = "up"
    BY <1>23, <2>1, CopyFailsFacts, ClosedSets
  <2>2. CASE w = "down"
    BY <1>23, <2>2, CopyFailsFacts, ClosedSets
  <2>3. CASE w = "cup"
    BY <1>23, <2>3, CopyFailsFacts, ClosedSets
  <2>4. CASE w = "cdown"
    BY <1>23, <2>4, CopyFailsFacts, ClosedSets
  <2>5. QED
    BY <2>1, <2>2, <2>3, <2>4
<1>24. QED
  BY <1>1, <1>2, <1>3, <1>4, <1>5, <1>6, <1>7, <1>8, <1>9, <1>10, <1>11, <1>12, <1>13, <1>14,
     <1>15, <1>16, <1>17, <1>18, <1>19, <1>20, <1>21, <1>22, <1>23 DEF K!Next

\* Every step keeps what has ended at the client closed.
LEMMA StepClient == ASSUME IInv, [K!Next]_(K!vars) PROVE ClientInv'
<1> USE FlowAssumption
    DEF IInv, LinkInv, PcInv, BeforeInv, ServerInv, ClientInv, EndsInv, FlowInv, EmptyInv,
        Linked, Accepted, Steps, K!Copies, K!flow, K!udpvars, K!Goes
<1>1. CASE K!Refuse
  BY <1>1 DEF K!Refuse
<1>2. CASE K!AskTcp
  BY <1>2 DEF K!AskTcp
<1>3. CASE K!AskConnect
  BY <1>3 DEF K!AskConnect
<1>4. CASE K!AskNothing
  BY <1>4 DEF K!AskNothing
<1>5. CASE K!AskUdp
  BY <1>5 DEF K!AskUdp
<1>6. CASE K!NoLink
  BY <1>6 DEF K!NoLink
<1>7. CASE K!Control
  BY <1>7 DEF K!Control
<1>8. CASE K!SendLinkInfo
  BY <1>8 DEF K!SendLinkInfo
<1>9. CASE K!CopyWaitGroup("server", "up", "down")
  BY <1>9 DEF K!CopyWaitGroup
<1>10. CASE K!CopyWaitGroup("client", "cup", "cdown")
  BY <1>10 DEF K!CopyWaitGroup
<1>11. CASE K!RejectLink
  BY <1>11 DEF K!RejectLink
<1>12. CASE K!DialUdp5
  BY <1>12 DEF K!DialUdp5
<1>13. CASE K!CloseServerConn
  BY <1>13 DEF K!CloseServerConn
<1>14. CASE K!AcceptLink
  BY <1>14 DEF K!AcceptLink
<1>15. CASE K!Datagram
  BY <1>15 DEF K!Datagram
<1>16. CASE K!BadDatagram
  BY <1>16 DEF K!BadDatagram
<1>17. CASE K!SendEmpty
  BY <1>17 DEF K!SendEmpty
<1>18. CASE K!GiveEmpty
  BY <1>18 DEF K!GiveEmpty
<1>19. CASE \E e \in K!Ends : K!Leave(e)
  BY <1>19 DEF K!Leave, K!Ends
<1>20. CASE K!SessionEnds
  BY <1>20 DEF K!SessionEnds
<1>21. CASE UNCHANGED K!vars
  BY <1>21 DEF K!vars
<1>22. ASSUME NEW w \in K!Copies, K!Copy(w) PROVE ClientInv'
  <2>1. CASE w = "up"
    BY <1>22, <2>1 DEF K!Copy, K!Source, K!Dest, K!TypeOK
  <2>2. CASE w = "down"
    BY <1>22, <2>2 DEF K!Copy, K!Source, K!Dest, K!TypeOK
  <2>3. QED
    BY <1>22, <2>1, <2>2 DEF K!Copy
<1>23. ASSUME NEW w \in K!Copies, K!CopyFails(w) PROVE ClientInv'
  <2>1. CASE w = "up"
    BY <1>23, <2>1, CopyFailsFacts, ClosedSets
  <2>2. CASE w = "down"
    BY <1>23, <2>2, CopyFailsFacts, ClosedSets
  <2>3. CASE w = "cup"
    BY <1>23, <2>3, CopyFailsFacts, ClosedSets
  <2>4. CASE w = "cdown"
    BY <1>23, <2>4, CopyFailsFacts, ClosedSets
  <2>5. QED
    BY <2>1, <2>2, <2>3, <2>4
<1>24. QED
  BY <1>1, <1>2, <1>3, <1>4, <1>5, <1>6, <1>7, <1>8, <1>9, <1>10, <1>11, <1>12, <1>13, <1>14,
     <1>15, <1>16, <1>17, <1>18, <1>19, <1>20, <1>21, <1>22, <1>23 DEF K!Next

\* No step gives a link an end of another kind.
LEMMA StepEnds == ASSUME IInv, [K!Next]_(K!vars) PROVE EndsInv'
<1> USE FlowAssumption
    DEF IInv, LinkInv, PcInv, BeforeInv, ServerInv, ClientInv, EndsInv, FlowInv, EmptyInv, K!TypeOK,
        Linked, Accepted, Steps, K!Copies, K!flow, K!udpvars, K!Goes
<1>1. CASE K!Refuse
  BY <1>1 DEF K!Refuse
<1>2. CASE K!AskTcp
  BY <1>2 DEF K!AskTcp
<1>3. CASE K!AskConnect
  BY <1>3 DEF K!AskConnect
<1>4. CASE K!AskNothing
  BY <1>4 DEF K!AskNothing
<1>5. CASE K!AskUdp
  BY <1>5 DEF K!AskUdp
<1>6. CASE K!NoLink
  BY <1>6 DEF K!NoLink
<1>7. CASE K!Control
  BY <1>7 DEF K!Control
<1>8. CASE K!SendLinkInfo
  BY <1>8 DEF K!SendLinkInfo
<1>9. CASE K!CopyWaitGroup("server", "up", "down")
  BY <1>9 DEF K!CopyWaitGroup
<1>10. CASE K!CopyWaitGroup("client", "cup", "cdown")
  BY <1>10 DEF K!CopyWaitGroup
<1>11. CASE K!RejectLink
  BY <1>11 DEF K!RejectLink
<1>12. CASE K!DialUdp5
  BY <1>12 DEF K!DialUdp5
<1>13. CASE K!CloseServerConn
  BY <1>13 DEF K!CloseServerConn
<1>14. CASE K!AcceptLink
  BY <1>14 DEF K!AcceptLink
<1>15. CASE K!Datagram
  BY <1>15 DEF K!Datagram
<1>16. CASE K!BadDatagram
  BY <1>16 DEF K!BadDatagram
<1>17. CASE K!SendEmpty
  BY <1>17 DEF K!SendEmpty
<1>18. CASE K!GiveEmpty
  BY <1>18 DEF K!GiveEmpty
<1>19. CASE \E e \in K!Ends : K!Leave(e)
  BY <1>19 DEF K!Leave, K!Ends
<1>20. CASE K!SessionEnds
  BY <1>20 DEF K!SessionEnds
<1>21. CASE UNCHANGED K!vars
  BY <1>21 DEF K!vars
<1>22. ASSUME NEW w \in K!Copies, K!Copy(w) PROVE EndsInv'
  <2>1. CASE w = "up"
    BY <1>22, <2>1 DEF K!Copy, K!Source, K!Dest, K!TypeOK
  <2>2. CASE w = "down"
    BY <1>22, <2>2 DEF K!Copy, K!Source, K!Dest, K!TypeOK
  <2>3. QED
    BY <1>22, <2>1, <2>2 DEF K!Copy
<1>23. ASSUME NEW w \in K!Copies, K!CopyFails(w) PROVE EndsInv'
  <2>1. CASE w = "up"
    BY <1>23, <2>1, CopyFailsFacts, ClosedSets
  <2>2. CASE w = "down"
    BY <1>23, <2>2, CopyFailsFacts, ClosedSets
  <2>3. CASE w = "cup"
    BY <1>23, <2>3, CopyFailsFacts, ClosedSets
  <2>4. CASE w = "cdown"
    BY <1>23, <2>4, CopyFailsFacts, ClosedSets
  <2>5. QED
    BY <2>1, <2>2, <2>3, <2>4
<1>24. QED
  BY <1>1, <1>2, <1>3, <1>4, <1>5, <1>6, <1>7, <1>8, <1>9, <1>10, <1>11, <1>12, <1>13, <1>14,
     <1>15, <1>16, <1>17, <1>18, <1>19, <1>20, <1>21, <1>22, <1>23 DEF K!Next

\* Each copy overruns the flow limit at most once.
LEMMA StepFlow == ASSUME IInv, [K!Next]_(K!vars) PROVE FlowInv'
<1> USE FlowAssumption
    DEF IInv, LinkInv, PcInv, BeforeInv, ServerInv, ClientInv, EndsInv, FlowInv, EmptyInv, K!TypeOK,
        Linked, Accepted, Steps, K!Copies, K!flow, K!udpvars, K!Goes
<1>1. CASE K!Refuse
  BY <1>1 DEF K!Refuse
<1>2. CASE K!AskTcp
  BY <1>2 DEF K!AskTcp
<1>3. CASE K!AskConnect
  BY <1>3 DEF K!AskConnect
<1>4. CASE K!AskNothing
  BY <1>4 DEF K!AskNothing
<1>5. CASE K!AskUdp
  BY <1>5 DEF K!AskUdp
<1>6. CASE K!NoLink
  BY <1>6 DEF K!NoLink
<1>7. CASE K!Control
  BY <1>7 DEF K!Control
<1>8. CASE K!SendLinkInfo
  BY <1>8 DEF K!SendLinkInfo
<1>9. CASE K!CopyWaitGroup("server", "up", "down")
  BY <1>9 DEF K!CopyWaitGroup
<1>10. CASE K!CopyWaitGroup("client", "cup", "cdown")
  BY <1>10 DEF K!CopyWaitGroup
<1>11. CASE K!RejectLink
  BY <1>11 DEF K!RejectLink
<1>12. CASE K!DialUdp5
  BY <1>12 DEF K!DialUdp5
<1>13. CASE K!CloseServerConn
  BY <1>13 DEF K!CloseServerConn
<1>14. CASE K!AcceptLink
  BY <1>14 DEF K!AcceptLink
<1>15. CASE K!Datagram
  BY <1>15 DEF K!Datagram
<1>16. CASE K!BadDatagram
  BY <1>16 DEF K!BadDatagram
<1>17. CASE K!SendEmpty
  BY <1>17 DEF K!SendEmpty
<1>18. CASE K!GiveEmpty
  BY <1>18 DEF K!GiveEmpty
<1>19. CASE \E e \in K!Ends : K!Leave(e)
  BY <1>19 DEF K!Leave, K!Ends
<1>20. CASE K!SessionEnds
  BY <1>20 DEF K!SessionEnds
<1>21. CASE UNCHANGED K!vars
  BY <1>21 DEF K!vars
<1>22. ASSUME NEW w \in K!Copies, K!Copy(w) PROVE FlowInv'
  <2>1. CASE w = "up"
    BY <1>22, <2>1 DEF K!Copy, K!Source, K!Dest, K!TypeOK
  <2>2. CASE w = "down"
    BY <1>22, <2>2 DEF K!Copy, K!Source, K!Dest, K!TypeOK
  <2>3. QED
    BY <1>22, <2>1, <2>2 DEF K!Copy
<1>23. ASSUME NEW w \in K!Copies, K!CopyFails(w) PROVE FlowInv'
  <2>1. CASE w = "up"
    BY <1>23, <2>1, CopyFailsFacts, ClosedSets
  <2>2. CASE w = "down"
    BY <1>23, <2>2, CopyFailsFacts, ClosedSets
  <2>3. CASE w = "cup"
    BY <1>23, <2>3, CopyFailsFacts, ClosedSets
  <2>4. CASE w = "cdown"
    BY <1>23, <2>4, CopyFailsFacts, ClosedSets
  <2>5. QED
    BY <2>1, <2>2, <2>3, <2>4
<1>24. QED
  BY <1>1, <1>2, <1>3, <1>4, <1>5, <1>6, <1>7, <1>8, <1>9, <1>10, <1>11, <1>12, <1>13, <1>14,
     <1>15, <1>16, <1>17, <1>18, <1>19, <1>20, <1>21, <1>22, <1>23 DEF K!Next

\* No step closes the socket of the client before the connection, but for a refusal.
LEMMA StepEmpty == ASSUME IInv, [K!Next]_(K!vars) PROVE EmptyInv'
<1> USE FlowAssumption
    DEF IInv, LinkInv, PcInv, BeforeInv, ServerInv, ClientInv, EndsInv, FlowInv, EmptyInv, K!Broken,
        Linked, Accepted, Steps, K!Copies, K!flow, K!udpvars, K!Goes
<1>1. CASE K!Refuse
  BY <1>1 DEF K!Refuse
<1>2. CASE K!AskTcp
  BY <1>2 DEF K!AskTcp
<1>3. CASE K!AskConnect
  BY <1>3 DEF K!AskConnect
<1>4. CASE K!AskNothing
  BY <1>4 DEF K!AskNothing
<1>5. CASE K!AskUdp
  BY <1>5 DEF K!AskUdp
<1>6. CASE K!NoLink
  BY <1>6 DEF K!NoLink
<1>7. CASE K!Control
  BY <1>7 DEF K!Control
<1>8. CASE K!SendLinkInfo
  BY <1>8 DEF K!SendLinkInfo
<1>9. CASE K!CopyWaitGroup("server", "up", "down")
  BY <1>9 DEF K!CopyWaitGroup
<1>10. CASE K!CopyWaitGroup("client", "cup", "cdown")
  BY <1>10 DEF K!CopyWaitGroup
<1>11. CASE K!RejectLink
  BY <1>11 DEF K!RejectLink
<1>12. CASE K!DialUdp5
  BY <1>12 DEF K!DialUdp5
<1>13. CASE K!CloseServerConn
  BY <1>13 DEF K!CloseServerConn
<1>14. CASE K!AcceptLink
  BY <1>14 DEF K!AcceptLink
<1>15. CASE K!Datagram
  BY <1>15 DEF K!Datagram
<1>16. CASE K!BadDatagram
  BY <1>16 DEF K!BadDatagram
<1>17. CASE K!SendEmpty
  BY <1>17 DEF K!SendEmpty
<1>18. CASE K!GiveEmpty
  BY <1>18 DEF K!GiveEmpty
<1>19. CASE \E e \in K!Ends : K!Leave(e)
  BY <1>19 DEF K!Leave, K!Ends
<1>20. CASE K!SessionEnds
  BY <1>20 DEF K!SessionEnds
<1>21. CASE UNCHANGED K!vars
  BY <1>21 DEF K!vars
<1>22. ASSUME NEW w \in K!Copies, K!Copy(w) PROVE EmptyInv'
  <2>1. CASE w = "up"
    BY <1>22, <2>1 DEF K!Copy, K!Source, K!Dest, K!TypeOK
  <2>2. CASE w = "down"
    BY <1>22, <2>2 DEF K!Copy, K!Source, K!Dest, K!TypeOK
  <2>3. QED
    BY <1>22, <2>1, <2>2 DEF K!Copy
<1>23. ASSUME NEW w \in K!Copies, K!CopyFails(w) PROVE EmptyInv'
  <2>1. CASE w = "up"
    BY <1>23, <2>1, CopyFailsFacts, ClosedSets DEF K!CopyFails, K!Broken, K!Source, K!Dest,
       K!TypeOK
  <2>2. CASE w = "down"
    BY <1>23, <2>2, CopyFailsFacts, ClosedSets DEF K!CopyFails, K!Broken, K!Source, K!Dest,
       K!TypeOK
  <2>3. CASE w = "cup"
    BY <1>23, <2>3, CopyFailsFacts, ClosedSets DEF K!CopyFails, K!Broken, K!Source, K!Dest,
       K!TypeOK
  <2>4. CASE w = "cdown"
    BY <1>23, <2>4, CopyFailsFacts, ClosedSets DEF K!CopyFails, K!Broken, K!Source, K!Dest,
       K!TypeOK
  <2>5. QED
    BY <2>1, <2>2, <2>3, <2>4
<1>24. QED
  BY <1>1, <1>2, <1>3, <1>4, <1>5, <1>6, <1>7, <1>8, <1>9, <1>10, <1>11, <1>12, <1>13, <1>14,
     <1>15, <1>16, <1>17, <1>18, <1>19, <1>20, <1>21, <1>22, <1>23 DEF K!Next

\* At the start there is a user.
LEMMA LinkInit == K!Init => IInv
<1> SUFFICES ASSUME K!Init PROVE IInv
  OBVIOUS
<1>1. \A w \in K!Copies \cup {"server", "client"} :
          pc[w] = IF w = "server" THEN "request" ELSE "none"
  BY DEF K!Init
<1>2. PcInv
  BY DEF K!Init, PcInv, Steps, K!Copies
<1>3. K!TypeOK
  <2>1. spent \in 0 .. FlowLimit + 2
    BY FlowAssumption DEF K!Init
  <2>2. /\ kind \in {"tcp", "socks5", "connect", "udp"} /\ direct \in BOOLEAN
        /\ session \in BOOLEAN /\ open \subseteq K!Ends
        /\ gone \subseteq {"user", "near", "target"} /\ limited \subseteq {"up", "down"}
        /\ empty \in {"none", "sent", "given"} /\ clientAddr \in BOOLEAN
    BY DEF K!Init, K!Ends
  <2>3. /\ \A w \in K!Copies : pc[w] \in {"none", "copy", "closing", "ended"}
        /\ pc["server"] \in {"request", "link", "wait", "control", "left"}
        /\ pc["client"] \in {"none", "accept", "wait", "udp", "left"}
    BY <1>1 DEF K!Copies
  <2>4. QED
    BY <2>1, <2>2, <2>3 DEF K!TypeOK
<1>4. LinkInv
  BY <1>1 DEF K!Init, LinkInv, BeforeInv, ServerInv, ClientInv, EndsInv, Linked, Accepted,
     K!Copies
<1>5. FlowInv /\ EmptyInv
  BY <1>1, FlowAssumption DEF K!Init, FlowInv, EmptyInv, Accepted, K!Copies
<1>6. QED
  BY <1>2, <1>3, <1>4, <1>5 DEF IInv

\* Every step keeps the invariant.
LEMMA LinkStep == IInv /\ [K!Next]_(K!vars) => IInv'
<1> SUFFICES ASSUME IInv, [K!Next]_(K!vars) PROVE IInv'
  OBVIOUS
<1>1. PcInv' /\ K!TypeOK' /\ FlowInv' /\ EmptyInv'
  BY StepPc, StepType, StepFlow, StepEmpty
<1>2. LinkInv'
  BY StepBefore, StepServer, StepClient, StepEnds DEF LinkInv
<1>3. QED
  BY <1>1, <1>2 DEF IInv

\* The invariant holds in every behaviour.
THEOREM LinkInvariant == Spec => [](part = "link" => IInv)
<1>1. Init => (part = "link" => IInv)
  BY LinkInit DEF Init
<1>2. (part = "link" => IInv) /\ [Next]_vars => (part = "link" => IInv)'
  <2> SUFFICES ASSUME part = "link" => IInv, [Next]_vars, part' = "link"
               PROVE  IInv'
    OBVIOUS
  <2>1. part = "link" /\ [K!Next]_(K!vars)
    BY DEF Next, vars, K!vars
  <2>2. QED
    BY <2>1, LinkStep
<1>3. QED
  BY <1>1, <1>2, PTL DEF Spec

\* A link that is over and settled has nothing open left.
LEMMA AllIsClosed == IInv => K!NothingLeft
<1> SUFFICES ASSUME IInv, K!Settled, K!Over, ~unclosed, limited = {} PROVE open = {}
  BY DEF K!NothingLeft
<1> USE DEF IInv, LinkInv, PcInv, BeforeInv, ServerInv, ClientInv, EndsInv, FlowInv, EmptyInv,
        Linked, Accepted, K!Copies, K!Settled
<1>1. CASE ~Linked
  BY <1>1
<1>2. CASE Linked /\ kind # "udp"
  <2>1. CASE pc["up"] = "copy" /\ pc["down"] = "copy"
    BY <1>2, <2>1 DEF K!Over, K!Broken, K!Source, K!Dest, K!TypeOK
  <2>2. CASE pc["up"] = "ended" \/ pc["down"] = "ended"
    BY <1>2, <2>2 DEF K!Broken, K!Source, K!Dest, K!TypeOK, K!Ends
  <2>3. QED
    BY <1>2, <2>1, <2>2
<1>3. CASE Linked /\ kind = "udp"
  <2>1. CASE pc["server"] = "left"
    BY <1>3, <2>1 DEF K!Broken, K!Source, K!Dest, K!TypeOK, K!Ends
  <2>2. CASE pc["server"] = "control"
    BY <1>3, <2>2 DEF K!Over, K!Broken, K!Source, K!Dest, K!TypeOK, K!Ends
  <2>3. QED
    BY <1>3, <2>1, <2>2
<1>4. QED
  BY <1>1, <1>2, <1>3

\* CopyWaitGroup, copyConnGroup and the deferred calls of handleUDP and handleUdp: a link
\* that is over is closed at both ends, but for the requests that are answered and not
\* closed and the copies that the flow limit ends, and a user of an association gets an
\* empty datagram only after the client has given up on one of the user's.
THEOREM LinkIsSound == Spec => []LinkSound
<1>1. (part = "link" => IInv) => LinkSound
  BY AllIsClosed DEF LinkSound, K!LinkSound, K!NothingMadeUp, IInv, EmptyInv
<1>2. QED
  BY <1>1, LinkInvariant, PTL

-----------------------------------------------------------------------------
(* The end of the mux (MuxClose).                                          *)
alive == v1
IsClose == v2
gpc == v3
closeChan == v4
newConnChOpen == v5
connOpen == v6
writeQueue == v7
writeStop == v8
newConnQueue == v9
newConnStop == v10
connMap == v11
isClose == v12
user == v13
next == v14
missed == v15
late == v16

USE DEF alive, IsClose, gpc, closeChan, newConnChOpen, connOpen, writeQueue, writeStop,
        newConnQueue, newConnStop, connMap, isClose, user, next, missed, late

\* The steps of Close.
Closing == {"setIsClose", "map", "chan", "newConnCh", "release", "stop", "ended"}

\* Each goroutine is at one of its steps.
GoroutineInv ==
    /\ gpc \in [X!Goroutines -> {"run", "pingCh", "pop", "enlist", "asleep", "set", "handOver",
                                 "ok", "head", "select"} \cup Closing]
    /\ gpc["accept"] \in {"pop", "enlist", "asleep", "set", "handOver", "ok", "ended"}
    /\ gpc["pong"] \in {"head", "select", "ended"}
    /\ gpc["accept"] \in {"set", "handOver", "ok"} => next \in MuxConns

\* What a call of Close has done by the time it is at a step, and what all of them
\* have done once the queues are stopped.
Past(steps) == writeStop \/ \E g \in X!Closers : gpc[g] \in steps

DoneInv ==
    /\ newConnStop <=> writeStop
    /\ Past({"map", "chan", "newConnCh", "release", "stop"}) => IsClose
    /\ Past({"release", "stop"}) => ~newConnChOpen
    /\ Past({"stop"}) => ~connOpen
    /\ writeStop => \E g \in X!Closers : gpc[g] = "ended"

\* From the moment the map is closed a connection gets into it only late, and the
\* goroutine of the pings has been told.
ToldInv ==
    /\ Past({"chan", "newConnCh", "release", "stop"}) => connMap \subseteq isClose \cup late
    /\ Past({"newConnCh", "release", "stop"}) => closeChan = 1 \/ gpc["pong"] # "select"

\* A connection that Accept returned is in the map until it is closed.
UserInv ==
    /\ user \subseteq connMap \cup isClose
    /\ gpc["accept"] = "handOver" => next \in connMap \cup isClose

\* Who sleeps at a stopped queue was overtaken by the Stop.
SleepInv == writeStop => \A g \in {"write", "accept"} : gpc[g] = "asleep" => g \in missed

CloseInv == X!TypeOK /\ GoroutineInv /\ DoneInv /\ ToldInv /\ UserInv /\ SleepInv

\* Every goroutine stays at a step of its own.
LEMMA CloseGoroutines ==
    ASSUME CloseInv, [X!Next]_(X!vars)
    PROVE  GoroutineInv'
<1> USE DEF CloseInv, GoroutineInv, Closing, X!Goroutines, X!Closers, X!TypeOK, X!At, X!Goto, X!Move, X!mem, X!queues, X!conns, X!hist
<1>1. ASSUME NEW c \in MuxConns, X!ReadNewConn(c) PROVE GoroutineInv'
  BY <1>1 DEF X!ReadNewConn, X!Woken
<1>2. ASSUME NEW c \in MuxConns, X!PopConn(c) PROVE GoroutineInv'
  BY <1>2 DEF X!PopConn
<1>3. ASSUME NEW c \in MuxConns, X!CloseConn(c) PROVE GoroutineInv'
  BY <1>3 DEF X!CloseConn
<1>4. CASE X!ReadPing
  BY <1>4 DEF X!ReadPing, X!SendInfo, X!Woken
<1>5. CASE X!ReadPingReturn
  BY <1>5 DEF X!ReadPingReturn
<1>6. CASE X!TakePing
  BY <1>6 DEF X!TakePing
<1>7. CASE X!ReadEnds
  BY <1>7 DEF X!ReadEnds
<1>8. CASE X!PongLoops
  BY <1>8 DEF X!PongLoops
<1>9. CASE X!TakeCloseChan
  BY <1>9 DEF X!TakeCloseChan
<1>10. CASE X!Ping
  BY <1>10 DEF X!Ping, X!SendInfo, X!Woken
<1>11. CASE X!PingEnds
  BY <1>11 DEF X!PingEnds
<1>12. CASE X!PopPacket
  BY <1>12 DEF X!PopPacket
<1>13. CASE X!SetConn
  BY <1>13 DEF X!SetConn, X!MapClosed
<1>14. CASE X!Accept
  BY <1>14 DEF X!Accept
<1>15. CASE X!SendOk
  BY <1>15 DEF X!SendOk, X!SendInfo, X!Woken
<1>16. CASE X!HandOverPanics
  BY <1>16 DEF X!HandOverPanics
<1>17. ASSUME NEW g \in {"write", "accept"}, X!Look(g) PROVE GoroutineInv'
  BY <1>17 DEF X!Look, X!Stop, X!Empty
<1>18. ASSUME NEW g \in {"write", "accept"}, X!Enlist(g) PROVE GoroutineInv'
  BY <1>18 DEF X!Enlist, X!Stop, X!Empty
<1>19. ASSUME NEW g \in X!Closers, X!CallClose(g) PROVE GoroutineInv'
  BY <1>19 DEF X!CallClose
<1>20. ASSUME NEW g \in X!Closers, X!SetIsClose(g) PROVE GoroutineInv'
  BY <1>20 DEF X!SetIsClose
<1>21. ASSUME NEW g \in X!Closers, X!CloseMap(g) PROVE GoroutineInv'
  BY <1>21 DEF X!CloseMap
<1>22. ASSUME NEW g \in X!Closers, X!MapRace(g) PROVE GoroutineInv'
  BY <1>22 DEF X!MapRace
<1>23. ASSUME NEW g \in X!Closers, X!SendCloseChan(g) PROVE GoroutineInv'
  BY <1>23 DEF X!SendCloseChan
<1>24. ASSUME NEW g \in X!Closers, X!CloseNewConnCh(g) PROVE GoroutineInv'
  BY <1>24 DEF X!CloseNewConnCh
<1>25. ASSUME NEW g \in X!Closers, X!Release(g) PROVE GoroutineInv'
  BY <1>25 DEF X!Release
<1>26. ASSUME NEW g \in X!Closers, X!StopQueues(g) PROVE GoroutineInv'
  BY <1>26 DEF X!StopQueues, X!WokenByStop, X!Woken
<1>27. CASE UNCHANGED X!vars
  BY <1>27 DEF X!vars
<1>28. QED
  BY <1>1, <1>2, <1>3, <1>4, <1>5, <1>6, <1>7, <1>8, <1>9, <1>10, <1>11, <1>12, <1>13, <1>14, <1>15, <1>16, <1>17, <1>18, <1>19, <1>20, <1>21, <1>22, <1>23, <1>24, <1>25, <1>26, <1>27 DEF X!Next, X!CloseStep

\* Every step keeps the types.
LEMMA CloseTypes ==
    ASSUME CloseInv, [X!Next]_(X!vars)
    PROVE  X!TypeOK'
<1> USE DEF CloseInv, GoroutineInv, Closing, X!Goroutines, X!Closers, X!TypeOK, X!At, X!Goto, X!Move, X!mem, X!queues, X!conns, X!hist
<1> USE PacketsAssumption
<1>1. ASSUME NEW c \in MuxConns, X!ReadNewConn(c) PROVE X!TypeOK'
  BY <1>1 DEF X!ReadNewConn, X!Woken
<1>2. ASSUME NEW c \in MuxConns, X!PopConn(c) PROVE X!TypeOK'
  BY <1>2 DEF X!PopConn
<1>3. ASSUME NEW c \in MuxConns, X!CloseConn(c) PROVE X!TypeOK'
  BY <1>3 DEF X!CloseConn
<1>4. CASE X!ReadPing
  BY <1>4 DEF X!ReadPing, X!SendInfo, X!Woken
<1>5. CASE X!ReadPingReturn
  BY <1>5 DEF X!ReadPingReturn
<1>6. CASE X!TakePing
  BY <1>6 DEF X!TakePing
<1>7. CASE X!ReadEnds
  BY <1>7 DEF X!ReadEnds
<1>8. CASE X!PongLoops
  BY <1>8 DEF X!PongLoops
<1>9. CASE X!TakeCloseChan
  BY <1>9 DEF X!TakeCloseChan
<1>10. CASE X!Ping
  BY <1>10 DEF X!Ping, X!SendInfo, X!Woken
<1>11. CASE X!PingEnds
  BY <1>11 DEF X!PingEnds
<1>12. CASE X!PopPacket
  BY <1>12 DEF X!PopPacket
<1>13. CASE X!SetConn
  BY <1>13 DEF X!SetConn, X!MapClosed
<1>14. CASE X!Accept
  BY <1>14 DEF X!Accept
<1>15. CASE X!SendOk
  BY <1>15 DEF X!SendOk, X!SendInfo, X!Woken
<1>16. CASE X!HandOverPanics
  BY <1>16 DEF X!HandOverPanics
<1>17. ASSUME NEW g \in {"write", "accept"}, X!Look(g) PROVE X!TypeOK'
  BY <1>17 DEF X!Look, X!Stop, X!Empty
<1>18. ASSUME NEW g \in {"write", "accept"}, X!Enlist(g) PROVE X!TypeOK'
  BY <1>18 DEF X!Enlist, X!Stop, X!Empty
<1>19. ASSUME NEW g \in X!Closers, X!CallClose(g) PROVE X!TypeOK'
  BY <1>19 DEF X!CallClose
<1>20. ASSUME NEW g \in X!Closers, X!SetIsClose(g) PROVE X!TypeOK'
  BY <1>20 DEF X!SetIsClose
<1>21. ASSUME NEW g \in X!Closers, X!CloseMap(g) PROVE X!TypeOK'
  BY <1>21 DEF X!CloseMap
<1>22. ASSUME NEW g \in X!Closers, X!MapRace(g) PROVE X!TypeOK'
  BY <1>22 DEF X!MapRace
<1>23. ASSUME NEW g \in X!Closers, X!SendCloseChan(g) PROVE X!TypeOK'
  BY <1>23 DEF X!SendCloseChan
<1>24. ASSUME NEW g \in X!Closers, X!CloseNewConnCh(g) PROVE X!TypeOK'
  BY <1>24 DEF X!CloseNewConnCh
<1>25. ASSUME NEW g \in X!Closers, X!Release(g) PROVE X!TypeOK'
  <2>1. 0 \in 0 .. MaxPackets
    OBVIOUS
  <2>2. QED
    BY <1>25, <2>1 DEF X!Release
<1>26. ASSUME NEW g \in X!Closers, X!StopQueues(g) PROVE X!TypeOK'
  BY <1>26 DEF X!StopQueues, X!WokenByStop, X!Woken
<1>27. CASE UNCHANGED X!vars
  BY <1>27 DEF X!vars
<1>28. QED
  BY <1>1, <1>2, <1>3, <1>4, <1>5, <1>6, <1>7, <1>8, <1>9, <1>10, <1>11, <1>12, <1>13, <1>14, <1>15, <1>16, <1>17, <1>18, <1>19, <1>20, <1>21, <1>22, <1>23, <1>24, <1>25, <1>26, <1>27 DEF X!Next, X!CloseStep

\* What the calls of Close have done by their steps stays done.
LEMMA CloseDone ==
    ASSUME CloseInv, [X!Next]_(X!vars)
    PROVE  DoneInv'
<1> USE DEF CloseInv, GoroutineInv, Closing, X!Goroutines, X!Closers, DoneInv, Past, X!At, X!Goto, X!Move, X!mem, X!queues, X!conns, X!hist
<1>1. ASSUME NEW c \in MuxConns, X!ReadNewConn(c) PROVE DoneInv'
  BY <1>1 DEF X!ReadNewConn, X!Woken
<1>2. ASSUME NEW c \in MuxConns, X!PopConn(c) PROVE DoneInv'
  BY <1>2 DEF X!PopConn
<1>3. ASSUME NEW c \in MuxConns, X!CloseConn(c) PROVE DoneInv'
  BY <1>3 DEF X!CloseConn
<1>4. CASE X!ReadPing
  BY <1>4 DEF X!ReadPing, X!SendInfo, X!Woken
<1>5. CASE X!ReadPingReturn
  BY <1>5 DEF X!ReadPingReturn
<1>6. CASE X!TakePing
  BY <1>6 DEF X!TakePing
<1>7. CASE X!ReadEnds
  BY <1>7 DEF X!ReadEnds
<1>8. CASE X!PongLoops
  BY <1>8 DEF X!PongLoops
<1>9. CASE X!TakeCloseChan
  BY <1>9 DEF X!TakeCloseChan
<1>10. CASE X!Ping
  BY <1>10 DEF X!Ping, X!SendInfo, X!Woken
<1>11. CASE X!PingEnds
  BY <1>11 DEF X!PingEnds
<1>12. CASE X!PopPacket
  BY <1>12 DEF X!PopPacket
<1>13. CASE X!SetConn
  BY <1>13 DEF X!SetConn, X!MapClosed
<1>14. CASE X!Accept
  BY <1>14 DEF X!Accept
<1>15. CASE X!SendOk
  BY <1>15 DEF X!SendOk, X!SendInfo, X!Woken
<1>16. CASE X!HandOverPanics
  BY <1>16 DEF X!HandOverPanics
<1>17. ASSUME NEW g \in {"write", "accept"}, X!Look(g) PROVE DoneInv'
  BY <1>17 DEF X!Look, X!Stop, X!Empty
<1>18. ASSUME NEW g \in {"write", "accept"}, X!Enlist(g) PROVE DoneInv'
  BY <1>18 DEF X!Enlist, X!Stop, X!Empty
<1>19. ASSUME NEW g \in X!Closers, X!CallClose(g) PROVE DoneInv'
  BY <1>19 DEF X!CallClose
<1>20. ASSUME NEW g \in X!Closers, X!SetIsClose(g) PROVE DoneInv'
  BY <1>20 DEF X!SetIsClose
<1>21. ASSUME NEW g \in X!Closers, X!CloseMap(g) PROVE DoneInv'
  BY <1>21 DEF X!CloseMap
<1>22. ASSUME NEW g \in X!Closers, X!MapRace(g) PROVE DoneInv'
  BY <1>22 DEF X!MapRace
<1>23. ASSUME NEW g \in X!Closers, X!SendCloseChan(g) PROVE DoneInv'
  BY <1>23 DEF X!SendCloseChan
<1>24. ASSUME NEW g \in X!Closers, X!CloseNewConnCh(g) PROVE DoneInv'
  BY <1>24 DEF X!CloseNewConnCh
<1>25. ASSUME NEW g \in X!Closers, X!Release(g) PROVE DoneInv'
  BY <1>25 DEF X!Release
<1>26. ASSUME NEW g \in X!Closers, X!StopQueues(g) PROVE DoneInv'
  BY <1>26 DEF X!StopQueues, X!WokenByStop, X!Woken
<1>27. CASE UNCHANGED X!vars
  BY <1>27 DEF X!vars
<1>28. QED
  BY <1>1, <1>2, <1>3, <1>4, <1>5, <1>6, <1>7, <1>8, <1>9, <1>10, <1>11, <1>12, <1>13, <1>14, <1>15, <1>16, <1>17, <1>18, <1>19, <1>20, <1>21, <1>22, <1>23, <1>24, <1>25, <1>26, <1>27 DEF X!Next, X!CloseStep

\* After the map was closed, what gets into it is late; pong does not miss the end.
LEMMA CloseTold ==
    ASSUME CloseInv, [X!Next]_(X!vars)
    PROVE  ToldInv'
<1> USE DEF CloseInv, GoroutineInv, Closing, X!Goroutines, X!Closers, X!TypeOK, DoneInv, ToldInv, Past, X!At, X!Goto, X!Move, X!mem, X!queues, X!conns, X!hist
<1>1. ASSUME NEW c \in MuxConns, X!ReadNewConn(c) PROVE ToldInv'
  BY <1>1 DEF X!ReadNewConn, X!Woken
<1>2. ASSUME NEW c \in MuxConns, X!PopConn(c) PROVE ToldInv'
  BY <1>2 DEF X!PopConn
<1>3. ASSUME NEW c \in MuxConns, X!CloseConn(c) PROVE ToldInv'
  BY <1>3 DEF X!CloseConn
<1>4. CASE X!ReadPing
  BY <1>4 DEF X!ReadPing, X!SendInfo, X!Woken
<1>5. CASE X!ReadPingReturn
  BY <1>5 DEF X!ReadPingReturn
<1>6. CASE X!TakePing
  BY <1>6 DEF X!TakePing
<1>7. CASE X!ReadEnds
  BY <1>7 DEF X!ReadEnds
<1>8. CASE X!PongLoops
  BY <1>8 DEF X!PongLoops
<1>9. CASE X!TakeCloseChan
  BY <1>9 DEF X!TakeCloseChan
<1>10. CASE X!Ping
  BY <1>10 DEF X!Ping, X!SendInfo, X!Woken
<1>11. CASE X!PingEnds
  BY <1>11 DEF X!PingEnds
<1>12. CASE X!PopPacket
  BY <1>12 DEF X!PopPacket
<1>13. CASE X!SetConn
  BY <1>13 DEF X!SetConn, X!MapClosed
<1>14. CASE X!Accept
  BY <1>14 DEF X!Accept
<1>15. CASE X!SendOk
  BY <1>15 DEF X!SendOk, X!SendInfo, X!Woken
<1>16. CASE X!HandOverPanics
  BY <1>16 DEF X!HandOverPanics
<1>17. ASSUME NEW g \in {"write", "accept"}, X!Look(g) PROVE ToldInv'
  BY <1>17 DEF X!Look, X!Stop, X!Empty
<1>18. ASSUME NEW g \in {"write", "accept"}, X!Enlist(g) PROVE ToldInv'
  BY <1>18 DEF X!Enlist, X!Stop, X!Empty
<1>19. ASSUME NEW g \in X!Closers, X!CallClose(g) PROVE ToldInv'
  BY <1>19 DEF X!CallClose
<1>20. ASSUME NEW g \in X!Closers, X!SetIsClose(g) PROVE ToldInv'
  BY <1>20 DEF X!SetIsClose
<1>21. ASSUME NEW g \in X!Closers, X!CloseMap(g) PROVE ToldInv'
  BY <1>21 DEF X!CloseMap
<1>22. ASSUME NEW g \in X!Closers, X!MapRace(g) PROVE ToldInv'
  BY <1>22 DEF X!MapRace
<1>23. ASSUME NEW g \in X!Closers, X!SendCloseChan(g) PROVE ToldInv'
  BY <1>23 DEF X!SendCloseChan
<1>24. ASSUME NEW g \in X!Closers, X!CloseNewConnCh(g) PROVE ToldInv'
  BY <1>24 DEF X!CloseNewConnCh
<1>25. ASSUME NEW g \in X!Closers, X!Release(g) PROVE ToldInv'
  BY <1>25 DEF X!Release
<1>26. ASSUME NEW g \in X!Closers, X!StopQueues(g) PROVE ToldInv'
  BY <1>26 DEF X!StopQueues, X!WokenByStop, X!Woken
<1>27. CASE UNCHANGED X!vars
  BY <1>27 DEF X!vars
<1>28. QED
  BY <1>1, <1>2, <1>3, <1>4, <1>5, <1>6, <1>7, <1>8, <1>9, <1>10, <1>11, <1>12, <1>13, <1>14, <1>15, <1>16, <1>17, <1>18, <1>19, <1>20, <1>21, <1>22, <1>23, <1>24, <1>25, <1>26, <1>27 DEF X!Next, X!CloseStep

\* A connection handed to its user is in the map or closed.
LEMMA CloseUser ==
    ASSUME CloseInv, [X!Next]_(X!vars)
    PROVE  UserInv'
<1> USE DEF CloseInv, GoroutineInv, Closing, X!Goroutines, X!Closers, UserInv, X!At, X!Goto, X!Move, X!mem, X!queues, X!conns, X!hist
<1>1. ASSUME NEW c \in MuxConns, X!ReadNewConn(c) PROVE UserInv'
  BY <1>1 DEF X!ReadNewConn, X!Woken
<1>2. ASSUME NEW c \in MuxConns, X!PopConn(c) PROVE UserInv'
  BY <1>2 DEF X!PopConn
<1>3. ASSUME NEW c \in MuxConns, X!CloseConn(c) PROVE UserInv'
  BY <1>3 DEF X!CloseConn
<1>4. CASE X!ReadPing
  BY <1>4 DEF X!ReadPing, X!SendInfo, X!Woken
<1>5. CASE X!ReadPingReturn
  BY <1>5 DEF X!ReadPingReturn
<1>6. CASE X!TakePing
  BY <1>6 DEF X!TakePing
<1>7. CASE X!ReadEnds
  BY <1>7 DEF X!ReadEnds
<1>8. CASE X!PongLoops
  BY <1>8 DEF X!PongLoops
<1>9. CASE X!TakeCloseChan
  BY <1>9 DEF X!TakeCloseChan
<1>10. CASE X!Ping
  BY <1>10 DEF X!Ping, X!SendInfo, X!Woken
<1>11. CASE X!PingEnds
  BY <1>11 DEF X!PingEnds
<1>12. CASE X!PopPacket
  BY <1>12 DEF X!PopPacket
<1>13. CASE X!SetConn
  BY <1>13 DEF X!SetConn, X!MapClosed
<1>14. CASE X!Accept
  BY <1>14 DEF X!Accept
<1>15. CASE X!SendOk
  BY <1>15 DEF X!SendOk, X!SendInfo, X!Woken
<1>16. CASE X!HandOverPanics
  BY <1>16 DEF X!HandOverPanics
<1>17. ASSUME NEW g \in {"write", "accept"}, X!Look(g) PROVE UserInv'
  BY <1>17 DEF X!Look, X!Stop, X!Empty
<1>18. ASSUME NEW g \in {"write", "accept"}, X!Enlist(g) PROVE UserInv'
  BY <1>18 DEF X!Enlist, X!Stop, X!Empty
<1>19. ASSUME NEW g \in X!Closers, X!CallClose(g) PROVE UserInv'
  BY <1>19 DEF X!CallClose
<1>20. ASSUME NEW g \in X!Closers, X!SetIsClose(g) PROVE UserInv'
  BY <1>20 DEF X!SetIsClose
<1>21. ASSUME NEW g \in X!Closers, X!CloseMap(g) PROVE UserInv'
  BY <1>21 DEF X!CloseMap
<1>22. ASSUME NEW g \in X!Closers, X!MapRace(g) PROVE UserInv'
  BY <1>22 DEF X!MapRace
<1>23. ASSUME NEW g \in X!Closers, X!SendCloseChan(g) PROVE UserInv'
  BY <1>23 DEF X!SendCloseChan
<1>24. ASSUME NEW g \in X!Closers, X!CloseNewConnCh(g) PROVE UserInv'
  BY <1>24 DEF X!CloseNewConnCh
<1>25. ASSUME NEW g \in X!Closers, X!Release(g) PROVE UserInv'
  BY <1>25 DEF X!Release
<1>26. ASSUME NEW g \in X!Closers, X!StopQueues(g) PROVE UserInv'
  BY <1>26 DEF X!StopQueues, X!WokenByStop, X!Woken
<1>27. CASE UNCHANGED X!vars
  BY <1>27 DEF X!vars
<1>28. QED
  BY <1>1, <1>2, <1>3, <1>4, <1>5, <1>6, <1>7, <1>8, <1>9, <1>10, <1>11, <1>12, <1>13, <1>14, <1>15, <1>16, <1>17, <1>18, <1>19, <1>20, <1>21, <1>22, <1>23, <1>24, <1>25, <1>26, <1>27 DEF X!Next, X!CloseStep

\* Nobody sleeps through a Stop but who was overtaken by it.
LEMMA CloseSleep ==
    ASSUME CloseInv, [X!Next]_(X!vars)
    PROVE  SleepInv'
<1> USE DEF CloseInv, GoroutineInv, Closing, X!Goroutines, X!Closers, DoneInv, SleepInv, X!At, X!Goto, X!Move, X!mem, X!queues, X!conns, X!hist
<1>1. ASSUME NEW c \in MuxConns, X!ReadNewConn(c) PROVE SleepInv'
  BY <1>1 DEF X!ReadNewConn, X!Woken
<1>2. ASSUME NEW c \in MuxConns, X!PopConn(c) PROVE SleepInv'
  BY <1>2 DEF X!PopConn
<1>3. ASSUME NEW c \in MuxConns, X!CloseConn(c) PROVE SleepInv'
  BY <1>3 DEF X!CloseConn
<1>4. CASE X!ReadPing
  BY <1>4 DEF X!ReadPing, X!SendInfo, X!Woken
<1>5. CASE X!ReadPingReturn
  BY <1>5 DEF X!ReadPingReturn
<1>6. CASE X!TakePing
  BY <1>6 DEF X!TakePing
<1>7. CASE X!ReadEnds
  BY <1>7 DEF X!ReadEnds
<1>8. CASE X!PongLoops
  BY <1>8 DEF X!PongLoops
<1>9. CASE X!TakeCloseChan
  BY <1>9 DEF X!TakeCloseChan
<1>10. CASE X!Ping
  BY <1>10 DEF X!Ping, X!SendInfo, X!Woken
<1>11. CASE X!PingEnds
  BY <1>11 DEF X!PingEnds
<1>12. CASE X!PopPacket
  BY <1>12 DEF X!PopPacket
<1>13. CASE X!SetConn
  BY <1>13 DEF X!SetConn, X!MapClosed
<1>14. CASE X!Accept
  BY <1>14 DEF X!Accept
<1>15. CASE X!SendOk
  BY <1>15 DEF X!SendOk, X!SendInfo, X!Woken
<1>16. CASE X!HandOverPanics
  BY <1>16 DEF X!HandOverPanics
<1>17. ASSUME NEW g \in {"write", "accept"}, X!Look(g) PROVE SleepInv'
  BY <1>17 DEF X!Look, X!Stop, X!Empty
<1>18. ASSUME NEW g \in {"write", "accept"}, X!Enlist(g) PROVE SleepInv'
  BY <1>18 DEF X!Enlist, X!Stop, X!Empty
<1>19. ASSUME NEW g \in X!Closers, X!CallClose(g) PROVE SleepInv'
  BY <1>19 DEF X!CallClose
<1>20. ASSUME NEW g \in X!Closers, X!SetIsClose(g) PROVE SleepInv'
  BY <1>20 DEF X!SetIsClose
<1>21. ASSUME NEW g \in X!Closers, X!CloseMap(g) PROVE SleepInv'
  BY <1>21 DEF X!CloseMap
<1>22. ASSUME NEW g \in X!Closers, X!MapRace(g) PROVE SleepInv'
  BY <1>22 DEF X!MapRace
<1>23. ASSUME NEW g \in X!Closers, X!SendCloseChan(g) PROVE SleepInv'
  BY <1>23 DEF X!SendCloseChan
<1>24. ASSUME NEW g \in X!Closers, X!CloseNewConnCh(g) PROVE SleepInv'
  BY <1>24 DEF X!CloseNewConnCh
<1>25. ASSUME NEW g \in X!Closers, X!Release(g) PROVE SleepInv'
  BY <1>25 DEF X!Release
<1>26. ASSUME NEW g \in X!Closers, X!StopQueues(g) PROVE SleepInv'
  BY <1>26 DEF X!StopQueues, X!WokenByStop, X!Woken
<1>27. CASE UNCHANGED X!vars
  BY <1>27 DEF X!vars
<1>28. QED
  BY <1>1, <1>2, <1>3, <1>4, <1>5, <1>6, <1>7, <1>8, <1>9, <1>10, <1>11, <1>12, <1>13, <1>14, <1>15, <1>16, <1>17, <1>18, <1>19, <1>20, <1>21, <1>22, <1>23, <1>24, <1>25, <1>26, <1>27 DEF X!Next, X!CloseStep

\* In the first state nothing is closed.
LEMMA CloseInit == X!Init => CloseInv
<1> SUFFICES ASSUME X!Init PROVE CloseInv
  OBVIOUS
<1>1. /\ gpc \in [X!Goroutines -> {"run", "pop", "head"}]
      /\ \A g \in X!Closers : gpc[g] \in {"run", "pop"}
      /\ gpc["accept"] = "pop" /\ gpc["pong"] = "head"
  BY DEF X!Init, X!Goroutines, X!Closers
<1>2. X!TypeOK
  <2>1. 0 \in 0 .. MaxPackets /\ 0 \in 0 .. 1
    BY PacketsAssumption
  <2>2. DOMAIN gpc = X!Goroutines
    BY <1>1
  <2>3. QED
    BY <2>1, <2>2 DEF X!Init, X!TypeOK
<1>3. GoroutineInv
  BY <1>1 DEF X!Init, GoroutineInv
<1>4. DoneInv /\ ToldInv /\ UserInv /\ SleepInv
  BY <1>1 DEF X!Init, DoneInv, ToldInv, UserInv, SleepInv, Past
<1>5. QED
  BY <1>2, <1>3, <1>4 DEF CloseInv

\* The invariant holds in every behaviour.
THEOREM CloseInvariant == Spec => [](part = "close" => CloseInv)
<1>1. Init => (part = "close" => CloseInv)
  BY CloseInit DEF Init
<1>2. (part = "close" => CloseInv) /\ [Next]_vars => (part = "close" => CloseInv)'
  <2> SUFFICES ASSUME part = "close" => CloseInv, [Next]_vars, part' = "close"
               PROVE  CloseInv'
    OBVIOUS
  <2>1. part = "close" /\ [X!Next]_(X!vars)
    BY DEF Next, vars, X!vars, X!mem, X!queues, X!conns, X!hist
  <2>2. QED
    BY <2>1, CloseGoroutines, CloseTypes, CloseDone, CloseTold, CloseUser, CloseSleep
       DEF CloseInv
<1>3. QED
  BY <1>1, <1>2, PTL DEF Spec

\* Mux.Close, whoever calls it and in whatever order: when the queues are stopped, the
\* connection below is closed, whoever still sleeps at a queue was overtaken by the Stop,
\* the goroutine of the pings was told, and every connection is closed but a late one.
THEOREM CloseIsSound == Spec => []CloseSound
<1>1. CloseInv => X!CloseSound
  BY DEF CloseInv, DoneInv, ToldInv, UserInv, SleepInv, Past, X!CloseSound, X!EverythingEnds
<1>2. QED
  <2>1. (part = "close" => CloseInv) => CloseSound
    BY <1>1 DEF CloseSound
  <2>2. QED
    BY <2>1, CloseInvariant, PTL

-----------------------------------------------------------------------------
(* npc with a configuration file (ConfigSession).                          *)
items == v1
isPub == v2
sessions == v3
npc == v4
at == v5
main == v6
toServer == v7
answers == v8
broken == v9
srv == v10
item == v11
piece == v12
tasks == v13
running == v14
connected == v15
deleted == v16
orphaned == v17
overtaken == v18
missing == v19

USE DEF items, isPub, sessions, npc, at, main, toServer, answers, broken, srv, item, piece,
        tasks, running, connected, deleted, orphaned, overtaken, missing

Positions == 1 .. Len(items)

\* What is on the connection.
QueueInv ==
    /\ items \in Seq([kind : STRING, pieces : 1 .. 2])
    /\ toServer \in Seq(Positions) /\ answers \in Seq(BOOLEAN)

\* What npc and the bridge have in hand belongs to the configuration and the session.
HandInv ==
    /\ isPub \in BOOLEAN /\ main \in BOOLEAN /\ broken \in BOOLEAN
    /\ npc = "await" => at <= Len(items)
    /\ srv \in {"item", "open"} => item \in Positions /\ piece \in 1 .. items[item].pieces
    /\ srv # "off" \/ npc # "dial" => sessions >= 1
    /\ main => npc = "running"

\* A client of the public key is of one session, and new in it.
KeyInv ==
    /\ ~isPub => deleted = {}
    /\ isPub => /\ connected \cup deleted \subseteq 1 .. sessions
                /\ \A t \in tasks : t[1] \in 1 .. sessions
    /\ srv = "conf" => isPub /\ \A t \in tasks : t[1] # sessions

\* Who is to delete the tasks of a client: the bridge finds it in Bridge.Client, or its
\* session is not over.
KeeperInv ==
    /\ \A t \in tasks : \/ t[1] \in connected \cup orphaned \cup overtaken
                        \/ t[1] = C!Me /\ (srv # "off" \/ (npc = "running" /\ ~main))
    /\ main => C!Me \in connected \/ srv \in {"close", "off"}

\* Everything in the file before an item is stored.
Stored(i) == \A j \in 1 .. i - 1 : <<C!Me, j, 1>> \in tasks

\* npc has sent an item: it is under way, in hand, or answered.
Awaiting ==
    /\ npc = "await" /\ ~broken /\ Stored(at)
    /\ \/ toServer = <<at>> /\ answers = <<>> /\ srv = "read"
       \/ /\ toServer = <<>> /\ answers = <<>> /\ srv \in {"item", "open"} /\ item = at
          /\ srv = "open" => <<C!Me, at, 1>> \in tasks
       \/ toServer = <<>> /\ answers = <<TRUE>> /\ srv = "read" /\ <<C!Me, at, 1>> \in tasks

\* With one port to a task each item has one answer: npc and the bridge are in step, until
\* the connection is broken, after which npc is told nothing or that it failed.
InStep ==
    /\ ~missing
    /\ broken => toServer = <<>> /\ answers \in {<<>>, <<FALSE>>}
    /\ npc # "dial" /\ ~(npc = "await" /\ broken) => C!Me \notin deleted
    /\ \/ npc = "dial" /\ broken
       \/ /\ npc = "conf" /\ toServer = <<>> /\ at = 1
          /\ \/ answers = <<>> /\ srv = "conf"
             \/ answers = <<TRUE>> /\ srv = "read"
             \/ broken /\ srv \in {"conf", "read", "off"}
       \/ /\ npc = "send" /\ toServer = <<>> /\ answers = <<>> /\ Stored(at)
          /\ srv = "read" \/ (srv = "off" /\ broken)
       \/ Awaiting
       \/ npc = "await" /\ broken /\ srv # "conf"
       \/ npc = "running" /\ broken /\ srv \in {"read", "off"}

OnePort == \A i \in Positions : items[i].pieces = 1

ConfigInv ==
    /\ C!TypeOK /\ QueueInv /\ HandInv /\ KeyInv /\ KeeperInv
    /\ OnePort /\ overtaken = {} => InStep

\* Sequences of one element or none.
LEMMA SmallSequences ==
    /\ \A x : Append(<<>>, x) = <<x>> /\ Head(<<x>>) = x /\ Tail(<<x>>) = <<>> /\ <<x>> # <<>>
    /\ \A x, y : <<x>> = <<y>> => x = y
  OBVIOUS

\* The types of the numbers.
LEMMA ConfigFacts ==
    ASSUME ConfigInv
    PROVE  /\ QueueInv /\ C!TypeOK /\ HandInv
           /\ sessions \in Nat /\ at \in Nat /\ Len(items) \in Nat
           /\ \A i \in Positions : items[i].pieces \in 1 .. 2
           /\ srv # "off" \/ npc # "dial" =>
                 C!Me \in 1 .. MaxConfigs /\ (isPub => C!Me \in 1 .. sessions)
<1>1. QueueInv /\ C!TypeOK /\ HandInv
  BY DEF ConfigInv
<1>2. Len(items) \in Nat /\ \A i \in Positions : items[i] \in [kind : STRING, pieces : 1 .. 2]
  BY <1>1, ElementOfSeq, LenProperties DEF QueueInv, Positions
<1>3. sessions \in Nat /\ at \in Nat
  BY <1>1, <1>2, ScriptAssumption DEF C!TypeOK
<1>4. MaxConfigs \in Nat /\ sessions <= MaxConfigs
  BY <1>1, ScriptAssumption DEF C!TypeOK
<1>5. srv # "off" \/ npc # "dial" =>
         C!Me \in 1 .. MaxConfigs /\ (isPub => C!Me \in 1 .. sessions)
  BY <1>1, <1>3, <1>4 DEF HandInv, C!Me
<1>6. QED
  BY <1>1, <1>2, <1>3, <1>5

\* The fields of a task.
LEMMA TaskOf == \A c, i, p : <<c, i, p>>[1] = c /\ <<c, i, p>>[2] = i /\ <<c, i, p>>[3] = p
  OBVIOUS

\* The configuration stays, and what the bridge has found stale.
LEMMA OverOnly ==
    ASSUME ConfigInv, [C!Next]_(C!vars), OnePort', overtaken' = {}
    PROVE  OnePort /\ overtaken = {} /\ InStep
<1>1. items' = items /\ (overtaken \subseteq overtaken')
  BY DEF C!Next, C!vars, C!stored, C!Dial, C!Send, C!ReadAnswer, C!Start, C!Connect, C!Disconnect,
     C!Break, C!NewConf, C!ReadItem, C!ReadFails, C!Skip, C!Refuse, C!NewHost, C!NewTask,
     C!OpenTask, C!DelClient, C!CloseClient, C!Stale
<1>2. OnePort /\ overtaken = {}
  BY <1>1 DEF OnePort, Positions
<1>3. QED
  BY <1>2 DEF ConfigInv

\* What a step does to the connection.
LEMMA ConfigWire ==
    ASSUME [C!Next]_(C!vars)
    PROVE  /\ items' = items
           /\ \/ answers' = answers \/ answers' = <<>>
              \/ answers # <<>> /\ answers' = Tail(answers)
              \/ answers' = Append(answers, TRUE) \/ answers' = Append(answers, FALSE)
           /\ \/ toServer' = toServer \/ toServer' = <<>>
              \/ toServer # <<>> /\ toServer' = Tail(toServer)
              \/ at <= Len(items) /\ toServer' = Append(toServer, at)
<1> DEFINE Goal == /\ items' = items
                   /\ \/ answers' = answers \/ answers' = <<>>
                      \/ answers # <<>> /\ answers' = Tail(answers)
                      \/ answers' = Append(answers, TRUE) \/ answers' = Append(answers, FALSE)
                   /\ \/ toServer' = toServer \/ toServer' = <<>>
                      \/ toServer # <<>> /\ toServer' = Tail(toServer)
                      \/ at <= Len(items) /\ toServer' = Append(toServer, at)
<1>1. CASE C!Dial
  BY <1>1 DEF C!Dial, C!wire
<1>2. CASE C!Send
  BY <1>2 DEF C!Send, C!wire
<1>3. CASE C!ReadAnswer
  BY <1>3 DEF C!ReadAnswer, C!wire
<1>4. CASE C!Start
  BY <1>4 DEF C!Start, C!wire
<1>5. CASE C!Connect
  BY <1>5 DEF C!Connect, C!wire
<1>6. CASE C!Disconnect
  BY <1>6 DEF C!Disconnect, C!wire
<1>7. CASE C!Break
  BY <1>7 DEF C!Break, C!wire
<1>8. CASE C!NewConf
  BY <1>8 DEF C!NewConf, C!Answer, C!wire
<1>9. CASE C!ReadItem
  BY <1>9 DEF C!ReadItem, C!wire
<1>10. CASE C!ReadFails
  BY <1>10 DEF C!ReadFails, C!wire
<1>11. CASE C!Skip
  BY <1>11 DEF C!Skip, C!Proceed, C!Answer, C!wire
<1>12. CASE C!Refuse
  BY <1>12 DEF C!Refuse, C!Fail, C!wire
<1>13. CASE C!NewHost
  BY <1>13 DEF C!NewHost, C!Proceed, C!Answer, C!wire
<1>14. CASE C!NewTask
  BY <1>14 DEF C!NewTask, C!Fail, C!wire
<1>15. CASE C!OpenTask
  BY <1>15 DEF C!OpenTask, C!Proceed, C!Answer, C!wire
<1>16. CASE C!DelClient
  BY <1>16 DEF C!DelClient, C!wire
<1>17. CASE C!CloseClient
  BY <1>17 DEF C!CloseClient, C!wire
<1>18. ASSUME NEW c \in 1 .. MaxConfigs, C!Stale(c) PROVE Goal
  BY <1>18 DEF C!Stale, C!wire
<1>19. CASE UNCHANGED C!vars
  BY <1>19 DEF C!vars
<1>20. QED
  BY <1>1, <1>2, <1>3, <1>4, <1>5, <1>6, <1>7, <1>8, <1>9, <1>10, <1>11, <1>12, <1>13, <1>14, <1>15, <1>16, <1>17, <1>18, <1>19 DEF C!Next

\* Every step keeps the types of what is on the connection.
LEMMA ConfigQueue == ASSUME ConfigInv, [C!Next]_(C!vars) PROVE QueueInv'
<1>1. QueueInv /\ items' = items /\ Positions' = Positions /\ at \in Nat /\ Len(items) \in Nat
      /\ at >= 1
  <2>1. QueueInv /\ items' = items /\ at \in Nat /\ Len(items) \in Nat /\ C!TypeOK
    BY ConfigFacts, ConfigWire
  <2>2. Positions' = Positions
    BY <2>1 DEF Positions
  <2>3. at >= 1
    BY <2>1 DEF C!TypeOK
  <2>4. QED
    BY <2>1, <2>2, <2>3
<1>2. answers' \in Seq(BOOLEAN)
  <2>1. answers \in Seq(BOOLEAN)
    BY <1>1 DEF QueueInv
  <2>2. Append(answers, TRUE) \in Seq(BOOLEAN) /\ Append(answers, FALSE) \in Seq(BOOLEAN)
    BY <2>1, AppendProperties
  <2>3. answers # <<>> => Tail(answers) \in Seq(BOOLEAN)
    BY <2>1, HeadTailProperties
  <2>4. QED
    BY <2>1, <2>2, <2>3, EmptySeq, ConfigWire
<1>3. toServer' \in Seq(Positions)
  <2>1. toServer \in Seq(Positions)
    BY <1>1 DEF QueueInv
  <2>2. at <= Len(items) => Append(toServer, at) \in Seq(Positions)
    <3>1. at <= Len(items) => at \in Positions
      BY <1>1 DEF Positions
    <3>2. QED
      BY <2>1, <3>1, AppendProperties
  <2>3. toServer # <<>> => Tail(toServer) \in Seq(Positions)
    BY <2>1, HeadTailProperties
  <2>4. QED
    BY <2>1, <2>2, <2>3, EmptySeq, ConfigWire
<1>4. QED
  BY <1>1, <1>2, <1>3 DEF QueueInv

\* NewTask stores the task, and goes on to DealBridgeTask or fails.
LEMMA NewTaskFacts ==
    ASSUME C!NewTask
    PROVE  /\ srv = "item" /\ tasks' = tasks \cup {<<C!Me, item, piece>>}
           /\ UNCHANGED <<items, isPub, sessions, npc, at, main, toServer, running, connected,
                          deleted, orphaned, overtaken, missing, item, piece>>
           /\ \/ srv' = "open" /\ UNCHANGED <<answers, broken>>
              \/ /\ srv' = "delete" /\ broken'
                 /\ answers' = IF broken THEN answers ELSE Append(answers, FALSE)
  BY DEF C!NewTask, C!Fail, C!Now, C!client

\* What the bridge has in hand is wanted.
LEMMA NowWanted ==
    ASSUME item \in Positions, piece \in 1 .. items[item].pieces,
           \A i \in Positions : items[i].pieces \in 1 .. 2
    PROVE  <<C!Me, item, piece>> \in C!Wanted(C!Me)
<1>1. piece \in 1 .. 2 /\ piece <= items[item].pieces
  BY DEF Positions
<1>2. <<C!Me, item, piece>> \in C!Pieces(C!Me)
  BY <1>1 DEF C!Pieces, Positions
<1>3. QED
  BY <1>1, <1>2, TaskOf DEF C!Wanted

\* When all items before the end are stored, and each has one port, all is.
LEMMA AllStored ==
    ASSUME Stored(at), at > Len(items), OnePort, at \in Nat, Len(items) \in Nat
    PROVE  C!Wanted(C!Me) \subseteq tasks
<1> SUFFICES ASSUME NEW t \in C!Wanted(C!Me) PROVE t \in tasks
  OBVIOUS
<1>1. PICK i \in 1 .. Len(items), p \in 1 .. 2 : t = <<C!Me, i, p>>
  BY DEF C!Wanted, C!Pieces
<1>2. p <= items[i].pieces
  BY <1>1, TaskOf DEF C!Wanted
<1>3. p = 1
  BY <1>1, <1>2 DEF OnePort, Positions
<1>4. i \in 1 .. at - 1
  BY <1>1
<1>5. QED
  BY <1>1, <1>3, <1>4 DEF Stored

\* Every step keeps what npc and the bridge have in hand.
LEMMA ConfigHand ==
    ASSUME ConfigInv, [C!Next]_(C!vars)
    PROVE  HandInv'
<1> USE DEF HandInv, Positions, C!wire, C!client, C!server, C!stored
<1>0. /\ QueueInv /\ C!TypeOK /\ HandInv /\ KeyInv /\ KeeperInv
      /\ sessions \in Nat /\ at \in Nat /\ Len(items) \in Nat
      /\ \A i \in Positions : items[i].pieces \in 1 .. 2
      /\ srv # "off" \/ npc # "dial" =>
            C!Me \in 1 .. MaxConfigs /\ (isPub => C!Me \in 1 .. sessions)
  BY ConfigFacts DEF ConfigInv
<1>a. isPub' = isPub /\ sessions' = sessions => C!Me' = C!Me
  BY DEF C!Me
<1>1. CASE C!Dial
  <2>1. sessions' = sessions + 1 /\ sessions + 1 >= 1
    BY <1>0, <1>1 DEF C!Dial
  <2>2. QED
    BY <1>0, <1>1, <2>1 DEF C!Dial
<1>2. CASE C!Send
  BY <1>0, <1>a, <1>2 DEF C!Send
<1>3. CASE C!ReadAnswer
  BY <1>0, <1>a, <1>3 DEF C!ReadAnswer
<1>4. CASE C!Start
  BY <1>0, <1>a, <1>4 DEF C!Start
<1>5. CASE C!Connect
  BY <1>0, <1>a, <1>5 DEF C!Connect
<1>6. CASE C!Disconnect
  BY <1>0, <1>a, <1>6 DEF C!Disconnect
<1>7. CASE C!Break
  BY <1>0, <1>a, <1>7 DEF C!Break
<1>8. CASE C!NewConf
  BY <1>0, <1>a, <1>8 DEF C!NewConf, C!Answer
<1>9. CASE C!ReadItem
  <2>1. Head(toServer) \in Positions
    BY <1>0, <1>9, HeadTailProperties DEF C!ReadItem, QueueInv
  <2>2. 1 \in 1 .. items[Head(toServer)].pieces
    <3>1. items[Head(toServer)].pieces \in 1 .. 2
      BY <1>0, <2>1
    <3>2. QED
      BY <3>1
  <2>3. QED
    BY <1>0, <1>9, <2>1, <2>2 DEF C!ReadItem
<1>10. CASE C!ReadFails
  BY <1>0, <1>a, <1>10 DEF C!ReadFails
<1>11. CASE C!Skip
  BY <1>0, <1>a, <1>11 DEF C!Skip, C!Proceed, C!Answer
<1>12. CASE C!Refuse
  BY <1>0, <1>a, <1>12 DEF C!Refuse, C!Fail
<1>13. CASE C!NewHost
  BY <1>0, <1>a, <1>13 DEF C!NewHost, C!Proceed, C!Answer, C!Now
<1>14. CASE C!NewTask
  BY <1>0, <1>a, <1>14 DEF C!NewTask, C!Fail, C!Now
<1>15. CASE C!OpenTask
  BY <1>0, <1>a, <1>15 DEF C!OpenTask, C!Proceed, C!Answer, C!Now
<1>16. CASE C!DelClient
  BY <1>0, <1>a, <1>16 DEF C!DelClient, C!Told
<1>17. CASE C!CloseClient
  BY <1>0, <1>a, <1>17 DEF C!CloseClient, C!DealClose, C!Of
<1>18. ASSUME NEW c \in 1 .. MaxConfigs, C!Stale(c) PROVE HandInv'
  BY <1>0, <1>a, <1>18 DEF C!Stale, C!DealClose, C!Of
<1>19. CASE UNCHANGED C!vars
  BY <1>0, <1>a, <1>19 DEF C!vars
<1>20. QED
  BY <1>1, <1>2, <1>3, <1>4, <1>5, <1>6, <1>7, <1>8, <1>9, <1>10, <1>11, <1>12, <1>13, <1>14, <1>15, <1>16, <1>17, <1>18, <1>19 DEF C!Next

\* Every step keeps a client of the public key to one session.
LEMMA ConfigClient ==
    ASSUME ConfigInv, [C!Next]_(C!vars)
    PROVE  KeyInv'
<1> USE DEF KeyInv, C!wire, C!client, C!server, C!stored
<1> USE TaskOf DEF HandInv
<1>0. /\ QueueInv /\ C!TypeOK /\ HandInv /\ KeyInv /\ KeeperInv
      /\ sessions \in Nat /\ at \in Nat /\ Len(items) \in Nat
      /\ \A i \in Positions : items[i].pieces \in 1 .. 2
      /\ srv # "off" \/ npc # "dial" =>
            C!Me \in 1 .. MaxConfigs /\ (isPub => C!Me \in 1 .. sessions)
  BY ConfigFacts DEF ConfigInv
<1>a. isPub' = isPub /\ sessions' = sessions => C!Me' = C!Me
  BY DEF C!Me
<1>1. CASE C!Dial
  <2>1. /\ sessions' = sessions + 1 /\ UNCHANGED <<isPub, tasks, connected, deleted>>
        /\ srv' = IF isPub THEN "conf" ELSE "read"
    BY <1>1 DEF C!Dial
  <2>2. \A i \in 1 .. sessions : i \in 1 .. sessions + 1 /\ i # sessions + 1
    BY <1>0
  <2>3. QED
    BY <1>0, <2>1, <2>2
<1>2. CASE C!Send
  BY <1>0, <1>a, <1>2 DEF C!Send
<1>3. CASE C!ReadAnswer
  BY <1>0, <1>a, <1>3 DEF C!ReadAnswer
<1>4. CASE C!Start
  BY <1>0, <1>a, <1>4 DEF C!Start
<1>5. CASE C!Connect
  BY <1>0, <1>a, <1>5 DEF C!Connect
<1>6. CASE C!Disconnect
  BY <1>0, <1>a, <1>6 DEF C!Disconnect
<1>7. CASE C!Break
  BY <1>0, <1>a, <1>7 DEF C!Break
<1>8. CASE C!NewConf
  BY <1>0, <1>a, <1>8 DEF C!NewConf, C!Answer
<1>9. CASE C!ReadItem
  BY <1>0, <1>a, <1>9 DEF C!ReadItem
<1>10. CASE C!ReadFails
  BY <1>0, <1>a, <1>10 DEF C!ReadFails
<1>11. CASE C!Skip
  BY <1>0, <1>a, <1>11 DEF C!Skip, C!Proceed, C!Answer
<1>12. CASE C!Refuse
  BY <1>0, <1>a, <1>12 DEF C!Refuse, C!Fail
<1>13. CASE C!NewHost
  BY <1>0, <1>a, <1>13 DEF C!NewHost, C!Proceed, C!Answer, C!Now
<1>14. CASE C!NewTask
  <2>1. /\ tasks' = tasks \cup {<<C!Me, item, piece>>} /\ srv = "item" /\ srv' \in {"open", "delete"}
        /\ isPub' = isPub /\ sessions' = sessions /\ connected' = connected /\ deleted' = deleted
    BY <1>14, NewTaskFacts
  <2>2. \A t \in tasks' : t \in tasks \/ t[1] = C!Me
    BY <2>1
  <2>3. isPub => C!Me \in 1 .. sessions
    BY <1>0, <2>1
  <2>4. QED
    BY <1>0, <1>a, <2>1, <2>2, <2>3
<1>15. CASE C!OpenTask
  BY <1>0, <1>a, <1>15 DEF C!OpenTask, C!Proceed, C!Answer, C!Now
<1>16. CASE C!DelClient
  BY <1>0, <1>a, <1>16 DEF C!DelClient, C!Told
<1>17. CASE C!CloseClient
  BY <1>0, <1>a, <1>17 DEF C!CloseClient, C!DealClose, C!Of
<1>18. ASSUME NEW c \in 1 .. MaxConfigs, C!Stale(c) PROVE KeyInv'
  BY <1>0, <1>a, <1>18 DEF C!Stale, C!DealClose, C!Of
<1>19. CASE UNCHANGED C!vars
  BY <1>0, <1>a, <1>19 DEF C!vars
<1>20. QED
  BY <1>1, <1>2, <1>3, <1>4, <1>5, <1>6, <1>7, <1>8, <1>9, <1>10, <1>11, <1>12, <1>13, <1>14, <1>15, <1>16, <1>17, <1>18, <1>19 DEF C!Next

\* Every step leaves somebody to delete each task.
LEMMA ConfigKeeper ==
    ASSUME ConfigInv, [C!Next]_(C!vars)
    PROVE  KeeperInv'
<1> USE DEF KeeperInv, C!wire, C!client, C!server, C!stored
<1> USE TaskOf DEF HandInv
<1>0. /\ QueueInv /\ C!TypeOK /\ HandInv /\ KeyInv /\ KeeperInv
      /\ sessions \in Nat /\ at \in Nat /\ Len(items) \in Nat
      /\ \A i \in Positions : items[i].pieces \in 1 .. 2
      /\ srv # "off" \/ npc # "dial" =>
            C!Me \in 1 .. MaxConfigs /\ (isPub => C!Me \in 1 .. sessions)
  BY ConfigFacts DEF ConfigInv
<1>a. isPub' = isPub /\ sessions' = sessions => C!Me' = C!Me
  BY DEF C!Me
<1>1. CASE C!Dial
  BY <1>0, <1>1 DEF C!Dial, C!Me
<1>2. CASE C!Send
  BY <1>0, <1>a, <1>2 DEF C!Send
<1>3. CASE C!ReadAnswer
  BY <1>0, <1>a, <1>3 DEF C!ReadAnswer
<1>4. CASE C!Start
  BY <1>0, <1>a, <1>4 DEF C!Start
<1>5. CASE C!Connect
  BY <1>0, <1>a, <1>5 DEF C!Connect
<1>6. CASE C!Disconnect
  BY <1>0, <1>a, <1>6 DEF C!Disconnect
<1>7. CASE C!Break
  BY <1>0, <1>a, <1>7 DEF C!Break
<1>8. CASE C!NewConf
  <2>1. /\ isPub' = isPub /\ sessions' = sessions /\ main' = main /\ npc' = npc /\ tasks' = tasks
        /\ orphaned' = orphaned /\ overtaken' = overtaken /\ srv = "conf"
        /\ \/ srv' = "read" /\ connected' = connected \cup {C!Me}
           \/ srv' = "off" /\ connected' = connected
    BY <1>8 DEF C!NewConf
  <2>2. \A t \in tasks : t[1] # C!Me
    BY <1>0, <2>1 DEF KeyInv, C!Me
  <2>3. C!Me' = C!Me
    BY <1>a, <2>1
  <2>4. QED
    BY <1>0, <2>1, <2>2, <2>3
<1>9. CASE C!ReadItem
  BY <1>0, <1>a, <1>9 DEF C!ReadItem
<1>10. CASE C!ReadFails
  BY <1>0, <1>a, <1>10 DEF C!ReadFails
<1>11. CASE C!Skip
  BY <1>0, <1>a, <1>11 DEF C!Skip, C!Proceed, C!Answer
<1>12. CASE C!Refuse
  BY <1>0, <1>a, <1>12 DEF C!Refuse, C!Fail
<1>13. CASE C!NewHost
  BY <1>0, <1>a, <1>13 DEF C!NewHost, C!Proceed, C!Answer, C!Now
<1>14. CASE C!NewTask
  <2>1. /\ tasks' = tasks \cup {<<C!Me, item, piece>>} /\ srv = "item" /\ srv' \in {"open", "delete"}
        /\ isPub' = isPub /\ sessions' = sessions /\ connected' = connected /\ main' = main
        /\ orphaned' = orphaned /\ overtaken' = overtaken
    BY <1>14, NewTaskFacts
  <2>2. \A t \in tasks' : t \in tasks \/ t[1] = C!Me
    BY <2>1
  <2>3. C!Me' = C!Me
    BY <1>a, <2>1
  <2>4. QED
    BY <1>0, <2>1, <2>2, <2>3
<1>15. CASE C!OpenTask
  BY <1>0, <1>a, <1>15 DEF C!OpenTask, C!Proceed, C!Answer, C!Now
<1>16. CASE C!DelClient
  BY <1>0, <1>a, <1>16 DEF C!DelClient, C!Told
<1>17. CASE C!CloseClient
  BY <1>0, <1>a, <1>17 DEF C!CloseClient, C!DealClose, C!Of
<1>18. ASSUME NEW c \in 1 .. MaxConfigs, C!Stale(c) PROVE KeeperInv'
  BY <1>0, <1>a, <1>18 DEF C!Stale, C!DealClose, C!Of
<1>19. CASE UNCHANGED C!vars
  BY <1>0, <1>a, <1>19 DEF C!vars
<1>20. QED
  BY <1>1, <1>2, <1>3, <1>4, <1>5, <1>6, <1>7, <1>8, <1>9, <1>10, <1>11, <1>12, <1>13, <1>14, <1>15, <1>16, <1>17, <1>18, <1>19 DEF C!Next

\* With one port to a task, every step keeps npc and the bridge in step.
LEMMA ConfigInStep ==
    ASSUME ConfigInv, [C!Next]_(C!vars), OnePort', overtaken' = {}
    PROVE  InStep'
<1> USE DEF InStep, Awaiting, Stored, C!wire, C!client, C!server, C!stored
<1> USE SmallSequences
<1>0. /\ QueueInv /\ C!TypeOK /\ HandInv /\ KeyInv /\ KeeperInv
      /\ sessions \in Nat /\ at \in Nat /\ Len(items) \in Nat
      /\ \A i \in Positions : items[i].pieces \in 1 .. 2
      /\ srv # "off" \/ npc # "dial" =>
            C!Me \in 1 .. MaxConfigs /\ (isPub => C!Me \in 1 .. sessions)
  BY ConfigFacts DEF ConfigInv
<1>a. isPub' = isPub /\ sessions' = sessions => C!Me' = C!Me
  BY DEF C!Me
<1>b. InStep /\ OnePort /\ overtaken = {}
  BY OverOnly
<1>1. CASE C!Dial
  <2>1. /\ sessions' = sessions + 1 /\ npc' = (IF isPub THEN "conf" ELSE "send") /\ at' = 1
        /\ srv' = (IF isPub THEN "conf" ELSE "read") /\ isPub' = isPub /\ items' = items
        /\ toServer' = <<>> /\ answers' = <<>> /\ broken' = FALSE /\ deleted' = deleted
        /\ missing' = missing
    BY <1>1 DEF C!Dial
  <2>2. C!Me' \notin deleted
    <3>1. CASE isPub
      <4>1. deleted \subseteq 1 .. sessions /\ C!Me' = sessions + 1
        BY <1>0, <2>1, <3>1 DEF KeyInv, C!Me
      <4>2. sessions + 1 \notin 1 .. sessions
        BY <1>0
      <4>3. QED
        BY <4>1, <4>2
    <3>2. CASE ~isPub
      BY <1>0, <3>2 DEF KeyInv
    <3>3. QED
      BY <3>1, <3>2
  <2>3. Stored(at)'
    BY <2>1 DEF Stored
  <2>4. CASE isPub
    BY <1>b, <2>1, <2>2, <2>4
  <2>5. CASE ~isPub
    BY <1>b, <2>1, <2>2, <2>3, <2>5
  <2>6. QED
    BY <2>4, <2>5
<1>2. CASE C!Send
  BY <1>0, <1>a, <1>2, <1>b DEF C!Send
<1>3. CASE C!ReadAnswer
  <2>1. /\ npc \in {"conf", "await"}
        /\ \/ /\ answers # <<>> /\ Head(answers) /\ answers' = Tail(answers)
              /\ npc' = "send" /\ at' = IF npc = "conf" THEN at ELSE at + 1
           \/ /\ IF answers = <<>> THEN broken ELSE ~Head(answers)
              /\ npc' = "dial" /\ answers' = answers /\ at' = at
        /\ UNCHANGED <<items, isPub, sessions, toServer, broken, srv, item, piece, tasks, deleted,
                       missing>>
    BY <1>3 DEF C!ReadAnswer
  <2>2. C!Me' = C!Me
    BY <1>a, <2>1
  <2>3. CASE npc = "conf"
    <3>1. toServer = <<>> /\ at = 1 /\ Stored(1)
      BY <1>b, <2>3 DEF Stored
    <3>2. CASE answers = <<>>
      BY <1>b, <2>1, <2>2, <2>3, <3>1, <3>2
    <3>3. CASE answers # <<>>
      <4>1. answers = <<TRUE>> \/ (answers = <<FALSE>> /\ broken)
        <5>1. CASE broken
          BY <1>b, <3>3, <5>1
        <5>2. CASE ~broken
          BY <1>b, <2>3, <3>3, <5>2
        <5>3. QED
          BY <5>1, <5>2
      <4>2. CASE answers = <<TRUE>>
        <5>1. ~broken /\ srv = "read"
          BY <1>b, <2>3, <4>2
        <5>2. npc' = "send" /\ answers' = <<>> /\ at' = 1
          BY <2>1, <2>3, <3>1, <4>2
        <5>3. QED
          BY <1>b, <2>1, <2>2, <2>3, <3>1, <5>1, <5>2
      <4>3. CASE answers = <<FALSE>> /\ broken
        BY <1>b, <2>1, <2>2, <2>3, <3>1, <4>3
      <4>4. QED
        BY <4>1, <4>2, <4>3
    <3>4. QED
      BY <3>2, <3>3
  <2>4. CASE npc = "await" /\ broken
    <3>1. npc' = "dial" /\ answers' = answers
      <4>1. answers = <<>> \/ answers = <<FALSE>>
        BY <1>b, <2>4
      <4>2. QED
        BY <2>1, <4>1
    <3>2. QED
      BY <1>b, <2>1, <2>2, <2>4, <3>1
  <2>5. CASE npc = "await" /\ ~broken
    <3>1. Awaiting
      BY <1>b, <2>5
    <3>2. /\ toServer = <<>> /\ answers = <<TRUE>> /\ srv = "read"
          /\ Stored(at) /\ <<C!Me, at, 1>> \in tasks
      BY <2>1, <2>5, <3>1
    <3>3. npc' = "send" /\ answers' = <<>> /\ at' = at + 1
      BY <2>1, <2>5, <3>2
    <3>4. Stored(at + 1)
      BY <1>0, <3>2 DEF Stored
    <3>5. QED
      BY <1>b, <2>1, <2>2, <2>5, <3>2, <3>3, <3>4
  <2>6. QED
    BY <2>1, <2>3, <2>4, <2>5
<1>4. CASE C!Start
  <2>1. /\ npc = "send" /\ at > Len(items) /\ npc' = "running" /\ broken' = TRUE
        /\ missing' = (missing \/ ~(C!Wanted(C!Me) \subseteq tasks))
        /\ UNCHANGED <<items, isPub, sessions, at, toServer, answers, srv, item, piece, tasks,
                       deleted>>
    BY <1>4 DEF C!Start
  <2>2. C!Me' = C!Me
    BY <1>a, <2>1
  <2>3. Stored(at)
    BY <1>b, <2>1
  <2>4. C!Wanted(C!Me) \subseteq tasks
    BY <1>0, <1>b, <2>1, <2>3, AllStored
  <2>5. QED
    BY <1>b, <2>1, <2>2, <2>4
<1>5. CASE C!Connect
  BY <1>0, <1>a, <1>5, <1>b DEF C!Connect
<1>6. CASE C!Disconnect
  BY <1>0, <1>a, <1>6, <1>b DEF C!Disconnect
<1>7. CASE C!Break
  BY <1>0, <1>a, <1>7, <1>b DEF C!Break
<1>8. CASE C!NewConf
  <2>1. /\ srv = "conf"
        /\ \/ /\ srv' = "read" /\ broken' = broken
              /\ answers' = IF broken THEN answers ELSE Append(answers, TRUE)
           \/ /\ srv' = "off" /\ broken' = TRUE
              /\ answers' = IF broken THEN answers ELSE Append(answers, FALSE)
        /\ UNCHANGED <<items, isPub, sessions, npc, at, missing, toServer, tasks, deleted>>
    BY <1>8 DEF C!NewConf, C!Answer
  <2>2. C!Me' = C!Me
    BY <1>a, <2>1
  <2>3. CASE npc = "conf"
    <3>1. CASE broken
      BY <1>b, <2>1, <2>2, <2>3, <3>1
    <3>2. CASE ~broken
      <4>1. answers = <<>>
        BY <1>b, <2>1, <2>3, <3>2
      <4>2. toServer = <<>> /\ at = 1
        BY <1>b, <2>3
      <4>3. CASE srv' = "read"
        <5>1. answers' = <<TRUE>> /\ ~broken'
          <6>1. broken' = broken /\ answers' = Append(answers, TRUE)
            BY <2>1, <3>2, <4>3
          <6>2. QED
            BY <3>2, <4>1, <6>1
        <5>2. QED
          BY <1>b, <2>1, <2>2, <2>3, <4>2, <4>3, <5>1
      <4>4. CASE srv' = "off"
        <5>1. answers' = <<FALSE>> /\ broken'
          BY <2>1, <3>2, <4>1, <4>4
        <5>2. QED
          BY <1>b, <2>1, <2>2, <2>3, <4>2, <4>4, <5>1
      <4>5. QED
        BY <2>1, <4>3, <4>4
    <3>3. QED
      BY <3>1, <3>2
  <2>4. CASE npc # "conf"
    BY <1>b, <2>1, <2>2, <2>4
  <2>5. QED
    BY <2>3, <2>4
<1>9. CASE C!ReadItem
  BY <1>0, <1>a, <1>9, <1>b DEF C!ReadItem
<1>10. CASE C!ReadFails
  BY <1>0, <1>a, <1>10, <1>b DEF C!ReadFails
<1>11. CASE C!Skip
  <2>1. /\ srv = "item" /\ C!Now \in tasks
        /\ answers' = IF broken THEN answers ELSE Append(answers, TRUE)
        /\ srv' = (IF piece < items[item].pieces THEN "item" ELSE "read")
        /\ UNCHANGED <<items, isPub, sessions, npc, at, missing, toServer, tasks, deleted, broken,
                       item>>
    BY <1>11 DEF C!Skip, C!Has, C!Proceed, C!Answer
  <2>2. C!Me' = C!Me /\ srv' = "read"
    <3>1. ~(piece < items[item].pieces)
      BY <1>0, <1>b, <2>1 DEF OnePort, HandInv
    <3>2. QED
      BY <1>a, <2>1, <3>1
  <2>3. CASE broken
    BY <1>b, <2>1, <2>2, <2>3
  <2>4. CASE ~broken
    <3>1. Awaiting /\ toServer = <<>> /\ answers = <<>> /\ item = at
      BY <1>b, <2>1, <2>4
    <3>2. <<C!Me, at, 1>> \in tasks
      <4>1. piece = 1
        BY <1>0, <1>b, <2>1 DEF OnePort, HandInv
      <4>2. QED
        BY <2>1, <3>1, <4>1 DEF C!Now
    <3>3. QED
      BY <1>b, <2>1, <2>2, <2>4, <3>1, <3>2
  <2>5. QED
    BY <2>3, <2>4
<1>12. CASE C!Refuse
  BY <1>0, <1>a, <1>12, <1>b DEF C!Refuse, C!Fail
<1>13. CASE C!NewHost
  <2>1. /\ srv = "item" /\ tasks' = tasks \cup {<<C!Me, item, piece>>}
        /\ answers' = IF broken THEN answers ELSE Append(answers, TRUE)
        /\ srv' = (IF piece < items[item].pieces THEN "item" ELSE "read")
        /\ UNCHANGED <<items, isPub, sessions, npc, at, missing, toServer, deleted, broken, item>>
    BY <1>13 DEF C!NewHost, C!Proceed, C!Answer, C!Now
  <2>2. C!Me' = C!Me /\ srv' = "read" /\ piece = 1
    <3>1. ~(piece < items[item].pieces) /\ piece = 1
      BY <1>0, <1>b, <2>1 DEF OnePort, HandInv
    <3>2. QED
      BY <1>a, <2>1, <3>1
  <2>3. CASE broken
    BY <1>b, <2>1, <2>2, <2>3
  <2>4. CASE ~broken
    <3>1. Awaiting /\ toServer = <<>> /\ answers = <<>> /\ item = at
      BY <1>b, <2>1, <2>4
    <3>2. <<C!Me, at, 1>> \in tasks'
      BY <2>1, <2>2, <3>1
    <3>3. QED
      BY <1>b, <2>1, <2>2, <2>4, <3>1, <3>2
  <2>5. QED
    BY <2>3, <2>4
<1>14. CASE C!NewTask
  <2>1. /\ tasks' = tasks \cup {<<C!Me, item, piece>>} /\ srv = "item" /\ at' = at /\ npc' = npc
        /\ isPub' = isPub /\ sessions' = sessions /\ deleted' = deleted /\ missing' = missing
        /\ toServer' = toServer /\ item' = item /\ piece' = piece /\ items' = items
        /\ \/ srv' = "open" /\ answers' = answers /\ broken' = broken
           \/ /\ srv' = "delete" /\ broken'
              /\ answers' = IF broken THEN answers ELSE Append(answers, FALSE)
    BY <1>14, NewTaskFacts
  <2>2. C!Me' = C!Me /\ piece = 1 /\ toServer = <<>>
    <3>1. piece = 1
      BY <1>0, <1>b, <2>1 DEF OnePort, HandInv
    <3>2. toServer = <<>>
      BY <1>b, <2>1
    <3>3. QED
      BY <1>a, <2>1, <3>1, <3>2
  <2>3. CASE broken
    BY <1>b, <2>1, <2>2, <2>3
  <2>4. CASE ~broken
    <3>1. item = at /\ answers = <<>>
      BY <1>b, <2>1, <2>2, <2>4
    <3>2. CASE srv' = "open"
      BY <1>b, <2>1, <2>2, <2>4, <3>1, <3>2
    <3>3. CASE srv' = "delete"
      BY <1>b, <2>1, <2>2, <2>4, <3>1, <3>3
    <3>4. QED
      BY <2>1, <3>2, <3>3
  <2>5. QED
    BY <2>3, <2>4
<1>15. CASE C!OpenTask
  <2>1. /\ srv = "open"
        /\ answers' = IF broken THEN answers ELSE Append(answers, TRUE)
        /\ srv' = (IF piece < items[item].pieces THEN "item" ELSE "read")
        /\ UNCHANGED <<items, isPub, sessions, npc, at, missing, toServer, tasks, deleted, broken,
                       item>>
    BY <1>15 DEF C!OpenTask, C!Proceed, C!Answer
  <2>2. C!Me' = C!Me /\ srv' = "read"
    <3>1. ~(piece < items[item].pieces)
      BY <1>0, <1>b, <2>1 DEF OnePort, HandInv
    <3>2. QED
      BY <1>a, <2>1, <3>1
  <2>3. CASE broken
    BY <1>b, <2>1, <2>2, <2>3
  <2>4. CASE ~broken
    <3>1. /\ Awaiting /\ toServer = <<>> /\ answers = <<>> /\ item = at
          /\ <<C!Me, at, 1>> \in tasks
      BY <1>b, <2>1, <2>4
    <3>2. QED
      BY <1>b, <2>1, <2>2, <2>4, <3>1
  <2>5. QED
    BY <2>3, <2>4
<1>16. CASE C!DelClient
  BY <1>0, <1>a, <1>16, <1>b DEF C!DelClient, C!Told
<1>17. CASE C!CloseClient
  BY <1>0, <1>a, <1>17, <1>b DEF C!CloseClient, C!DealClose, C!Of
<1>18. ASSUME NEW c \in 1 .. MaxConfigs, C!Stale(c) PROVE InStep'
  BY <1>0, <1>a, <1>18, <1>b DEF C!Stale, C!DealClose, C!Of
<1>19. CASE UNCHANGED C!vars
  BY <1>0, <1>a, <1>19, <1>b DEF C!vars
<1>20. QED
  BY <1>1, <1>2, <1>3, <1>4, <1>5, <1>6, <1>7, <1>8, <1>9, <1>10, <1>11, <1>12, <1>13, <1>14, <1>15, <1>16, <1>17, <1>18, <1>19 DEF C!Next

\* Every step keeps the types.
LEMMA ConfigType ==
    ASSUME ConfigInv, [C!Next]_(C!vars)
    PROVE  C!TypeOK'
<1> USE DEF C!TypeOK, C!Pieces, C!Wanted, C!wire, C!client, C!server, C!stored
<1>0. /\ QueueInv /\ C!TypeOK /\ HandInv /\ KeyInv /\ KeeperInv
      /\ sessions \in Nat /\ at \in Nat /\ Len(items) \in Nat
      /\ \A i \in Positions : items[i].pieces \in 1 .. 2
      /\ srv # "off" \/ npc # "dial" =>
            C!Me \in 1 .. MaxConfigs /\ (isPub => C!Me \in 1 .. sessions)
  BY ConfigFacts DEF ConfigInv
<1>a. isPub' = isPub /\ sessions' = sessions => C!Me' = C!Me
  BY DEF C!Me
<1>1. CASE C!Dial
  <2>1. sessions' \in 0 .. MaxConfigs
    <3>1. sessions' = sessions + 1 /\ sessions < MaxConfigs /\ MaxConfigs \in Nat
      BY <1>1, ScriptAssumption DEF C!Dial
    <3>2. QED
      BY <1>0, <3>1
  <2>2. 1 \in 1 .. Len(items) + 1
    BY <1>0
  <2>3. QED
    BY <1>0, <1>1, <2>1, <2>2 DEF C!Dial
<1>2. CASE C!Send
  BY <1>0, <1>a, <1>2 DEF C!Send
<1>3. CASE C!ReadAnswer
  <2>1. at' = at \/ (npc = "await" /\ at' = at + 1) 
    BY <1>3 DEF C!ReadAnswer
  <2>2. npc = "await" => at + 1 \in 1 .. Len(items) + 1
    BY <1>0 DEF HandInv
  <2>3. at' \in 1 .. Len(items) + 1
    BY <1>0, <2>1, <2>2
  <2>4. /\ UNCHANGED <<items, sessions, srv, tasks, running, connected, deleted>>
        /\ npc' \in {"send", "dial"}
    BY <1>3 DEF C!ReadAnswer
  <2>5. QED
    BY <1>0, <2>3, <2>4
<1>4. CASE C!Start
  BY <1>0, <1>a, <1>4 DEF C!Start
<1>5. CASE C!Connect
  BY <1>0, <1>a, <1>5 DEF C!Connect
<1>6. CASE C!Disconnect
  BY <1>0, <1>a, <1>6 DEF C!Disconnect
<1>7. CASE C!Break
  BY <1>0, <1>a, <1>7 DEF C!Break
<1>8. CASE C!NewConf
  <2>1. C!Me \in 1 .. MaxConfigs
    BY <1>0, <1>8 DEF C!NewConf
  <2>2. /\ UNCHANGED <<items, sessions, npc, at, tasks, running, deleted>>
        /\ srv' \in {"read", "off"} /\ connected' \subseteq connected \cup {C!Me}
    BY <1>8 DEF C!NewConf
  <2>3. QED
    BY <1>0, <2>1, <2>2
<1>9. CASE C!ReadItem
  BY <1>0, <1>a, <1>9 DEF C!ReadItem
<1>10. CASE C!ReadFails
  BY <1>0, <1>a, <1>10 DEF C!ReadFails
<1>11. CASE C!Skip
  BY <1>0, <1>a, <1>11 DEF C!Skip, C!Proceed, C!Answer
<1>12. CASE C!Refuse
  BY <1>0, <1>a, <1>12 DEF C!Refuse, C!Fail
<1>13. CASE C!NewHost
  <2>1. /\ tasks' = tasks \cup {<<C!Me, item, piece>>} /\ srv = "item" /\ srv' \in {"item", "read"}
        /\ UNCHANGED <<items, sessions, npc, at, running, connected, deleted>>
    BY <1>13 DEF C!NewHost, C!Proceed, C!Now
  <2>2. <<C!Me, item, piece>> \in C!Wanted(C!Me)
    BY <1>0, <2>1, NowWanted DEF HandInv
  <2>3. \A t \in tasks' : t \in C!Wanted(t[1])
    BY <1>0, <2>1, <2>2, TaskOf
  <2>4. \A t \in tasks' : t \in C!Wanted(t[1])'
    BY <2>1, <2>3 DEF C!Wanted, C!Pieces
  <2>5. QED
    BY <1>0, <2>1, <2>4
<1>14. CASE C!NewTask
  <2>1. /\ tasks' = tasks \cup {<<C!Me, item, piece>>} /\ srv = "item" /\ srv' \in {"open", "delete"}
        /\ UNCHANGED <<items, sessions, npc, at, running, connected, deleted>>
    BY <1>14, NewTaskFacts
  <2>2. <<C!Me, item, piece>> \in C!Wanted(C!Me)
    BY <1>0, <2>1, NowWanted DEF HandInv
  <2>3. \A t \in tasks' : t \in C!Wanted(t[1])
    BY <1>0, <2>1, <2>2, TaskOf
  <2>4. \A t \in tasks' : t \in C!Wanted(t[1])'
    BY <2>1, <2>3 DEF C!Wanted, C!Pieces
  <2>5. QED
    BY <1>0, <2>1, <2>4
<1>15. CASE C!OpenTask
  BY <1>0, <1>a, <1>15 DEF C!OpenTask, C!Proceed, C!Answer, C!Now
<1>16. CASE C!DelClient
  BY <1>0, <1>a, <1>16 DEF C!DelClient, C!Told
<1>17. CASE C!CloseClient
  BY <1>0, <1>a, <1>17 DEF C!CloseClient, C!DealClose, C!Of
<1>18. ASSUME NEW c \in 1 .. MaxConfigs, C!Stale(c) PROVE C!TypeOK'
  BY <1>0, <1>a, <1>18 DEF C!Stale, C!DealClose, C!Of
<1>19. CASE UNCHANGED C!vars
  BY <1>0, <1>a, <1>19 DEF C!vars
<1>20. QED
  BY <1>1, <1>2, <1>3, <1>4, <1>5, <1>6, <1>7, <1>8, <1>9, <1>10, <1>11, <1>12, <1>13, <1>14, <1>15, <1>16, <1>17, <1>18, <1>19 DEF C!Next

\* At first nothing is stored and nobody is connected.
LEMMA ConfigInit == C!Init => ConfigInv
<1> SUFFICES ASSUME C!Init PROVE ConfigInv
  OBVIOUS
<1>1. items \in Seq([kind : STRING, pieces : 1 .. 2]) /\ Len(items) \in Nat
  BY ScriptAssumption, LenProperties DEF C!Init
<1>2. /\ sessions = 0 /\ at = 1 /\ npc = "dial" /\ srv = "off" /\ main = FALSE /\ broken = TRUE
      /\ toServer = <<>> /\ answers = <<>> /\ tasks = {} /\ running = {} /\ connected = {}
      /\ deleted = {} /\ missing = FALSE /\ isPub \in BOOLEAN
  BY DEF C!Init
<1>3. C!TypeOK
  <2>1. 0 \in 0 .. MaxConfigs /\ 1 \in 1 .. Len(items) + 1
    BY <1>1, ScriptAssumption
  <2>2. QED
    BY <1>2, <2>1 DEF C!TypeOK
<1>4. QueueInv
  BY <1>1, <1>2, EmptySeq DEF QueueInv
<1>5. HandInv /\ KeyInv /\ KeeperInv /\ InStep
  BY <1>2 DEF HandInv, KeyInv, KeeperInv, InStep
<1>6. QED
  BY <1>3, <1>4, <1>5 DEF ConfigInv

\* The invariant holds in every behaviour.
THEOREM ConfigInvariant == Spec => [](part = "config" => ConfigInv)
<1>1. Init => (part = "config" => ConfigInv)
  BY ConfigInit DEF Init
<1>2. (part = "config" => ConfigInv) /\ [Next]_vars => (part = "config" => ConfigInv)'
  <2> SUFFICES ASSUME part = "config" => ConfigInv, [Next]_vars, part' = "config"
               PROVE  ConfigInv'
    OBVIOUS
  <2>1. part = "config" /\ [C!Next]_(C!vars)
    BY DEF Next, vars, C!vars
  <2>2. QueueInv' /\ HandInv' /\ KeyInv' /\ KeeperInv' /\ C!TypeOK'
    BY <2>1, ConfigQueue, ConfigHand, ConfigClient, ConfigKeeper, ConfigType
  <2>3. ASSUME OnePort', overtaken' = {} PROVE InStep'
    BY <2>1, <2>3, ConfigInStep
  <2>4. QED
    BY <2>2, <2>3 DEF ConfigInv
<1>3. QED
  BY <1>1, <1>2, PTL DEF Spec

\* npc with a configuration file and the bridge: what npc believes when it starts is so,
\* but for a task of several ports or a client that went stale during the session; and
\* no task is left that nobody deletes, but where the bridge had no entry to find it by.
THEOREM ConfigIsSound == Spec => []ConfigSound
<1>1. ConfigInv => C!ConfigSound
  <2> SUFFICES ASSUME ConfigInv PROVE C!ConfigSound
    OBVIOUS
  <2>1. C!AnswersFit
    <3>1. OnePort \/ \E i \in 1 .. Len(items) : items[i].pieces > 1
      BY ConfigFacts DEF OnePort, Positions
    <3>2. ASSUME OnePort, overtaken = {}
          PROVE  ~missing /\ (npc = "running" => C!Me \notin deleted)
      BY <3>2 DEF ConfigInv, InStep
    <3>3. QED
      BY <3>1, <3>2 DEF C!AnswersFit
  <2>2. C!NoOrphan
    BY DEF ConfigInv, KeeperInv, C!NoOrphan
  <2>3. QED
    BY <2>1, <2>2 DEF ConfigInv, C!ConfigSound
<1>2. QED
  <2>1. (part = "config" => ConfigInv) => ConfigSound
    BY <1>1 DEF ConfigSound
  <2>2. QED
    BY <2>1, ConfigInvariant, PTL

-----------------------------------------------------------------------------
(* The tasks (Tasks).                                                      *)
tup == v1
dbClients == v2
dbTasks == v3
tunnel == v4
lastTask == v5
lastClient == v6
files == v7
runList == v8
servers == v9
work == v10
ops == v11
crashes == v12
tangled == v13
acked == v14

USE DEF tup, dbClients, dbTasks, tunnel, lastTask, lastClient, files, runList, servers, work,
        ops, crashes, tangled, acked

\* What each variable may be.
Port == TaskPorts \cup TakenPorts \cup {0}
Tunnel == [status : BOOLEAN, port : Port, mode : Modes \cup {"tcp"}, client : TaskIds \cup {0},
           noStore : BOOLEAN]
Record == [id : TaskIds, status : BOOLEAN, port : Port, mode : Modes \cup {"tcp"},
           client : TaskIds \cup {0}]
Server == [task : TaskIds, port : Port, state : {"new", "open", "failed", "closed"}]
Job == [op : {"none", "start", "stop", "delete", "edit", "add", "config", "open", "client",
              "delClient", "closeClient", "boot"},
        pc : {"idle", "save", "saveClients", "add", "list", "find", "status", "load", "close",
              "look", "unset", "unlist", "listed", "remove", "create", "try", "range", "next"},
        task : TaskIds \cup {0}, client : TaskIds \cup {0}, svr : T!Entry,
        then : {"done", "add", "try", "load", "unlist", "range"}, todo : SUBSET TaskIds]

TaskTypes ==
    /\ tup \in BOOLEAN /\ lastTask \in Nat /\ lastClient \in Nat
    /\ dbClients \subseteq TaskIds /\ dbTasks \subseteq TaskIds
    /\ tunnel \in [TaskIds -> Tunnel]
    /\ files \in [clients : SUBSET TaskIds, tasks : SUBSET Record]
    /\ \A q, r \in files.tasks : q.id = r.id => q = r
    /\ runList \in [TaskIds -> T!Entry]
    /\ servers \in Seq(Server) /\ Len(servers) <= MaxServers
    /\ work \in [T!Handlers -> Job]
    /\ tangled \subseteq TaskIds
    /\ acked \in [TaskIds -> {"nothing", "started", "stopped", "deleted"}]

\* The ids that are in use have been given out, and nothing is under way in a process
\* that has ended.
IdInv ==
    /\ \A c \in dbClients : c <= lastClient
    /\ \A t \in dbTasks : t <= lastTask
    /\ \A t \in TaskIds : runList[t] # T!None => t <= lastTask
    /\ \A s \in 1 .. Len(servers) :
          servers[s].state \in {"new", "open"} => servers[s].task <= lastTask
    /\ \A x \in T!Handlers :
          /\ work[x].pc = "idle" => work[x] = T!Idle
          /\ work[x].task <= lastTask
          /\ \A t \in work[x].todo : t <= lastTask
          /\ work[x].op = "delClient" => work[x].client <= lastClient /\ work[x].client \notin dbClients
    /\ ~tup => /\ \A x \in T!Handlers : work[x].pc = "idle"
               /\ \A s \in 1 .. Len(servers) : servers[s].state \notin {"new", "open"}
               /\ \A t \in TaskIds : runList[t] = T!None

\* An entry leads to a server of its task, and a secret task has no servers.
EntryInv ==
    /\ \A t \in TaskIds :
          runList[t] > 0 => runList[t] <= Len(servers) /\ servers[runList[t]].task = t
    /\ \A x \in T!Handlers : work[x].pc = "close" =>
          /\ work[x].svr # T!None
          /\ work[x].svr > 0 =>
                work[x].svr <= Len(servers) /\ servers[work[x].svr].task = work[x].task
    /\ \A s \in 1 .. Len(servers) :
          servers[s].state \in {"new", "open"} => tunnel[servers[s].task].mode # "secret"
    /\ \A x \in T!Handlers : work[x].pc = "list" => tunnel[work[x].task].mode # "secret"

\* What RunList and the servers say of a task: none of its servers runs; the one that runs is
\* the one that is listed; those that listen have its port; one has still to listen.
Runs(ss, s, t) == ss[s].task = t /\ ss[s].state \in {"new", "open"}
NoneRuns(ss, t) == \A s \in 1 .. Len(ss) : ~Runs(ss, s, t)
ListsOwn(ss, r, t) ==
    /\ \A s \in 1 .. Len(ss) : Runs(ss, s, t) => r = s
    /\ r > 0 => r <= Len(ss) /\ Runs(ss, r, t)
OnPort(ss, p, t) ==
    \A s \in 1 .. Len(ss) : ss[s].task = t /\ ss[s].state = "open" => ss[s].port = p
OneStarts(ss, t) == \E s \in 1 .. Len(ss) : ss[s].task = t /\ ss[s].state = "new"

On(x, t) == work[x].pc # "idle" /\ work[x].task = t
NoServer(t) == NoneRuns(servers, t)
Off(t) == runList[t] = T!None /\ NoServer(t)
Listed(t) == ListsOwn(servers, runList[t], t)
OwnPort(t) == OnPort(servers, tunnel[t].port, t)
Starting(t) == OneStarts(servers, t)
Settled(t) == Listed(t) /\ (runList[t] # T!None => t \in dbTasks /\ tunnel[t].status)
Steady(t) == Settled(t) /\ ~Starting(t)

\* What a request finds of its task before each of its steps.
Starts == {"start", "edit"}
Adds == {"add", "open", "boot"}
Ends == {"delete", "delClient", "closeClient"}
Stops == Ends \cup {"stop", "edit"}
Saving(t, w) ==
    /\ w.then \in {"add", "try"} =>
          /\ w.op = (IF w.then = "add" THEN "add" ELSE "config")
          /\ t \in dbTasks /\ Off(t) /\ tunnel[t].status
    /\ w.then = "done" /\ w.op \in Starts =>
          t \in dbTasks /\ Listed(t) /\ OwnPort(t) /\ tunnel[t].status
    /\ w.then = "done" /\ w.op \notin Starts => w.op \in Ends /\ t \notin dbTasks /\ Off(t)
    /\ w.then = "load" => w.op = "edit" /\ t \in dbTasks /\ Steady(t)
    /\ w.then = "unlist" => w.op \in Stops /\ t \in dbTasks /\ NoServer(t) /\ ~tunnel[t].status
    /\ w.then # "range"
AtWork(t, w) ==
    /\ t \notin w.todo
    /\ w.pc = "create" =>
          w.op \in {"add", "config"} /\ t \notin dbTasks /\ Off(t) /\ tunnel[t].status
    /\ w.pc = "save" => Saving(t, w)
    /\ w.pc = "try" => w.op = "config" /\ t \in dbTasks /\ Off(t) /\ tunnel[t].status
    /\ w.pc = "find" => w.op \in Starts
    /\ w.pc \in {"find", "add"} =>
          /\ w.op \in Starts \cup Adds /\ (w.op \in Adds => tunnel[t].status)
          /\ t \in dbTasks /\ Listed(t) /\ OwnPort(t) /\ ~Starting(t)
    /\ w.pc = "list" =>
          /\ w.op \in Starts \cup Adds /\ (w.op \in Adds => tunnel[t].status)
          /\ t \in dbTasks /\ NoServer(t)
    /\ w.pc = "status" => w.op \in Starts /\ t \in dbTasks /\ Listed(t) /\ OwnPort(t)
    /\ w.pc = "listed" => w.op \in Ends /\ Steady(t) /\ OwnPort(t)
    /\ w.pc = "load" =>
          /\ w.op \in Stops /\ t \in dbTasks /\ Steady(t) /\ (w.op # "edit" => OwnPort(t))
          /\ w.op \in Ends => runList[t] # T!None
    /\ w.pc = "close" =>
          /\ w.op \in Stops /\ t \in dbTasks /\ Steady(t)
          /\ w.svr = runList[t] /\ runList[t] # T!None
    /\ w.pc \in {"look", "unset"} => w.op \in Stops /\ t \in dbTasks /\ NoServer(t)
    /\ w.pc = "unlist" =>
          w.op \in Stops /\ t \in dbTasks /\ NoServer(t) /\ ~tunnel[t].status
    /\ w.pc = "remove" => w.op \in Ends /\ Off(t)
    /\ w.pc \notin {"idle", "saveClients", "range", "next"}

\* A task on which no two activities overlapped: one request at a time works on it; its
\* server starts alone, or while the request that started it stores the status; and it is
\* as that request left it, or at rest.
Touches(w, tun, t) ==
    /\ w.pc # "idle"
    /\ \/ w.task = t \/ t \in w.todo
       \/ w.op = "delClient" /\ tun.client = w.client
       \/ w.op = "closeClient" /\ tun.client = w.client /\ tun.noStore
Tends(t, w) ==
    w.task = t /\ w.op \in Starts /\ (w.pc = "status" \/ (w.pc = "save" /\ w.then = "done"))
Waits(t, w) == w.op = "boot" /\ t \in w.todo =>
    t \in dbTasks /\ tunnel[t].status /\ Off(t) /\ w.task # t
Alone(t) ==
    /\ \A x, y \in T!Handlers :
          Touches(work[x], tunnel[t], t) /\ Touches(work[y], tunnel[t], t) => x = y
    /\ \A x \in T!Handlers :
          Starting(t) /\ Touches(work[x], tunnel[t], t) => Tends(t, work[x])
StateAt(t) ==
    /\ \A x \in T!Handlers : On(x, t) => AtWork(t, work[x])
    /\ \A x \in T!Handlers : work[x].pc # "idle" => Waits(t, work[x])
    /\ (\A x \in T!Handlers : ~On(x, t)) => Settled(t) /\ OwnPort(t)
WorkInv == tup => \A t \in TaskIds : t \notin tangled => Alone(t) /\ StateAt(t)

\* A request that is on no task is between its tasks, or works on a client; only the port of
\* a task in a client's configuration is tried.
PauseAt(w) ==
    /\ w.task = 0 =>
          \/ w.pc = "next" /\ w.op \in {"delClient", "closeClient", "boot"}
          \/ w.pc = "saveClients" /\ w.op = "client" /\ w.then = "done"
          \/ w.pc = "saveClients" /\ w.op = "delClient" /\ w.then = "range"
          \/ w.pc = "range" /\ w.op \in {"delClient", "closeClient"}
    /\ w.task # 0 =>
          w.pc \notin {"next", "saveClients", "range"} /\ (w.pc = "save" => w.then # "range")
    /\ w.pc = "try" \/ (w.pc = "save" /\ w.then = "try") => w.op = "config"
PauseInv == \A x \in T!Handlers : work[x].pc # "idle" => PauseAt(work[x])

\* The file has the status of a task that is not about to be saved.
FileAt(t) ==
    /\ t \in dbTasks /\ ~tunnel[t].noStore
    /\ \A x \in T!Handlers : On(x, t) => work[x].pc \notin {"create", "save"}
    => \E r \in files.tasks : r.id = t /\ r.status = tunnel[t].status
FileInv == tup => \A t \in TaskIds : t \notin tangled => FileAt(t)

\* The client of a task is there, or the request that deleted it has still to delete the
\* task.
Leaves(x, t) ==
    /\ work[x].pc # "idle" /\ work[x].op = "delClient" /\ work[x].client = tunnel[t].client
    /\ work[x].pc \in {"saveClients", "range"} \/ work[x].task = t \/ t \in work[x].todo
ClientAt(t) ==
    /\ ~tunnel[t].noStore
    /\ t \in dbTasks \/ \E x \in T!Handlers : On(x, t) /\ work[x].pc = "create"
    => tunnel[t].client \in dbClients \/ \E x \in T!Handlers : Leaves(x, t)
OwnerInv == tup => \A t \in TaskIds : t \notin tangled => ClientAt(t)

\* A task that was stopped or deleted is down, in memory and in the file, and nobody is
\* about to start it.
Lists(x, t) == work[x].pc # "idle" /\ (work[x].task = t \/ t \in work[x].todo)
AckAt(t) ==
    acked[t] \in {"stopped", "deleted"} =>
        /\ \A r \in files.tasks : r.id = t => ~r.status
        /\ tup => /\ NoServer(t) /\ (t \in dbTasks => ~tunnel[t].status)
                  /\ \A x \in T!Handlers : Lists(x, t) => work[x].op \in Stops \ {"edit"}
AckInv == \A t \in TaskIds : t \notin tangled => AckAt(t)
UnlistInv ==
    tup => \A x \in T!Handlers : work[x].pc = "unlist" /\ work[x].task \notin tangled =>
               \A r \in files.tasks : r.id = work[x].task => ~r.status

TaskInv ==
    /\ TaskTypes /\ IdInv /\ EntryInv /\ WorkInv /\ PauseInv /\ FileInv /\ OwnerInv /\ AckInv /\ UnlistInv

-----------------------------------------------------------------------------
\* What the ids and the entries of RunList are.
LEMMA IdFacts ==
    /\ TaskIds \subseteq Nat \ {0} /\ 1 \in TaskIds /\ 0 \notin TaskIds
    /\ T!None = 0 /\ T!Secret = -1 /\ MaxServers \in Nat
    /\ T!Entry = {0, -1} \cup 1 .. MaxServers
    /\ T!Handlers = Web \cup {T!Bridge, T!Main} /\ T!Bridge # T!Main
    /\ T!Bridge \notin Web /\ T!Main \notin Web
  BY TaskAssumption DEF T!None, T!Secret, T!Entry, T!Handlers, T!Bridge, T!Main

\* What a request goes on with.
Answered(w) ==
    IF w.op \in {"delClient", "closeClient", "boot"}
    THEN [w EXCEPT !.task = 0, !.pc = "next"] ELSE T!Idle
Gone(w, goal) == IF goal \in {"done", "failed"} THEN Answered(w) ELSE [w EXCEPT !.pc = goal]
Told(x, goal) ==
    IF goal = "done" /\ work[x].task # 0 /\ work[x].op # "boot"
    THEN [acked EXCEPT ![work[x].task] = T!Outcome(x)] ELSE acked

\* Goto sets the request and what was told of its task.
LEMMA GotoFacts ==
    ASSUME TaskTypes, NEW x \in T!Handlers, NEW goal, T!Goto(x, goal)
    PROVE  work' = [work EXCEPT ![x] = Gone(work[x], goal)] /\ acked' = Told(x, goal)
<1>1. work \in [T!Handlers -> Job]
  BY DEF TaskTypes
<1>2. CASE goal \in {"done", "failed"}
  <2>1. T!Answer(x, goal = "done")
    BY <1>2 DEF T!Goto
  <2>2. work' = [work EXCEPT ![x] = Answered(work[x])]
    <3>1. CASE work[x].op \in {"delClient", "closeClient", "boot"}
      BY <1>1, <2>1, <3>1 DEF T!Answer, T!ClientOps, Answered
    <3>2. CASE work[x].op \notin {"delClient", "closeClient", "boot"}
      BY <1>1, <2>1, <3>2 DEF T!Answer, T!ClientOps, Answered
    <3>3. QED
      BY <3>1, <3>2
  <2>3. acked' = Told(x, goal)
    BY <1>2, <2>1 DEF T!Answer, Told
  <2>4. QED
    BY <1>2, <2>2, <2>3 DEF Gone
<1>3. CASE goal \notin {"done", "failed"}
  <2>1. work' = [work EXCEPT ![x].pc = goal] /\ acked' = acked
    BY <1>3 DEF T!Goto
  <2>2. QED
    BY <1>1, <1>3, <2>1 DEF Gone, Told
<1>4. QED
  BY <1>2, <1>3

\* What a handler that does nothing is.
LEMMA IdleFacts ==
    /\ T!Idle \in Job /\ T!Idle.pc = "idle" /\ T!Idle.op = "none" /\ T!Idle.task = 0
    /\ T!Idle.todo = {} /\ T!Idle.client = 0
  BY IdFacts DEF T!Idle, Job

\* A request that ends is idle or between its tasks; one that goes on changes its step only.
LEMMA GoneFacts ==
    ASSUME NEW w \in Job, NEW goal
    PROVE  /\ goal \in {"done", "failed"} =>
                 /\ Gone(w, goal) \in Job /\ Gone(w, goal).task = 0
                 /\ \/ Gone(w, goal).pc = "idle" /\ Gone(w, goal) = T!Idle
                    \/ /\ Gone(w, goal).pc = "next" /\ Gone(w, goal).op = w.op
                       /\ Gone(w, goal).client = w.client /\ Gone(w, goal).todo = w.todo
                       /\ w.op \in {"delClient", "closeClient", "boot"}
           /\ goal \in {"idle", "save", "saveClients", "add", "list", "find", "status", "load", "close",
                      "look", "unset", "unlist", "listed", "remove", "create", "try", "range", "next"} =>
                 /\ Gone(w, goal) \in Job /\ Gone(w, goal).pc = goal /\ Gone(w, goal).op = w.op
                 /\ Gone(w, goal).task = w.task /\ Gone(w, goal).client = w.client
                 /\ Gone(w, goal).todo = w.todo /\ Gone(w, goal).then = w.then /\ Gone(w, goal).svr = w.svr
<1>1. CASE goal \in {"done", "failed"}
  <2>1. CASE w.op \in {"delClient", "closeClient", "boot"}
    BY <1>1, <2>1 DEF Gone, Answered, Job
  <2>2. CASE w.op \notin {"delClient", "closeClient", "boot"}
    BY <1>1, <2>2, IdleFacts DEF Gone, Answered
  <2>3. QED
    BY <2>1, <2>2
<1>2. CASE goal \notin {"done", "failed"}
  BY <1>2 DEF Gone, Job
<1>3. QED
  BY <1>1, <1>2

-----------------------------------------------------------------------------
\* How a change of the servers shows to a task.
SameServers(ss, zz, t) ==
    /\ Len(zz) >= Len(ss)
    /\ \A s \in 1 .. Len(ss) : zz[s] = ss[s] \/ (ss[s].task # t /\ zz[s].task # t)
    /\ \A s \in 1 .. Len(zz) : s > Len(ss) => zz[s].task # t

\* Without a server there is nothing that starts or that has another port; an entry that leads
\* to no server says there is none.
LEMMA RunFacts ==
    ASSUME NEW ss \in Seq(Server), NEW r \in Int, NEW t
    PROVE  /\ NoneRuns(ss, t) =>
                 ~OneStarts(ss, t) /\ (\A p : OnPort(ss, p, t)) /\ (r <= 0 => ListsOwn(ss, r, t))
           /\ ListsOwn(ss, r, t) /\ r <= 0 => NoneRuns(ss, t)
<1>1. Len(ss) \in Nat
  BY LenProperties
<1>2. QED
  BY <1>1 DEF NoneRuns, OneStarts, OnPort, ListsOwn, Runs

\* Servers of other tasks make no difference to a task.
LEMMA SameRuns ==
    ASSUME NEW ss \in Seq(Server), NEW zz \in Seq(Server), NEW r \in Int, NEW t,
           SameServers(ss, zz, t)
    PROVE  /\ NoneRuns(ss, t) => NoneRuns(zz, t)
           /\ ListsOwn(ss, r, t) => ListsOwn(zz, r, t)
           /\ \A p : OnPort(ss, p, t) => OnPort(zz, p, t)
           /\ ~OneStarts(ss, t) => ~OneStarts(zz, t)
           /\ OneStarts(ss, t) => OneStarts(zz, t)
<1>1. Len(ss) \in Nat /\ Len(zz) \in Nat /\ Len(ss) <= Len(zz)
  BY LenProperties DEF SameServers
<1>2. \A s \in 1 .. Len(zz) : zz[s].task = t => s \in 1 .. Len(ss) /\ zz[s] = ss[s]
  BY <1>1 DEF SameServers
<1>3. \A s \in 1 .. Len(ss) : ss[s].task = t => s \in 1 .. Len(zz) /\ zz[s] = ss[s]
  BY <1>1 DEF SameServers
<1>4. QED
  BY <1>1, <1>2, <1>3 DEF NoneRuns, OneStarts, OnPort, ListsOwn, Runs

\* A server that is made.
LEMMA MadeServer ==
    ASSUME NEW ss \in Seq(Server), NEW t \in TaskIds,
           NEW zz, zz = Append(ss, [task |-> t, port |-> 0, state |-> "new"])
    PROVE  /\ zz \in Seq(Server) /\ Len(zz) = Len(ss) + 1
           /\ \A u : u # t => SameServers(ss, zz, u)
           /\ NoneRuns(ss, t) => ListsOwn(zz, Len(ss) + 1, t) /\ \A p : OnPort(zz, p, t)
<1> DEFINE made == [task |-> t, port |-> 0, state |-> "new"]
<1>1. made \in Server
  BY DEF Server, Port
<1>2. /\ zz \in Seq(Server) /\ Len(ss) \in Nat /\ Len(zz) = Len(ss) + 1
      /\ \A s \in 1 .. Len(ss) : zz[s] = ss[s]
      /\ zz[Len(ss) + 1] = made
  BY <1>1, AppendProperties, LenProperties
<1>3. made.task = t /\ made.state = "new"
  OBVIOUS
<1> HIDE DEF made
<1>4. \A s \in 1 .. Len(zz) : s \in 1 .. Len(ss) \/ s = Len(ss) + 1
  BY <1>2
<1>5. ASSUME NEW u, u # t PROVE SameServers(ss, zz, u)
  BY <1>2, <1>3, <1>4, <1>5 DEF SameServers
<1>6. ASSUME NoneRuns(ss, t) PROVE ListsOwn(zz, Len(ss) + 1, t) /\ \A p : OnPort(zz, p, t)
  BY <1>2, <1>3, <1>4, <1>6 DEF NoneRuns, Runs, ListsOwn, OnPort
<1>7. QED
  BY <1>2, <1>5, <1>6

\* A server that goes to another state.
LEMMA MovedServer ==
    ASSUME NEW ss \in Seq(Server), NEW s \in 1 .. Len(ss), NEW p \in Port,
           NEW how \in {"new", "open", "failed", "closed"},
           NEW zz, zz = [ss EXCEPT ![s] = [task |-> ss[s].task, port |-> p, state |-> how]]
    PROVE  /\ zz \in Seq(Server) /\ Len(zz) = Len(ss)
           /\ \A u : u # ss[s].task => SameServers(ss, zz, u)
           /\ ListsOwn(ss, s, ss[s].task) =>
                 /\ how \in {"failed", "closed"} => NoneRuns(zz, ss[s].task)
                 /\ how = "open" => /\ ListsOwn(zz, s, ss[s].task) /\ OnPort(zz, p, ss[s].task)
                                   /\ ~OneStarts(zz, ss[s].task)
<1> DEFINE moved == [task |-> ss[s].task, port |-> p, state |-> how]
<1>1. Len(ss) \in Nat /\ ss[s] \in Server
  BY LenProperties, ElementOfSeq
<1>2. moved \in Server
  BY <1>1 DEF Server
<1>3. /\ zz \in Seq(Server) /\ Len(zz) = Len(ss) /\ zz[s] = moved
      /\ \A k \in 1 .. Len(ss) : k # s => zz[k] = ss[k]
  BY <1>1, <1>2, ExceptSeq
<1>4. moved.task = ss[s].task /\ moved.state = how /\ moved.port = p
  OBVIOUS
<1> HIDE DEF moved
<1>5. ASSUME NEW u, u # ss[s].task PROVE SameServers(ss, zz, u)
  BY <1>1, <1>3, <1>4, <1>5 DEF SameServers
<1>6. ASSUME ListsOwn(ss, s, ss[s].task)
      PROVE  /\ how \in {"failed", "closed"} => NoneRuns(zz, ss[s].task)
             /\ how = "open" => /\ ListsOwn(zz, s, ss[s].task) /\ OnPort(zz, p, ss[s].task)
                               /\ ~OneStarts(zz, ss[s].task)
  <2>1. \A k \in 1 .. Len(ss) : Runs(ss, k, ss[s].task) => k = s
    BY <1>6 DEF ListsOwn
  <2>2. \A k \in 1 .. Len(zz) : zz[k].task = ss[s].task /\ zz[k].state \in {"new", "open"} => k = s
    BY <1>3, <2>1 DEF Runs
  <2>3. QED
    BY <1>1, <1>3, <1>4, <2>2 DEF ListsOwn, NoneRuns, Runs, OnPort, OneStarts
<1>7. QED
  BY <1>3, <1>5, <1>6

-----------------------------------------------------------------------------
\* A step that does not show to a task leaves what is said of it.
SameView(t) ==
    /\ t \in dbTasks' <=> t \in dbTasks
    /\ tunnel'[t] = tunnel[t] /\ runList'[t] = runList[t]
    /\ SameServers(servers, servers', t)

\* The servers and an entry, before and after a step.
LEMMA ViewTypes ==
    ASSUME TaskTypes, TaskTypes', NEW t \in TaskIds
    PROVE  /\ servers \in Seq(Server) /\ servers' \in Seq(Server)
           /\ runList[t] \in Int /\ runList'[t] \in Int
  BY IdFacts DEF TaskTypes

\* A task to which a step does not show keeps its servers and its entry.
LEMMA ViewKept ==
    ASSUME TaskTypes, TaskTypes', NEW t \in TaskIds, SameView(t)
    PROVE  /\ NoServer(t) => NoServer(t)'
           /\ Off(t) => Off(t)'
           /\ Listed(t) => Listed(t)'
           /\ OwnPort(t) => OwnPort(t)'
           /\ Starting(t)' => Starting(t)
           /\ Settled(t) => Settled(t)'
           /\ Steady(t) => Steady(t)'
<1>1. /\ t \in dbTasks' <=> t \in dbTasks
      /\ tunnel'[t] = tunnel[t] /\ runList'[t] = runList[t]
      /\ SameServers(servers, servers', t)
  BY DEF SameView
<1>2. /\ NoneRuns(servers, t) => NoneRuns(servers', t)
      /\ ListsOwn(servers, runList[t], t) => ListsOwn(servers', runList[t], t)
      /\ \A p : OnPort(servers, p, t) => OnPort(servers', p, t)
      /\ ~OneStarts(servers, t) => ~OneStarts(servers', t)
  BY <1>1, ViewTypes, SameRuns
<1>3. /\ NoServer(t) => NoServer(t)'
      /\ Listed(t) => Listed(t)'
      /\ OwnPort(t) => OwnPort(t)'
      /\ Starting(t)' => Starting(t)
  BY <1>1, <1>2 DEF NoServer, Listed, OwnPort, Starting
<1>4. Off(t) => Off(t)'
  BY <1>1, <1>3 DEF Off
<1>5. Settled(t) => Settled(t)'
  BY <1>1, <1>3 DEF Settled
<1>6. QED
  BY <1>3, <1>4, <1>5 DEF Steady

\* What a request finds of such a task stays so.
LEMMA WorkKept ==
    ASSUME TaskTypes, TaskTypes', NEW t \in TaskIds, SameView(t), NEW w
    PROVE  /\ AtWork(t, w) => AtWork(t, w)'
           /\ Waits(t, w) => Waits(t, w)'
<1>1. /\ t \in dbTasks' <=> t \in dbTasks
      /\ tunnel'[t] = tunnel[t] /\ runList'[t] = runList[t]
  BY DEF SameView
<1>2. Waits(t, w) => Waits(t, w)'
  BY <1>1, ViewKept DEF Waits
<1>3. Saving(t, w) => Saving(t, w)'
  BY <1>1, ViewKept DEF Saving
<1>4. AtWork(t, w) => AtWork(t, w)'
  BY <1>1, <1>3, ViewKept DEF AtWork
<1>5. QED
  BY <1>2, <1>4

\* A request that keeps off a task, before and after.
Aside(y, t) ==
    /\ ~On(y, t) /\ (work'[y].pc = "idle" \/ work'[y].task # t)
    /\ Touches(work'[y], tunnel[t], t) => Touches(work[y], tunnel[t], t)
    /\ work'[y].pc # "idle" /\ work'[y].op = "boot" /\ t \in work'[y].todo =>
          work[y].pc # "idle" /\ work[y].op = "boot" /\ t \in work[y].todo

\* A step that does not show to a task, of requests that keep off it, leaves it as it was.
LEMMA Keep ==
    ASSUME TaskTypes, TaskTypes', NEW t \in TaskIds, SameView(t), Alone(t), StateAt(t),
           \A y \in T!Handlers : work'[y] = work[y] \/ Aside(y, t)
    PROVE  Alone(t)' /\ StateAt(t)'
<1>1. tunnel'[t] = tunnel[t]
  BY DEF SameView
<1>2. Alone(t)'
  <2>1. \A y \in T!Handlers : Touches(work'[y], tunnel'[t], t) => Touches(work[y], tunnel[t], t)
    BY <1>1 DEF Aside
  <2>2. ASSUME NEW y \in T!Handlers, Starting(t)', Touches(work'[y], tunnel'[t], t)
        PROVE  Tends(t, work'[y])
    <3>1. Starting(t) /\ Touches(work[y], tunnel[t], t)
      BY <2>1, <2>2, ViewKept
    <3>2. Tends(t, work[y])
      BY <3>1 DEF Alone
    <3>3. On(y, t)
      BY <3>2 DEF Tends, On
    <3>4. QED
      BY <3>2, <3>3 DEF Aside
  <2>3. QED
    BY <2>1, <2>2 DEF Alone
<1>3. ASSUME NEW y \in T!Handlers, On(y, t)' PROVE AtWork(t, work[y])' /\ On(y, t)
  <2>1. work'[y] = work[y]
    BY <1>3 DEF Aside, On
  <2>2. PICK w : w = work[y]
    OBVIOUS
  <2>3. AtWork(t, w) /\ On(y, t)
    BY <1>3, <2>1, <2>2 DEF StateAt, On
  <2>4. AtWork(t, w)'
    BY <2>3, WorkKept
  <2>5. QED
    BY <2>1, <2>2, <2>3, <2>4
<1>4. ASSUME NEW y \in T!Handlers, work'[y].pc # "idle" PROVE Waits(t, work[y])'
  <2>1. PICK w : w = work'[y]
    OBVIOUS
  <2>2. CASE work'[y] = work[y]
    <3>1. Waits(t, w)
      BY <1>4, <2>1, <2>2 DEF StateAt
    <3>2. Waits(t, w)'
      BY <3>1, WorkKept
    <3>3. QED
      BY <2>1, <3>2
  <2>3. CASE Aside(y, t)
    <3>1. ASSUME w.op = "boot", t \in w.todo PROVE Waits(t, w)
      <4>1. Waits(t, work[y]) /\ work[y].op = "boot" /\ t \in work[y].todo
        BY <1>4, <2>1, <2>3, <3>1 DEF Aside, StateAt
      <4>2. w.task # t
        BY <1>4, <2>1, <2>3 DEF Aside
      <4>3. QED
        BY <4>1, <4>2 DEF Waits
    <3>2. Waits(t, w)
      BY <3>1 DEF Waits
    <3>3. Waits(t, w)'
      BY <3>2, WorkKept
    <3>4. QED
      BY <2>1, <3>3
  <2>4. QED
    BY <2>2, <2>3
<1>5. ASSUME \A y \in T!Handlers : ~On(y, t)' PROVE Settled(t)' /\ OwnPort(t)'
  <2>1. \A y \in T!Handlers : ~On(y, t)
    BY <1>5 DEF Aside, On
  <2>2. Settled(t) /\ OwnPort(t)
    BY <2>1 DEF StateAt
  <2>3. QED
    BY <2>2, ViewKept
<1>6. QED
  BY <1>2, <1>3, <1>4, <1>5 DEF StateAt

\* The one request that may work on a task after a step.
LEMMA Hold ==
    ASSUME NEW t \in TaskIds, NEW x \in T!Handlers, NEW w, work'[x] = w,
           \A y \in T!Handlers : y # x => ~Touches(work'[y], tunnel'[t], t),
           Starting(t)' /\ Touches(w, tunnel'[t], t) => Tends(t, w),
           w.pc # "idle" => Waits(t, w)',
           w.pc # "idle" /\ w.task = t => AtWork(t, w)',
           w.pc = "idle" \/ w.task # t => Settled(t)' /\ OwnPort(t)'
    PROVE  Alone(t)' /\ StateAt(t)'
<1>1. Alone(t)'
  BY DEF Alone
<1>2. ASSUME NEW y \in T!Handlers, On(y, t)' PROVE AtWork(t, work[y])'
  <2>1. y = x
    BY <1>2 DEF On, Touches
  <2>2. QED
    BY <1>2, <2>1 DEF On
<1>3. ASSUME NEW y \in T!Handlers, work'[y].pc # "idle" PROVE Waits(t, work[y])'
  <2>1. CASE y = x
    BY <1>3, <2>1
  <2>2. CASE y # x
    BY <1>3, <2>2 DEF Waits, Touches
  <2>3. QED
    BY <2>1, <2>2
<1>4. ASSUME \A y \in T!Handlers : ~On(y, t)' PROVE Settled(t)' /\ OwnPort(t)'
  BY <1>4 DEF On
<1>5. QED
  BY <1>1, <1>2, <1>3, <1>4 DEF StateAt

-----------------------------------------------------------------------------
\* What the invariant says of the task that a request works on.
LEMMA WorkFacts ==
    ASSUME TaskTypes, WorkInv, tup, NEW x \in T!Handlers, work[x].pc # "idle",
           NEW t \in TaskIds \ tangled, t = work[x].task
    PROVE  /\ AtWork(t, work[x])
           /\ Starting(t) => Tends(t, work[x])
           /\ \A y \in T!Handlers : y # x => ~Touches(work[y], tunnel[t], t)
<1>1. Alone(t) /\ StateAt(t)
  BY DEF WorkInv
<1>2. Touches(work[x], tunnel[t], t) /\ On(x, t)
  BY DEF Touches, On
<1>3. QED
  BY <1>1, <1>2 DEF Alone, StateAt

\* A request goes on: it works on the same, or is done with its task.
Follows(v, w) ==
    \/ w.pc = "idle"
    \/ w.op = v.op /\ w.client = v.client /\ w.todo = v.todo /\ w.task \in {v.task, 0}
Leaving(t, w) == w.pc = "idle" \/ w.task # t
Quiet(t, w) == w.pc = "idle" \/ Tends(t, w) \/ (w.op = "boot" /\ w.task # t)

\* Nor does a step of its own request that goes on, when that finds what it expects next.
LEMMA StepKeeps ==
    ASSUME TaskTypes, TaskTypes', WorkInv, tup, NEW x \in T!Handlers, NEW w \in Job,
           work[x].pc # "idle", work' = [work EXCEPT ![x] = w], Follows(work[x], w),
           tangled \subseteq tangled',
           \A u \in TaskIds : tunnel'[u].client = tunnel[u].client /\ tunnel'[u].noStore = tunnel[u].noStore,
           \A u \in TaskIds : u \notin tangled' /\ u # work[x].task => SameView(u),
           \A u \in TaskIds : u \notin tangled' /\ u = work[x].task =>
               /\ ~Leaving(u, w) => AtWork(u, w)'
               /\ Leaving(u, w) => Settled(u)' /\ OwnPort(u)'
               /\ Starting(u)' => Quiet(u, w)
    PROVE  WorkInv'
<1> SUFFICES ASSUME NEW u \in TaskIds, u \notin tangled' PROVE Alone(u)' /\ StateAt(u)'
  BY DEF WorkInv
<1>1. u \notin tangled /\ Alone(u) /\ StateAt(u)
  BY DEF WorkInv
<1>2. work'[x] = w /\ \A y \in T!Handlers : y # x => work'[y] = work[y]
  BY DEF TaskTypes
<1>3. CASE u # work[x].task
  <2>1. SameView(u)
    BY <1>3
  <2>2. Aside(x, u)
    BY <1>2, <1>3, IdFacts DEF Aside, On, Follows, Touches
  <2>3. QED
    BY <1>1, <1>2, <2>1, <2>2, Keep
<1>4. CASE u = work[x].task
  <2>1. /\ AtWork(u, work[x])
        /\ \A y \in T!Handlers : y # x => ~Touches(work[y], tunnel[u], u)
    BY <1>1, <1>4, WorkFacts
  <2>2. \A y \in T!Handlers : y # x => ~Touches(work'[y], tunnel'[u], u)
    BY <1>2, <2>1 DEF Touches
  <2>3. u \notin work[x].todo
    BY <2>1 DEF AtWork
  <2>4. w.pc # "idle" => u \notin w.todo
    BY <2>3 DEF Follows
  <2>5. w.pc # "idle" => Waits(u, w)'
    BY <2>4 DEF Waits
  <2>6. Starting(u)' /\ Touches(w, tunnel'[u], u) => Tends(u, w)
    BY <1>4, <2>4 DEF Quiet, Touches
  <2>7. w.pc # "idle" /\ w.task = u => AtWork(u, w)'
    BY <1>4 DEF Leaving
  <2>8. w.pc = "idle" \/ w.task # u => Settled(u)' /\ OwnPort(u)'
    BY <1>4 DEF Leaving
  <2>9. QED
    BY <1>2, <2>2, <2>5, <2>6, <2>7, <2>8, Hold
<1>5. QED
  BY <1>3, <1>4

\* The same when the step does not show to any task.
LEMMA StepRests ==
    ASSUME TaskTypes, TaskTypes', WorkInv, tup, NEW x \in T!Handlers, NEW w \in Job,
           work[x].pc # "idle", work' = [work EXCEPT ![x] = w], Follows(work[x], w),
           tangled \subseteq tangled',
           dbTasks' = dbTasks, tunnel' = tunnel, runList' = runList, servers' = servers,
           \A u \in TaskIds : u \notin tangled' /\ u = work[x].task =>
               /\ ~Leaving(u, w) => AtWork(u, w)
               /\ Leaving(u, w) => Settled(u) /\ OwnPort(u)
               /\ Starting(u) => Quiet(u, w)
    PROVE  WorkInv'
<1>1. \A u \in TaskIds : SameView(u)
  <2>1. Len(servers) \in Nat
    BY LenProperties DEF TaskTypes
  <2>2. QED
    BY <2>1 DEF SameView, SameServers
<1>2. ASSUME NEW u \in TaskIds, u \notin tangled', u = work[x].task
      PROVE  /\ ~Leaving(u, w) => AtWork(u, w)'
             /\ Leaving(u, w) => Settled(u)' /\ OwnPort(u)'
             /\ Starting(u)' => Quiet(u, w)
  BY <1>1, <1>2, ViewKept, WorkKept
<1>3. QED
  BY <1>1, <1>2, StepKeeps

-----------------------------------------------------------------------------
(* What each variable may be, and what the ids and the entries lead to.    *)

Pcs == {"idle", "save", "saveClients", "add", "list", "find", "status", "load", "close",
        "look", "unset", "unlist", "listed", "remove", "create", "try", "range", "next"}

\* A request that goes on, and what the state says of it.
LEMMA GotoTypes ==
    ASSUME TaskTypes, NEW x \in T!Handlers, NEW goal \in Pcs \cup {"done", "failed"}, T!Goto(x, goal)
    PROVE  /\ work' = [work EXCEPT ![x] = Gone(work[x], goal)] /\ acked' = Told(x, goal)
           /\ Gone(work[x], goal) \in Job
           /\ work' \in [T!Handlers -> Job]
           /\ acked' \in [TaskIds -> {"nothing", "started", "stopped", "deleted"}]
<1>1. work' = [work EXCEPT ![x] = Gone(work[x], goal)] /\ acked' = Told(x, goal)
  BY GotoFacts
<1>2. work \in [T!Handlers -> Job] /\ work[x] \in Job
  BY DEF TaskTypes
<1>3. Gone(work[x], goal) \in Job
  BY <1>2, GoneFacts DEF Pcs
<1>4. T!Outcome(x) \in {"started", "stopped", "deleted"}
  BY DEF T!Outcome
<1>5. acked' \in [TaskIds -> {"nothing", "started", "stopped", "deleted"}]
  BY <1>1, <1>4 DEF Told, TaskTypes
<1>6. QED
  BY <1>1, <1>2, <1>3, <1>5

\* What a save writes to the file is a record of each task.
LEMMA StoredTypes ==
    ASSUME TaskTypes
    PROVE  /\ T!StoredTasks \subseteq Record
           /\ \A q, r \in T!StoredTasks : q.id = r.id => q = r
           /\ \A r \in T!StoredTasks :
                 r.id \in dbTasks /\ ~tunnel[r.id].noStore /\ r.status = tunnel[r.id].status
                    /\ r.client = tunnel[r.id].client
           /\ \A t \in dbTasks : ~tunnel[t].noStore => \E r \in T!StoredTasks : r.id = t
<1> DEFINE Rec(t) == [id |-> t, status |-> tunnel[t].status, port |-> tunnel[t].port,
                      mode |-> tunnel[t].mode, client |-> tunnel[t].client]
<1>1. \A r : r \in T!StoredTasks <=> \E t \in dbTasks : ~tunnel[t].noStore /\ r = Rec(t)
  BY DEF T!StoredTasks
<1>2. \A t \in dbTasks : tunnel[t] \in Tunnel /\ t \in TaskIds
  BY DEF TaskTypes
<1>3. \A t \in dbTasks : /\ Rec(t) \in Record /\ Rec(t).id = t
                         /\ Rec(t).status = tunnel[t].status /\ Rec(t).client = tunnel[t].client
  BY <1>2 DEF Record, Tunnel
<1> HIDE DEF Rec
<1>4. QED
  BY <1>1, <1>3

\* The task of a request that works on one.
LEMMA HasTask ==
    ASSUME TaskTypes, PauseInv, NEW x \in T!Handlers,
           work[x].pc \notin {"idle", "next", "saveClients", "range"}
    PROVE  work[x].task \in TaskIds
  BY IdFacts DEF TaskTypes, PauseInv, PauseAt, Job

\* The next task of a request that has several to do.
LEMMA TakenUp ==
    ASSUME NEW v \in Job, NEW t \in TaskIds
    PROVE  /\ T!TakesUp(v, t) \in Job
           /\ T!TakesUp(v, t).task = t /\ T!TakesUp(v, t).todo = v.todo \ {t}
           /\ T!TakesUp(v, t).op = v.op /\ T!TakesUp(v, t).client = v.client
           /\ v.op = "boot" => T!TakesUp(v, t).pc = "add"
           /\ v.op # "boot" => T!TakesUp(v, t).pc = "listed"
<1>1. CASE v.op = "boot"
  BY <1>1 DEF T!TakesUp, Job
<1>2. CASE v.op # "boot"
  BY <1>2 DEF T!TakesUp, Job
<1>3. QED
  BY <1>1, <1>2

\* The steps of requests keep the types.
LEMMA StepTypes ==
    ASSUME TaskTypes, EntryInv, PauseInv, NEW x \in T!Handlers, T!Step(x)
    PROVE  TaskTypes'
<1> DEFINE kinds == {"nothing", "started", "stopped", "deleted"}
<1>0. /\ tup \in BOOLEAN /\ lastTask \in Nat /\ lastClient \in Nat
      /\ dbClients \subseteq TaskIds /\ dbTasks \subseteq TaskIds
      /\ tunnel \in [TaskIds -> Tunnel]
      /\ files \in [clients : SUBSET TaskIds, tasks : SUBSET Record]
      /\ \A q, r \in files.tasks : q.id = r.id => q = r
      /\ runList \in [TaskIds -> T!Entry]
      /\ servers \in Seq(Server) /\ Len(servers) <= MaxServers
      /\ work \in [T!Handlers -> Job] /\ work[x] \in Job
      /\ tangled \subseteq TaskIds /\ acked \in [TaskIds -> kinds]
  BY DEF TaskTypes
<1>1. work[x].then \in Pcs \cup {"done", "failed"} /\ T!StopFailed(x) \in Pcs \cup {"failed"}
      /\ \A b \in BOOLEAN : T!AfterAdd(x, b) \in Pcs \cup {"done", "failed"}
  BY <1>0 DEF Job, Pcs, T!StopFailed, T!AfterAdd
<1>2. CASE T!Save(x)
  <2>1. T!Goto(x, work[x].then) /\ files' = [files EXCEPT !.tasks = T!StoredTasks]
    BY <1>2 DEF T!Save
  <2>2. work' \in [T!Handlers -> Job] /\ acked' \in [TaskIds -> kinds]
    BY <1>1, <2>1, GotoTypes
  <2>3. /\ files' \in [clients : SUBSET TaskIds, tasks : SUBSET Record]
        /\ \A q, r \in files'.tasks : q.id = r.id => q = r
    BY <1>0, <2>1, StoredTypes
  <2>4. QED
    BY <1>0, <1>2, <2>2, <2>3 DEF T!Save, TaskTypes, T!dbvars, T!runvars, T!bounds
<1>3. CASE T!SaveClients(x)
  <2>1. T!Goto(x, work[x].then) /\ files' = [files EXCEPT !.clients = dbClients]
    BY <1>3 DEF T!SaveClients
  <2>2. work' \in [T!Handlers -> Job] /\ acked' \in [TaskIds -> kinds]
    BY <1>1, <2>1, GotoTypes
  <2>3. /\ files' \in [clients : SUBSET TaskIds, tasks : SUBSET Record]
        /\ \A q, r \in files'.tasks : q.id = r.id => q = r
    BY <1>0, <2>1
  <2>4. QED
    BY <1>0, <1>3, <2>2, <2>3 DEF T!SaveClients, TaskTypes, T!dbvars, T!runvars, T!bounds
<1>4. CASE T!AddTask(x)
  <2>1. PICK goal \in Pcs \cup {"done", "failed"} : T!Goto(x, goal)
    BY <1>1, <1>4 DEF T!AddTask, Pcs
  <2>2. work' \in [T!Handlers -> Job] /\ acked' \in [TaskIds -> kinds]
    BY <2>1, GotoTypes
  <2>3. runList' \in [TaskIds -> T!Entry]
    BY <1>0, <1>4, IdFacts DEF T!AddTask
  <2>4. QED
    BY <1>0, <1>4, <2>2, <2>3 DEF T!AddTask, TaskTypes, T!dbvars, T!runvars, T!bounds
<1>5. CASE T!ListServer(x)
  <2>1. T!Goto(x, T!AfterAdd(x, TRUE))
    BY <1>5 DEF T!ListServer
  <2>2. work' \in [T!Handlers -> Job] /\ acked' \in [TaskIds -> kinds]
    BY <1>1, <2>1, GotoTypes
  <2>3. work[x].task \in TaskIds
    BY <1>5, HasTask DEF T!ListServer, T!At
  <2>4. servers' \in Seq(Server) /\ Len(servers') = Len(servers) + 1
    BY <1>0, <1>5, <2>3, MadeServer DEF T!ListServer
  <2>5. Len(servers) \in Nat /\ Len(servers) < MaxServers
    BY <1>0, <1>5, LenProperties DEF T!ListServer
  <2>8. Len(servers) + 1 \in T!Entry
    BY <2>5, IdFacts
  <2>9. runList' = [runList EXCEPT ![work[x].task] = Len(servers) + 1]
    BY <1>5 DEF T!ListServer
  <2>6. runList' \in [TaskIds -> T!Entry]
    BY <1>0, <2>8, <2>9
  <2>7. QED
    BY <1>0, <1>5, <2>2, <2>4, <2>5, <2>6, IdFacts DEF T!ListServer, TaskTypes, T!dbvars,
       T!runvars, T!bounds
<1>6. CASE T!FindToStart(x)
  <2>1. PICK goal \in Pcs \cup {"done", "failed"} : T!Goto(x, goal)
    BY <1>1, <1>6 DEF T!FindToStart, Pcs
  <2>2. work' \in [T!Handlers -> Job] /\ acked' \in [TaskIds -> kinds]
    BY <2>1, GotoTypes
  <2>3. QED
    BY <1>0, <1>6, <2>2 DEF T!FindToStart, TaskTypes, T!dbvars, T!runvars, T!bounds
<1>7. CASE T!Started(x)
  <2>1. work[x].task \in TaskIds
    BY <1>7, HasTask DEF T!Started, T!At
  <2>2. work' \in [T!Handlers -> Job]
    BY <1>0, <1>7 DEF T!Started, Job, T!AfterUnset
  <2>5. tunnel' = [tunnel EXCEPT ![work[x].task].status = TRUE] /\ tunnel[work[x].task] \in Tunnel
    BY <1>0, <1>7, <2>1 DEF T!Started, T!SetStatus
  <2>6. [tunnel[work[x].task] EXCEPT !.status = TRUE] \in Tunnel
    BY <2>5 DEF Tunnel
  <2>3. tunnel' \in [TaskIds -> Tunnel]
    BY <1>0, <2>1, <2>5, <2>6
  <2>4. QED
    BY <1>0, <1>7, <2>1, <2>2, <2>3 DEF T!Started, T!SetStatus, TaskTypes, T!dbvars, T!runvars,
       T!bounds
<1>8. CASE T!StopLoad(x)
  <2>1. CASE runList[work[x].task] # T!None
    <3>1. work[x].task \in TaskIds
      BY <1>8, HasTask DEF T!StopLoad, T!At
    <3>4. /\ work' = [work EXCEPT ![x].svr = runList[work[x].task], ![x].pc = "close"]
          /\ acked' = acked
      BY <1>8, <2>1, IdFacts DEF T!StopLoad
    <3>5. runList[work[x].task] \in T!Entry
      BY <1>0, <3>1
    <3>6. [work[x] EXCEPT !.svr = runList[work[x].task], !.pc = "close"] \in Job
      BY <1>0, <3>5 DEF Job
    <3>2. work' \in [T!Handlers -> Job] /\ acked' = acked
      BY <1>0, <3>4, <3>6
    <3>3. QED
      BY <1>0, <1>8, <3>2 DEF T!StopLoad, TaskTypes, T!dbvars, T!runvars, T!bounds
  <2>2. CASE runList[work[x].task] = T!None
    <3>1. T!Goto(x, T!StopFailed(x))
      BY <1>8, <2>2 DEF T!StopLoad
    <3>2. work' \in [T!Handlers -> Job] /\ acked' \in [TaskIds -> kinds]
      BY <1>1, <3>1, GotoTypes
    <3>3. QED
      BY <1>0, <1>8, <3>2 DEF T!StopLoad, TaskTypes, T!dbvars, T!runvars, T!bounds
  <2>3. QED
    BY <2>1, <2>2
<1>9. CASE T!StopClose(x)
  <2>1. PICK goal \in Pcs \cup {"done", "failed"} : T!Goto(x, goal)
    BY <1>1, <1>9 DEF T!StopClose, Pcs
  <2>2. work' \in [T!Handlers -> Job] /\ acked' \in [TaskIds -> kinds]
    BY <2>1, GotoTypes
  <2>3. servers' \in Seq(Server) /\ Len(servers') <= MaxServers
    <3>1. CASE servers' = servers
      BY <1>0, <3>1
    <3>2. CASE servers' # servers
      <4>1. /\ work[x].pc = "close" /\ work[x].svr # -1 /\ servers[work[x].svr].state = "open"
            /\ servers' = [servers EXCEPT ![work[x].svr].state = "closed"]
        BY <1>9, <3>2, IdFacts DEF T!StopClose, T!At
      <4>2. CASE work[x].svr = 0
        <5>1. 0 \notin DOMAIN servers
          BY <1>0
        <5>2. QED
          BY <1>0, <3>2, <4>1, <4>2, <5>1
      <4>3. CASE work[x].svr # 0
        <5>1. work[x].svr \in 1 .. Len(servers)
          BY <1>0, <4>1, <4>3, IdFacts, LenProperties DEF EntryInv, Job
        <5>2. PICK s \in 1 .. Len(servers) : s = work[x].svr
          BY <5>1
        <5>3. servers[s] \in Server
          BY <1>0, ElementOfSeq
        <5>4. servers' = [servers EXCEPT ![s] =
                             [task |-> servers[s].task, port |-> servers[s].port, state |-> "closed"]]
          <6>1. [servers[s] EXCEPT !.state = "closed"]
                    = [task |-> servers[s].task, port |-> servers[s].port, state |-> "closed"]
            BY <5>3 DEF Server
          <6>2. QED
            BY <4>1, <5>2, <6>1
        <5>5. servers[s].port \in Port
          BY <5>3 DEF Server
        <5>6. QED
          BY <1>0, <5>4, <5>5, MovedServer
      <4>4. QED
        BY <4>2, <4>3
    <3>3. QED
      BY <3>1, <3>2
  <2>4. QED
    BY <1>0, <1>9, <2>2, <2>3 DEF T!StopClose, TaskTypes, T!dbvars, T!runvars, T!bounds
<1>10. CASE T!StopPanics(x)
  <2>1. work' \in [T!Handlers -> Job] /\ tangled' \subseteq TaskIds
    BY <1>0, <1>10, IdleFacts DEF T!StopPanics, Job
  <2>2. QED
    BY <1>0, <1>10, <2>1 DEF T!StopPanics, TaskTypes, T!dbvars, T!runvars, T!bounds
<1>11. CASE T!StopLook(x)
  <2>1. PICK goal \in Pcs \cup {"done", "failed"} : T!Goto(x, goal)
    BY <1>1, <1>11 DEF T!StopLook, Pcs
  <2>2. work' \in [T!Handlers -> Job] /\ acked' \in [TaskIds -> kinds]
    BY <2>1, GotoTypes
  <2>3. QED
    BY <1>0, <1>11, <2>2 DEF T!StopLook, TaskTypes, T!dbvars, T!runvars, T!bounds
<1>12. CASE T!Stopped(x)
  <2>1. work[x].task \in TaskIds
    BY <1>12, HasTask DEF T!Stopped, T!At
  <2>2. work' \in [T!Handlers -> Job]
    BY <1>0, <1>12 DEF T!Stopped, Job, T!AfterUnset
  <2>5. tunnel' = [tunnel EXCEPT ![work[x].task].status = FALSE] /\ tunnel[work[x].task] \in Tunnel
    BY <1>0, <1>12, <2>1 DEF T!Stopped, T!SetStatus
  <2>6. [tunnel[work[x].task] EXCEPT !.status = FALSE] \in Tunnel
    BY <2>5 DEF Tunnel
  <2>3. tunnel' \in [TaskIds -> Tunnel]
    BY <1>0, <2>1, <2>5, <2>6
  <2>4. QED
    BY <1>0, <1>12, <2>1, <2>2, <2>3 DEF T!Stopped, T!SetStatus, TaskTypes, T!dbvars,
       T!runvars, T!bounds
<1>13. CASE T!Unlist(x)
  <2>1. PICK goal \in Pcs \cup {"done", "failed"} : T!Goto(x, goal)
    BY <1>1, <1>13 DEF T!Unlist, Pcs
  <2>2. work' \in [T!Handlers -> Job] /\ acked' \in [TaskIds -> kinds]
    BY <2>1, GotoTypes
  <2>3. QED
    BY <1>0, <1>13, <2>2, IdFacts DEF T!Unlist, TaskTypes, T!dbvars, T!runvars, T!bounds, T!Unlisted
<1>14. CASE T!DelLoad(x)
  <2>1. PICK goal \in Pcs \cup {"done", "failed"} : T!Goto(x, goal)
    BY <1>1, <1>14 DEF T!DelLoad, Pcs
  <2>2. work' \in [T!Handlers -> Job] /\ acked' \in [TaskIds -> kinds]
    BY <2>1, GotoTypes
  <2>3. QED
    BY <1>0, <1>14, <2>2 DEF T!DelLoad, TaskTypes, T!dbvars, T!runvars, T!bounds
<1>15. CASE T!Remove(x)
  <2>1. work' \in [T!Handlers -> Job]
    BY <1>0, <1>15 DEF T!Remove, Job
  <2>2. QED
    BY <1>0, <1>15, <2>1 DEF T!Remove, TaskTypes, T!dbvars, T!runvars, T!bounds
<1>16. CASE T!Create(x)
  <2>1. work' \in [T!Handlers -> Job]
    BY <1>0, <1>16 DEF T!Create, Job
  <2>2. work[x].task \in TaskIds
    BY <1>16, HasTask DEF T!Create, T!At
  <2>3. QED
    BY <1>0, <1>16, <2>1, <2>2 DEF T!Create, TaskTypes, T!dbvars, T!runvars, T!bounds
<1>17. CASE T!TryPort(x)
  <2>1. T!Bridge \in T!Handlers
    BY IdFacts
  <2>4. work' \in [T!Handlers -> Job]
    <3>1. CASE work' = [work EXCEPT ![x] = T!Idle]
      BY <1>0, <3>1, IdleFacts
    <3>2. ASSUME NEW b \in {[op |-> "open", pc |-> "add"], [op |-> "start", pc |-> "find"]},
                 work' = [work EXCEPT ![x] = T!Idle,
                             ![T!Bridge] = [T!Idle EXCEPT !.op = b.op, !.pc = b.pc, !.task = work[x].task]]
          PROVE  work' \in [T!Handlers -> Job]
      <4>3. work[x].task \in TaskIds \cup {0} /\ T!Idle \in Job
        BY <1>0, IdleFacts DEF Job
      <4>4. \/ b.op = "open" /\ b.pc = "add"
            \/ b.op = "start" /\ b.pc = "find"
        BY <3>2
      <4>1. [T!Idle EXCEPT !.op = b.op, !.pc = b.pc, !.task = work[x].task] \in Job
        BY <4>3, <4>4 DEF Job
      <4>2. QED
        BY <1>0, <2>1, <3>2, <4>1, IdleFacts
    <3>3. QED
      BY <1>17, <3>1, <3>2 DEF T!TryPort
  <2>3. QED
    BY <1>0, <1>17, <2>4 DEF T!TryPort, TaskTypes, T!dbvars, T!runvars, T!bounds
<1>18. CASE T!Range(x)
  <2>1. PICK picked \in SUBSET TaskIds :
            work' = [work EXCEPT ![x].pc = "next", ![x].todo = picked]
    <3> DEFINE mine == {t \in dbTasks : /\ tunnel[t].client = work[x].client
                                        /\ work[x].op = "closeClient" => tunnel[t].noStore}
    <3>1. work' = [work EXCEPT ![x].pc = "next", ![x].todo = mine] /\ mine \in SUBSET TaskIds
      BY <1>0, <1>18 DEF T!Range
    <3> HIDE DEF mine
    <3>2. QED
      BY <3>1
  <2>2. [work[x] EXCEPT !.pc = "next", !.todo = picked] \in Job
    BY <1>0 DEF Job
  <2>3. work' \in [T!Handlers -> Job]
    BY <1>0, <2>1, <2>2
  <2>4. QED
    BY <1>0, <1>18, <2>3 DEF T!Range, TaskTypes, T!dbvars, T!runvars, T!bounds
<1>19. CASE T!NextTask(x)
  <2>1. work' \in [T!Handlers -> Job]
    <3>1. CASE work' = [work EXCEPT ![x] = T!Idle]
      BY <1>0, <3>1, IdleFacts
    <3>2. ASSUME NEW t \in work[x].todo, work' = [work EXCEPT ![x] = T!TakesUp(work[x], t)]
          PROVE  work' \in [T!Handlers -> Job]
      <4>1. t \in TaskIds
        BY <1>0 DEF Job
      <4>2. T!TakesUp(work[x], t) \in Job
        BY <1>0, <4>1, TakenUp
      <4>3. QED
        BY <1>0, <3>2, <4>2
    <3>3. QED
      BY <1>19, <3>1, <3>2 DEF T!NextTask
  <2>3. QED
    BY <1>0, <1>19, <2>1 DEF T!NextTask, TaskTypes, T!dbvars, T!runvars, T!bounds
<1>20. QED
  BY <1>2, <1>3, <1>4, <1>5, <1>6, <1>7, <1>8, <1>9, <1>10, <1>11, <1>12, <1>13, <1>14, <1>15,
     <1>16, <1>17, <1>18, <1>19 DEF T!Step

\* A set of numbers has a least one.
LEMMA LeastExists ==
    ASSUME NEW ids \in SUBSET Nat, ids # {}
    PROVE  \E k \in ids : \A j \in ids : ~(j < k)
<1> DEFINE less == {pair \in Nat \X Nat : pair[1] < pair[2]}
<1>1. IsWellFoundedOn(less, Nat)
  BY NatLessThanWellFounded DEF OpToRel
<1>2. PICK k \in ids : \A j \in ids : ~(<<j, k>> \in less)
  <2> HIDE DEF less
  <2>1. QED
    BY <1>1, WFMin
<1>3. QED
  BY <1>2

\* The last id that the files give out again.
LEMMA LargestFacts ==
    ASSUME NEW ids, ids \subseteq TaskIds
    PROVE  T!Largest(ids) \in Nat /\ \A m \in ids : m <= T!Largest(ids)
<1>1. CASE ids = {}
  BY <1>1 DEF T!Largest
<1>2. CASE ids # {}
  <2>1. PICK n \in TaskIds : \A t \in TaskIds : t <= n
    BY TaskAssumption
  <2>2. TaskIds \subseteq Nat
    BY IdFacts
  <2> DEFINE below == {k \in Nat : \E m \in ids : m + k = n}
  <2>3. below \subseteq Nat /\ below # {}
    <3>1. PICK m \in ids : TRUE
      BY <1>2
    <3>2. m \in Nat /\ n \in Nat /\ m <= n
      BY <2>1, <2>2
    <3>3. n - m \in Nat /\ m + (n - m) = n
      BY <3>2
    <3>4. n - m \in below
      BY <3>3
    <3>5. QED
      BY <3>4
  <2>4. PICK k \in below : \A j \in below : ~(j < k)
    BY <2>3, LeastExists
  <2>5. k \in Nat /\ \A j \in below : j \in Nat /\ ~(j < k)
    BY <2>3, <2>4
  <2>6. PICK top \in ids : top + k = n
    BY <2>4
  <2>7. ASSUME NEW m \in ids PROVE m <= top
    <3>1. m \in Nat /\ n \in Nat /\ m <= n /\ top \in Nat
      BY <2>1, <2>2
    <3>2. n - m \in Nat /\ m + (n - m) = n
      BY <3>1
    <3>3. n - m \in below
      BY <3>2
    <3>4. ~(n - m < k)
      BY <2>5, <3>3
    <3>5. QED
      BY <2>5, <2>6, <3>1, <3>4
  <2>8. T!Largest(ids) = CHOOSE m \in ids : \A j \in ids : j <= m
    BY <1>2 DEF T!Largest
  <2>9. T!Largest(ids) \in ids /\ \A m \in ids : m <= T!Largest(ids)
    BY <2>7, <2>8
  <2>10. QED
    BY <2>2, <2>9
<1>3. QED
  BY <1>1, <1>2

\* The steps that are not a step of a request.
Begun ==
    \/ \E s \in 1 .. Len(servers) : T!Listen(s)
    \/ \E x \in Web, t \in TaskIds, op \in {"start", "stop", "delete", "edit"} : T!Request(x, op, t)
    \/ \E x \in Web, t \in TaskIds, p \in TaskPorts \cup TakenPorts : T!EditRefused(x, t, p)
    \/ \E x \in Web, op \in {"add", "config"}, c \in TaskIds, p \in TaskPorts, m \in Modes :
          T!NewTask(x, op, c, p, m)
    \/ \E x \in Web : T!NewClient(x) \/ \E c \in TaskIds : T!DelClient(x, c)
    \/ \E c \in TaskIds : T!CloseClient(c)
    \/ T!Crash \/ T!BridgePanics \/ T!Restart

\* The requests as they begin.
OnTask(op, t) == [T!Idle EXCEPT !.op = op, !.pc = T!First(op), !.task = t, !.then = "load"]
OnNew(op, t) == [T!Idle EXCEPT !.op = op, !.pc = "create", !.task = t]
OnClient == [T!Idle EXCEPT !.op = "client", !.pc = "saveClients"]
OnDeleted(c) == [T!Idle EXCEPT !.op = "delClient", !.pc = "saveClients", !.then = "range",
                               !.client = c]
OnClosed(c) == [T!Idle EXCEPT !.op = "closeClient", !.pc = "range", !.client = c]
OnBoot(ids) == [T!Idle EXCEPT !.op = "boot", !.pc = "next", !.todo = ids]

\* Start, stop, delete or edit of a task, as it begins.
LEMMA OnTaskFacts ==
    ASSUME NEW op \in {"start", "stop", "delete", "edit"}, NEW t \in TaskIds
    PROVE  /\ OnTask(op, t) \in Job /\ OnTask(op, t).op = op /\ OnTask(op, t).task = t
           /\ OnTask(op, t).then = "load" /\ OnTask(op, t).todo = {}
           /\ op = "start" => OnTask(op, t).pc = "find"
           /\ op = "stop" => OnTask(op, t).pc = "load"
           /\ op = "delete" => OnTask(op, t).pc = "listed"
           /\ op = "edit" => OnTask(op, t).pc = "save"
<1>1. T!Idle \in Job /\ T!Idle.todo = {}
  BY IdleFacts
<1>2. CASE op = "start"
  BY <1>1, <1>2 DEF Job, T!First, OnTask
<1>3. CASE op = "stop"
  BY <1>1, <1>3 DEF Job, T!First, OnTask
<1>4. CASE op = "delete"
  BY <1>1, <1>4 DEF Job, T!First, OnTask
<1>5. CASE op = "edit"
  BY <1>1, <1>5 DEF Job, T!First, OnTask
<1>6. QED
  BY <1>2, <1>3, <1>4, <1>5

\* A new task, before it is stored.
LEMMA OnNewFacts ==
    ASSUME NEW op \in {"add", "config"}, NEW t \in TaskIds
    PROVE  /\ OnNew(op, t) \in Job /\ OnNew(op, t).op = op /\ OnNew(op, t).pc = "create"
           /\ OnNew(op, t).task = t /\ OnNew(op, t).todo = {}
<1>1. T!Idle \in Job /\ T!Idle.todo = {}
  BY IdleFacts
<1>2. QED
  BY <1>1 DEF Job, OnNew

\* A new client, before it is stored.
LEMMA OnClientFacts ==
    /\ OnClient \in Job /\ OnClient.op = "client" /\ OnClient.pc = "saveClients"
    /\ OnClient.task = 0 /\ OnClient.todo = {} /\ OnClient.then = "done"
<1>1. T!Idle \in Job /\ T!Idle.todo = {} /\ T!Idle.task = 0 /\ T!Idle.then = "done"
  BY IdleFacts DEF T!Idle
<1>2. QED
  BY <1>1 DEF Job, OnClient

\* The deletion of a client, before its tasks are collected.
LEMMA OnDeletedFacts ==
    ASSUME NEW c \in TaskIds
    PROVE  /\ OnDeleted(c) \in Job /\ OnDeleted(c).op = "delClient"
           /\ OnDeleted(c).pc = "saveClients" /\ OnDeleted(c).task = 0
           /\ OnDeleted(c).todo = {} /\ OnDeleted(c).then = "range" /\ OnDeleted(c).client = c
<1>1. T!Idle \in Job /\ T!Idle.todo = {} /\ T!Idle.task = 0
  BY IdleFacts
<1>2. QED
  BY <1>1 DEF Job, OnDeleted

\* The end of a client that nps keeps, before its tasks are collected.
LEMMA OnClosedFacts ==
    ASSUME NEW c \in TaskIds
    PROVE  /\ OnClosed(c) \in Job /\ OnClosed(c).op = "closeClient" /\ OnClosed(c).pc = "range"
           /\ OnClosed(c).task = 0 /\ OnClosed(c).todo = {} /\ OnClosed(c).client = c
<1>1. T!Idle \in Job /\ T!Idle.todo = {} /\ T!Idle.task = 0
  BY IdleFacts
<1>2. QED
  BY <1>1 DEF Job, OnClosed

\* The start of the stored tasks.
LEMMA OnBootFacts ==
    ASSUME NEW ids \in SUBSET TaskIds
    PROVE  /\ OnBoot(ids) \in Job /\ OnBoot(ids).op = "boot" /\ OnBoot(ids).pc = "next"
           /\ OnBoot(ids).task = 0 /\ OnBoot(ids).todo = ids
<1>1. T!Idle \in Job /\ T!Idle.task = 0
  BY IdleFacts
<1>2. QED
  BY <1>1 DEF Job, OnBoot

\* A request begins with these.
LEMMA BegunWork ==
    /\ \A x, op, t : T!Request(x, op, t) => work' = [work EXCEPT ![x] = OnTask(op, t)]
    /\ \A x, op, c, p, m :
          T!NewTask(x, op, c, p, m) => work' = [work EXCEPT ![x] = OnNew(op, lastTask + 1)]
    /\ \A x : T!NewClient(x) => work' = [work EXCEPT ![x] = OnClient]
    /\ \A x, c : T!DelClient(x, c) => work' = [work EXCEPT ![x] = OnDeleted(c)]
    /\ \A c : T!CloseClient(c) => work' = [work EXCEPT ![T!Bridge] = OnClosed(c)]
    /\ T!Restart => work' = [work EXCEPT ![T!Main] = OnBoot(T!ToBoot)]
<1>1. ASSUME NEW x, NEW op, NEW t, T!Request(x, op, t)
      PROVE  work' = [work EXCEPT ![x] = OnTask(op, t)]
  BY <1>1 DEF T!Request, OnTask
<1>2. ASSUME NEW x, NEW op, NEW c, NEW p, NEW m, T!NewTask(x, op, c, p, m)
      PROVE  work' = [work EXCEPT ![x] = OnNew(op, lastTask + 1)]
  BY <1>2 DEF T!NewTask, OnNew
<1>3. ASSUME NEW x, T!NewClient(x) PROVE work' = [work EXCEPT ![x] = OnClient]
  BY <1>3 DEF T!NewClient, OnClient
<1>4. ASSUME NEW x, NEW c, T!DelClient(x, c) PROVE work' = [work EXCEPT ![x] = OnDeleted(c)]
  BY <1>4 DEF T!DelClient, OnDeleted
<1>5. ASSUME NEW c, T!CloseClient(c) PROVE work' = [work EXCEPT ![T!Bridge] = OnClosed(c)]
  BY <1>5 DEF T!CloseClient, OnClosed
<1>6. ASSUME T!Restart PROVE work' = [work EXCEPT ![T!Main] = OnBoot(T!ToBoot)]
  BY <1>6 DEF T!Restart, OnBoot
<1>7. QED
  BY <1>1, <1>2, <1>3, <1>4, <1>5, <1>6

\* The other steps keep the types.
LEMMA BegunTypes ==
    ASSUME TaskTypes, Begun PROVE TaskTypes'
<1> DEFINE kinds == {"nothing", "started", "stopped", "deleted"}
<1>0. /\ tup \in BOOLEAN /\ lastTask \in Nat /\ lastClient \in Nat
      /\ dbClients \subseteq TaskIds /\ dbTasks \subseteq TaskIds
      /\ tunnel \in [TaskIds -> Tunnel]
      /\ files \in [clients : SUBSET TaskIds, tasks : SUBSET Record]
      /\ \A q, r \in files.tasks : q.id = r.id => q = r
      /\ runList \in [TaskIds -> T!Entry]
      /\ servers \in Seq(Server) /\ Len(servers) <= MaxServers
      /\ work \in [T!Handlers -> Job]
      /\ tangled \subseteq TaskIds /\ acked \in [TaskIds -> kinds]
  BY DEF TaskTypes
<1>1. Web \subseteq T!Handlers /\ T!Bridge \in T!Handlers /\ T!Main \in T!Handlers
  BY IdFacts
<1>2. ASSUME NEW s \in 1 .. Len(servers), T!Listen(s) PROVE TaskTypes'
  <2>1. servers[s] \in Server /\ servers[s].task \in TaskIds /\ servers[s].port \in Port
    <3>1. servers[s] \in Server
      BY <1>0, ElementOfSeq
    <3>2. QED
      BY <3>1 DEF Server
  <2>2. tunnel[servers[s].task].port \in Port
    BY <1>0, <2>1 DEF Tunnel
  <2>3. servers' \in Seq(Server) /\ Len(servers') = Len(servers)
    <3>1. CASE servers' = [servers EXCEPT ![s] =
                              [task |-> servers[s].task, port |-> tunnel[servers[s].task].port,
                               state |-> "open"]]
      <4>1. servers \in Seq(Server)
        BY <1>0
      <4>2. QED
        BY <2>2, <3>1, <4>1, MovedServer
    <3>2. CASE servers' = [servers EXCEPT ![s].state = "failed"]
      <4>1. [servers[s] EXCEPT !.state = "failed"]
                = [task |-> servers[s].task, port |-> servers[s].port, state |-> "failed"]
        BY <2>1 DEF Server
      <4>2. servers' = [servers EXCEPT ![s] =
                           [task |-> servers[s].task, port |-> servers[s].port,
                            state |-> "failed"]]
        BY <3>2, <4>1
      <4>3. servers \in Seq(Server)
        BY <1>0
      <4>4. QED
        BY <2>1, <4>2, <4>3, MovedServer
    <3>3. QED
      BY <1>2, <3>1, <3>2 DEF T!Listen
  <2>4. runList' \in [TaskIds -> T!Entry]
    BY <1>0, <1>2, IdFacts DEF T!Listen, T!Unlisted
  <2>5. QED
    BY <1>0, <1>2, <2>3, <2>4 DEF T!Listen, TaskTypes, T!dbvars, T!bounds
<1>3. ASSUME NEW x \in Web, NEW t \in TaskIds, NEW op \in {"start", "stop", "delete", "edit"},
             T!Request(x, op, t)
      PROVE  TaskTypes'
  <2>1. PICK w \in Job : work' = [work EXCEPT ![x] = w]
    BY <1>3, BegunWork, OnTaskFacts
  <2>2. work' \in [T!Handlers -> Job]
    BY <1>0, <1>1, <2>1
  <2>3. tunnel' \in [TaskIds -> Tunnel]
    <3>1. ASSUME NEW p \in TaskPorts, tunnel' = [tunnel EXCEPT ![t].port = p]
          PROVE  tunnel' \in [TaskIds -> Tunnel]
      <4>1. [tunnel[t] EXCEPT !.port = p] \in Tunnel
        BY <1>0 DEF Tunnel, Port
      <4>2. QED
        BY <1>0, <3>1, <4>1
    <3>2. CASE tunnel' = tunnel
      BY <1>0, <3>2
    <3>3. tunnel' = tunnel \/ \E p \in TaskPorts : tunnel' = [tunnel EXCEPT ![t].port = p]
      BY <1>3 DEF T!Request
    <3>4. QED
      BY <3>1, <3>2, <3>3
  <2>4. acked' \in [TaskIds -> kinds]
    BY <1>0, <1>3 DEF T!Request
  <2>5. tangled' \subseteq TaskIds
    BY <1>0, <1>3 DEF T!Request
  <2>6. UNCHANGED <<tup, dbClients, dbTasks, lastTask, lastClient, files, runList, servers>>
    BY <1>3 DEF T!Request, T!runvars
  <2>7. QED
    BY <1>0, <2>2, <2>3, <2>4, <2>5, <2>6 DEF TaskTypes
<1>4. ASSUME NEW x \in Web, NEW t \in TaskIds, NEW p \in TaskPorts \cup TakenPorts,
             T!EditRefused(x, t, p)
      PROVE  TaskTypes'
  <2>1. [tunnel[t] EXCEPT !.port = p] \in Tunnel
    BY <1>0 DEF Tunnel, Port
  <2>2. tunnel' \in [TaskIds -> Tunnel]
    BY <1>0, <1>4, <2>1 DEF T!EditRefused
  <2>3. tangled' \subseteq TaskIds
    BY <1>0, <1>4 DEF T!EditRefused
  <2>4. UNCHANGED <<tup, dbClients, dbTasks, lastTask, lastClient, files, runList, servers, work,
                    acked>>
    BY <1>4 DEF T!EditRefused, T!runvars
  <2>5. QED
    BY <1>0, <2>2, <2>3, <2>4 DEF TaskTypes
<1>5. ASSUME NEW x \in Web, NEW op \in {"add", "config"}, NEW c \in TaskIds, NEW p \in TaskPorts,
             NEW m \in Modes, T!NewTask(x, op, c, p, m)
      PROVE  TaskTypes'
  <2>1. lastTask + 1 \in TaskIds
    BY <1>5 DEF T!NewTask
  <2>2. PICK w \in Job : work' = [work EXCEPT ![x] = w]
    BY <1>5, <2>1, BegunWork, OnNewFacts
  <2>3. work' \in [T!Handlers -> Job]
    BY <1>0, <1>1, <2>2
  <2>4. [status |-> TRUE, port |-> p, mode |-> m, client |-> c, noStore |-> op = "config"] \in Tunnel
    BY DEF Tunnel, Port
  <2>5. tunnel' \in [TaskIds -> Tunnel]
    BY <1>0, <1>5, <2>1, <2>4 DEF T!NewTask
  <2>6. acked' \in [TaskIds -> kinds] /\ tangled' \subseteq TaskIds /\ lastTask' \in Nat
    BY <1>0, <1>5, <2>1 DEF T!NewTask
  <2>7. UNCHANGED <<tup, dbClients, dbTasks, lastClient, files, runList, servers>>
    BY <1>5 DEF T!NewTask, T!runvars
  <2>8. QED
    BY <1>0, <2>3, <2>5, <2>6, <2>7 DEF TaskTypes
<1>6. ASSUME NEW x \in Web, T!NewClient(x) PROVE TaskTypes'
  <2>1. PICK w \in Job : work' = [work EXCEPT ![x] = w]
    BY <1>6, BegunWork, OnClientFacts
  <2>2. work' \in [T!Handlers -> Job] /\ dbClients' \subseteq TaskIds /\ lastClient' \in Nat
    BY <1>0, <1>1, <1>6, <2>1 DEF T!NewClient
  <2>3. UNCHANGED <<tup, dbTasks, tunnel, lastTask, files, runList, servers, tangled, acked>>
    BY <1>6 DEF T!NewClient, T!runvars
  <2>4. QED
    BY <1>0, <2>2, <2>3 DEF TaskTypes
<1>7. ASSUME NEW x \in Web, NEW c \in TaskIds, T!DelClient(x, c) PROVE TaskTypes'
  <2>1. PICK w \in Job : work' = [work EXCEPT ![x] = w]
    BY <1>7, BegunWork, OnDeletedFacts
  <2>2. work' \in [T!Handlers -> Job] /\ dbClients' \subseteq TaskIds
    BY <1>0, <1>1, <1>7, <2>1 DEF T!DelClient
  <2>3. tangled' \subseteq TaskIds
    BY <1>0, <1>7 DEF T!DelClient, T!Mine
  <2>4. acked' \in [TaskIds -> kinds]
    BY <1>0, <1>7 DEF T!DelClient
  <2>5. UNCHANGED <<tup, dbTasks, tunnel, lastTask, lastClient, files, runList, servers>>
    BY <1>7 DEF T!DelClient, T!runvars
  <2>6. QED
    BY <1>0, <2>2, <2>3, <2>4, <2>5 DEF TaskTypes
<1>8. ASSUME NEW c \in TaskIds, T!CloseClient(c) PROVE TaskTypes'
  <2>1. PICK w \in Job : work' = [work EXCEPT ![T!Bridge] = w]
    BY <1>8, BegunWork, OnClosedFacts
  <2>2. work' \in [T!Handlers -> Job]
    BY <1>0, <1>1, <2>1
  <2>3. tangled' \subseteq TaskIds
    BY <1>0, <1>8 DEF T!CloseClient, T!Mine
  <2>4. UNCHANGED <<tup, dbClients, dbTasks, tunnel, lastTask, lastClient, files, runList, servers,
                    acked>>
    BY <1>8 DEF T!CloseClient, T!dbvars, T!runvars
  <2>5. QED
    BY <1>0, <2>2, <2>3, <2>4 DEF TaskTypes
<1>9. ASSUME T!Down PROVE TaskTypes'
  <2>1. /\ tup' = FALSE /\ runList' = [t \in TaskIds |-> T!None]
        /\ servers' = [s \in 1 .. Len(servers) |-> [servers[s] EXCEPT !.state = "closed"]]
        /\ work' = [x \in T!Handlers |-> T!Idle]
        /\ UNCHANGED <<dbClients, dbTasks, tunnel, lastTask, lastClient, files, tangled, acked>>
    BY <1>9 DEF T!Down, T!dbvars
  <2>2. servers' \in Seq(Server) /\ Len(servers') = Len(servers)
    <3>1. \A s \in 1 .. Len(servers) : [servers[s] EXCEPT !.state = "closed"] \in Server
      <4>1. \A s \in 1 .. Len(servers) : servers[s] \in Server
        BY <1>0, ElementOfSeq
      <4>2. QED
        BY <4>1 DEF Server
    <3>2. Len(servers) \in Nat
      BY <1>0, LenProperties
    <3>3. servers' \in [1 .. Len(servers) -> Server]
      BY <2>1, <3>1
    <3>4. QED
      BY <3>2, <3>3, SeqDef, LenProperties
  <2>3. work' \in [T!Handlers -> Job]
    BY <2>1, IdleFacts
  <2>4. runList' \in [TaskIds -> T!Entry]
    BY <2>1, IdFacts
  <2>5. QED
    BY <1>0, <2>1, <2>2, <2>3, <2>4 DEF TaskTypes
<1>10. ASSUME T!Restart PROVE TaskTypes'
  <2>1. T!Loaded \subseteq files.tasks
    BY DEF T!Loaded
  <2>2. \A r \in T!Loaded : r \in Record
    BY <1>0, <2>1
  <2>3. {r.id : r \in T!Loaded} \subseteq TaskIds /\ T!ToBoot \in SUBSET TaskIds
    BY <2>2 DEF T!ToBoot, Record
  <2>4. files.clients \subseteq TaskIds
    BY <1>0
  <2>5. tunnel' \in [TaskIds -> Tunnel]
    <3>1. T!NoTunnel \in Tunnel
      BY DEF T!NoTunnel, Tunnel, Port
    <3>2. ASSUME NEW r \in Record
          PROVE  [status |-> r.status, port |-> r.port, mode |-> r.mode, client |-> r.client,
                  noStore |-> FALSE] \in Tunnel
      BY DEF Record, Tunnel
    <3>3. ASSUME NEW t \in TaskIds PROVE tunnel'[t] \in Tunnel
      <4>1. CASE \E r \in T!Loaded : r.id = t
        <5>1. PICK r : r = CHOOSE q \in T!Loaded : q.id = t
          OBVIOUS
        <5>2. r \in T!Loaded
          BY <4>1, <5>1
        <5>3. tunnel'[t] = [status |-> r.status, port |-> r.port, mode |-> r.mode,
                            client |-> r.client, noStore |-> FALSE]
          BY <1>10, <4>1, <5>1 DEF T!Restart
        <5>4. QED
          BY <2>2, <3>2, <5>2, <5>3
      <4>2. CASE ~\E r \in T!Loaded : r.id = t
        <5>1. tunnel'[t] = T!NoTunnel
          BY <1>10, <4>2 DEF T!Restart
        <5>2. QED
          BY <3>1, <5>1
      <4>3. QED
        BY <4>1, <4>2
    <3>4. PICK f : /\ f = [t \in TaskIds |-> tunnel'[t]] /\ tunnel' = f
      BY <1>10 DEF T!Restart
    <3>5. QED
      BY <3>3, <3>4
  <2>6. work' \in [T!Handlers -> Job]
    <3>1. work' = [work EXCEPT ![T!Main] = OnBoot(T!ToBoot)] /\ OnBoot(T!ToBoot) \in Job
      BY <1>10, <2>3, BegunWork, OnBootFacts
    <3>2. QED
      BY <1>0, <1>1, <3>1
  <2>7. /\ dbClients' \subseteq TaskIds /\ dbTasks' \subseteq TaskIds
        /\ lastTask' \in Nat /\ lastClient' \in Nat
    BY <1>10, <2>3, <2>4, LargestFacts DEF T!Restart
  <2>8. tup' = TRUE /\ UNCHANGED <<files, runList, servers, tangled, acked>>
    BY <1>10 DEF T!Restart, T!runvars
  <2>9. QED
    BY <1>0, <2>5, <2>6, <2>7, <2>8 DEF TaskTypes
<1>11. QED
  BY <1>2, <1>3, <1>4, <1>5, <1>6, <1>7, <1>8, <1>9, <1>10 DEF Begun, T!Crash, T!BridgePanics

\* A step is one of a request, or begins one, or is of a server, of the process or of none.
LEMMA NextCases ==
    ASSUME [T!Next]_(T!vars)
    PROVE  \/ \E x \in T!Handlers : T!Step(x)
           \/ Begun
           \/ UNCHANGED <<tup, dbClients, dbTasks, tunnel, lastTask, lastClient, files, runList,
                          servers, work, tangled, acked>>
  BY DEF T!Next, T!vars, T!dbvars, T!runvars, T!bounds, Begun

\* Every step keeps the types.
LEMMA TypesKept ==
    ASSUME TaskTypes, EntryInv, PauseInv, [T!Next]_(T!vars) PROVE TaskTypes'
<1>1. CASE \E x \in T!Handlers : T!Step(x)
  BY <1>1, StepTypes
<1>2. CASE Begun
  BY <1>2, BegunTypes
<1>3. CASE UNCHANGED <<tup, dbClients, dbTasks, tunnel, lastTask, lastClient, files, runList,
                       servers, work, tangled, acked>>
  BY <1>3 DEF TaskTypes
<1>4. QED
  BY <1>1, <1>2, <1>3, NextCases

-----------------------------------------------------------------------------
(* What each step of a request does.                                       *)

Fate(x, goal) == work' = [work EXCEPT ![x] = Gone(work[x], goal)] /\ acked' = Told(x, goal)
Saves(w, then) == [w EXCEPT !.pc = "save", !.then = then]
Closes(w, e) == [w EXCEPT !.svr = e, !.pc = "close"]
Ranges(w, ids) == [w EXCEPT !.pc = "next", !.todo = ids]
OnOpen(t) == [T!Idle EXCEPT !.op = "open", !.pc = "add", !.task = t]
OnStart(t) == [T!Idle EXCEPT !.op = "start", !.pc = "find", !.task = t]

\* A request that is about to save.
LEMMA SavesFacts ==
    ASSUME NEW w \in Job, NEW then \in {"done", "add", "try", "load", "unlist", "range"}
    PROVE  /\ Saves(w, then) \in Job /\ Saves(w, then).pc = "save" /\ Saves(w, then).then = then
           /\ Saves(w, then).op = w.op /\ Saves(w, then).task = w.task
           /\ Saves(w, then).client = w.client /\ Saves(w, then).todo = w.todo
  BY DEF Saves, Job

\* A request that is about to close a server.
LEMMA ClosesFacts ==
    ASSUME NEW w \in Job, NEW e \in T!Entry
    PROVE  /\ Closes(w, e) \in Job /\ Closes(w, e).pc = "close" /\ Closes(w, e).svr = e
           /\ Closes(w, e).op = w.op /\ Closes(w, e).task = w.task
           /\ Closes(w, e).client = w.client /\ Closes(w, e).todo = w.todo
  BY DEF Closes, Job

\* A request that has collected its tasks.
LEMMA RangesFacts ==
    ASSUME NEW w \in Job, NEW ids \in SUBSET TaskIds
    PROVE  /\ Ranges(w, ids) \in Job /\ Ranges(w, ids).pc = "next" /\ Ranges(w, ids).todo = ids
           /\ Ranges(w, ids).op = w.op /\ Ranges(w, ids).task = w.task
           /\ Ranges(w, ids).client = w.client
  BY DEF Ranges, Job

\* What DealBridgeTask takes from getConfig.
LEMMA OnOpenFacts ==
    ASSUME NEW t \in TaskIds
    PROVE  /\ OnOpen(t) \in Job /\ OnOpen(t).op = "open" /\ OnOpen(t).pc = "add"
           /\ OnOpen(t).task = t /\ OnOpen(t).todo = {}
           /\ OnStart(t) \in Job /\ OnStart(t).op = "start" /\ OnStart(t).pc = "find"
           /\ OnStart(t).task = t /\ OnStart(t).todo = {}
<1>1. T!Idle \in Job /\ T!Idle.todo = {}
  BY IdleFacts
<1>2. QED
  BY <1>1 DEF Job, OnOpen, OnStart

\* Where a request goes on, or ends.
LEMMA FateFacts ==
    ASSUME TaskTypes, NEW x \in T!Handlers
    PROVE  /\ \A goal : T!Goto(x, goal) => Fate(x, goal)
           /\ T!StopFailed(x) = IF work[x].op = "edit" THEN "find" ELSE "failed"
           /\ T!AfterAdd(x, TRUE) = IF work[x].op \in Starts THEN "status" ELSE "done"
           /\ T!AfterAdd(x, FALSE) = IF work[x].op \in Starts THEN "status" ELSE "failed"
<1>1. \A goal : T!Goto(x, goal) => Fate(x, goal)
  BY GotoFacts DEF Fate
<1>2. T!StopFailed(x) = IF work[x].op = "edit" THEN "find" ELSE "failed"
  BY DEF T!StopFailed
<1>3. QED
  BY <1>1, <1>2 DEF T!AfterAdd, Starts

\* Save (file.go storeSyncMapToFile).
LEMMA SaveDoes ==
    ASSUME TaskTypes, NEW x \in T!Handlers, T!Save(x)
    PROVE  /\ tup /\ work[x].pc = "save"
           /\ UNCHANGED <<tup, dbClients, dbTasks, tunnel, lastTask, lastClient, runList, servers,
                      tangled>>
           /\ Fate(x, work[x].then) /\ files' = [files EXCEPT !.tasks = T!StoredTasks]
  BY FateFacts DEF T!Save, T!dbvars, T!runvars, T!bounds, T!At

\* SaveClients (file.go storeSyncMapToFile).
LEMMA SaveClientsDoes ==
    ASSUME TaskTypes, NEW x \in T!Handlers, T!SaveClients(x)
    PROVE  /\ tup /\ work[x].pc = "saveClients"
           /\ UNCHANGED <<tup, dbClients, dbTasks, tunnel, lastTask, lastClient, runList, servers,
                      tangled>>
           /\ Fate(x, work[x].then) /\ files' = [files EXCEPT !.clients = dbClients]
  BY FateFacts DEF T!SaveClients, T!dbvars, T!runvars, T!bounds, T!At

\* AddTask (server.go AddTask): a secret task is listed, of another the port is tried.
LEMMA AddTaskDoes ==
    ASSUME TaskTypes, NEW x \in T!Handlers, T!AddTask(x)
    PROVE  /\ tup /\ work[x].pc = "add"
           /\ UNCHANGED <<tup, dbClients, dbTasks, tunnel, lastTask, lastClient, files, servers,
                      tangled>>
           /\ \/ /\ tunnel[work[x].task].mode = "secret"
                 /\ runList' = [runList EXCEPT ![work[x].task] = T!Secret]
                 /\ Fate(x, IF work[x].op \in Starts THEN "status" ELSE "done")
              \/ /\ tunnel[work[x].task].mode # "secret" /\ runList' = runList
                 /\ T!PortFree(tunnel[work[x].task].port) /\ Fate(x, "list")
              \/ /\ tunnel[work[x].task].mode # "secret" /\ runList' = runList
                 /\ ~T!PortFree(tunnel[work[x].task].port)
                 /\ Fate(x, IF work[x].op \in Starts THEN "status" ELSE "failed")
<1>1. T!At(x, "add") /\ UNCHANGED <<tup, T!dbvars, files, servers, T!bounds, tangled>>
  BY DEF T!AddTask
<1>2. CASE tunnel[work[x].task].mode = "secret"
  <2>1. runList' = [runList EXCEPT ![work[x].task] = T!Secret] /\ T!Goto(x, T!AfterAdd(x, TRUE))
    BY <1>2 DEF T!AddTask
  <2>2. QED
    BY <1>1, <1>2, <2>1, FateFacts DEF T!dbvars, T!runvars, T!bounds, T!At
<1>3. CASE tunnel[work[x].task].mode # "secret"
  <2>1. runList' = runList
        /\ T!Goto(x, IF T!PortFree(tunnel[work[x].task].port) THEN "list" ELSE T!AfterAdd(x, FALSE))
    BY <1>3 DEF T!AddTask
  <2>2. CASE T!PortFree(tunnel[work[x].task].port)
    BY <1>1, <1>3, <2>1, <2>2, FateFacts DEF T!dbvars, T!runvars, T!bounds, T!At
  <2>3. CASE ~T!PortFree(tunnel[work[x].task].port)
    BY <1>1, <1>3, <2>1, <2>3, FateFacts DEF T!dbvars, T!runvars, T!bounds, T!At
  <2>4. QED
    BY <2>2, <2>3
<1>4. QED
  BY <1>2, <1>3

\* ListServer (server.go AddTask): the server is made and listed.
LEMMA ListServerDoes ==
    ASSUME TaskTypes, NEW x \in T!Handlers, T!ListServer(x)
    PROVE  /\ tup /\ work[x].pc = "list"
           /\ UNCHANGED <<tup, dbClients, dbTasks, tunnel, lastTask, lastClient, files, tangled>>
           /\ Len(servers) < MaxServers
           /\ servers' = Append(servers, [task |-> work[x].task, port |-> 0, state |-> "new"])
           /\ runList' = [runList EXCEPT ![work[x].task] = Len(servers) + 1]
           /\ Fate(x, IF work[x].op \in Starts THEN "status" ELSE "done")
<1>1. T!Goto(x, T!AfterAdd(x, TRUE))
  BY DEF T!ListServer
<1>2. Fate(x, IF work[x].op \in Starts THEN "status" ELSE "done")
  BY <1>1, FateFacts
<1>3. QED
  BY <1>2 DEF T!ListServer, T!dbvars, T!runvars, T!bounds, T!At

\* FindToStart (server.go StartTask).
LEMMA FindToStartDoes ==
    ASSUME TaskTypes, NEW x \in T!Handlers, T!FindToStart(x)
    PROVE  /\ tup /\ work[x].pc = "find"
           /\ UNCHANGED <<tup, dbClients, dbTasks, tunnel, lastTask, lastClient, files, runList,
                      servers, tangled>>
           /\ Fate(x, IF work[x].task \in dbTasks THEN "add" ELSE "failed")
  BY FateFacts DEF T!FindToStart, T!dbvars, T!runvars, T!bounds, T!At

\* Started (server.go StartTask).
LEMMA StartedDoes ==
    ASSUME TaskTypes, NEW x \in T!Handlers, T!Started(x)
    PROVE  /\ tup /\ work[x].pc = "status"
           /\ UNCHANGED <<tup, dbClients, lastTask, lastClient, files, runList, servers, tangled,
                      acked>>
           /\ work' = [work EXCEPT ![x] = Saves(work[x], "done")]
           /\ tunnel' = [tunnel EXCEPT ![work[x].task].status = TRUE]
           /\ dbTasks' = dbTasks \cup {work[x].task}
<1>1. work \in [T!Handlers -> Job]
  BY DEF TaskTypes
<1>2. work' = [work EXCEPT ![x] = Saves(work[x], "done")]
  BY <1>1 DEF T!Started, Saves, T!AfterUnset
<1>3. QED
  BY <1>2 DEF T!Started, T!SetStatus, T!dbvars, T!runvars, T!bounds, T!At

\* Stopped (server.go StopServer).
LEMMA StoppedDoes ==
    ASSUME TaskTypes, NEW x \in T!Handlers, T!Stopped(x)
    PROVE  /\ tup /\ work[x].pc = "unset"
           /\ UNCHANGED <<tup, dbClients, lastTask, lastClient, files, runList, servers, tangled,
                      acked>>
           /\ work' = [work EXCEPT ![x] = Saves(work[x], "unlist")]
           /\ tunnel' = [tunnel EXCEPT ![work[x].task].status = FALSE]
           /\ dbTasks' = dbTasks \cup {work[x].task}
<1>1. work \in [T!Handlers -> Job]
  BY DEF TaskTypes
<1>2. work' = [work EXCEPT ![x] = Saves(work[x], "unlist")]
  BY <1>1 DEF T!Stopped, Saves, T!AfterUnset
<1>3. QED
  BY <1>2 DEF T!Stopped, T!SetStatus, T!dbvars, T!runvars, T!bounds, T!At

\* StopLoad (server.go StopServer): the entry is loaded, or there is none.
LEMMA StopLoadDoes ==
    ASSUME TaskTypes, NEW x \in T!Handlers, T!StopLoad(x)
    PROVE  /\ tup /\ work[x].pc = "load"
           /\ UNCHANGED <<tup, dbClients, dbTasks, tunnel, lastTask, lastClient, files, runList,
                      servers, tangled>>
           /\ \/ /\ runList[work[x].task] # T!None /\ acked' = acked
                 /\ work' = [work EXCEPT ![x] = Closes(work[x], runList[work[x].task])]
              \/ /\ runList[work[x].task] = T!None
                 /\ Fate(x, IF work[x].op = "edit" THEN "find" ELSE "failed")
<1>1. T!At(x, "load") /\ UNCHANGED <<tup, T!dbvars, files, T!runvars, T!bounds, tangled>>
  BY DEF T!StopLoad
<1>2. CASE runList[work[x].task] # T!None
  <2>1. /\ work' = [work EXCEPT ![x].svr = runList[work[x].task], ![x].pc = "close"]
        /\ acked' = acked
    BY <1>2 DEF T!StopLoad
  <2>2. work' = [work EXCEPT ![x] = Closes(work[x], runList[work[x].task])]
    BY <2>1 DEF Closes, TaskTypes
  <2>3. QED
    BY <1>1, <1>2, <2>1, <2>2 DEF T!dbvars, T!runvars, T!bounds, T!At
<1>3. CASE runList[work[x].task] = T!None
  <2>1. T!Goto(x, T!StopFailed(x))
    BY <1>3 DEF T!StopLoad
  <2>2. QED
    BY <1>1, <1>3, <2>1, FateFacts DEF T!dbvars, T!runvars, T!bounds, T!At
<1>4. QED
  BY <1>2, <1>3

\* StopClose (server.go StopServer): the server is closed, if it listens.
LEMMA StopCloseDoes ==
    ASSUME TaskTypes, EntryInv, NEW x \in T!Handlers, T!StopClose(x)
    PROVE  /\ tup /\ work[x].pc = "close"
           /\ UNCHANGED <<tup, dbClients, dbTasks, tunnel, lastTask, lastClient, files, runList,
                      tangled>>
           /\ \/ work[x].svr = T!Secret /\ servers' = servers /\ Fate(x, "look")
              \/ /\ work[x].svr \in 1 .. Len(servers) /\ servers[work[x].svr].task = work[x].task
                 /\ servers[work[x].svr].state = "open" /\ Fate(x, "look")
                 /\ servers' = [servers EXCEPT ![work[x].svr] =
                                  [task |-> work[x].task, port |-> servers[work[x].svr].port,
                                   state |-> "closed"]]
              \/ /\ work[x].svr \in 1 .. Len(servers) /\ servers[work[x].svr].state # "open"
                 /\ servers' = servers /\ Fate(x, IF work[x].op = "edit" THEN "find" ELSE "failed")
<1>1. T!At(x, "close") /\ UNCHANGED <<tup, T!dbvars, files, runList, T!bounds, tangled>>
  BY DEF T!StopClose
<1>2. CASE work[x].svr = T!Secret
  <2>1. T!Goto(x, "look") /\ servers' = servers
    BY <1>2 DEF T!StopClose
  <2>2. QED
    BY <1>1, <1>2, <2>1, FateFacts DEF T!dbvars, T!runvars, T!bounds, T!At
<1>3. CASE work[x].svr # T!Secret
  <2>1. work[x].svr \in T!Entry /\ work[x].svr # T!None
    BY <1>1 DEF TaskTypes, Job, EntryInv, T!At
  <2>2. work[x].svr \in Nat /\ work[x].svr > 0
    BY <1>3, <2>1, IdFacts
  <2>3. /\ work[x].svr <= Len(servers) /\ servers[work[x].svr].task = work[x].task
        /\ Len(servers) \in Nat
    BY <1>1, <2>2, LenProperties DEF EntryInv, T!At, TaskTypes
  <2>4. PICK s \in 1 .. Len(servers) : s = work[x].svr
    BY <2>2, <2>3
  <2>5. CASE servers[s].state = "open"
    <3>1. T!Goto(x, "look") /\ servers' = [servers EXCEPT ![s].state = "closed"]
      BY <1>3, <2>4, <2>5 DEF T!StopClose
    <3>2. servers[s] \in Server
      BY ElementOfSeq DEF TaskTypes
    <3>3. [servers[s] EXCEPT !.state = "closed"]
              = [task |-> work[x].task, port |-> servers[s].port, state |-> "closed"]
      BY <2>3, <2>4, <3>2 DEF Server
    <3>4. servers' = [servers EXCEPT ![s] = [task |-> work[x].task, port |-> servers[s].port,
                                             state |-> "closed"]]
      BY <3>1, <3>3
    <3>5. QED
      BY <1>1, <2>3, <2>4, <2>5, <3>1, <3>4, FateFacts DEF T!dbvars, T!runvars, T!bounds, T!At
  <2>6. CASE servers[s].state # "open"
    <3>1. T!Goto(x, T!StopFailed(x)) /\ servers' = servers
      BY <1>3, <2>4, <2>6 DEF T!StopClose
    <3>2. QED
      BY <1>1, <2>4, <2>6, <3>1, FateFacts DEF T!dbvars, T!runvars, T!bounds, T!At
  <2>7. QED
    BY <2>5, <2>6
<1>4. QED
  BY <1>2, <1>3

\* StopPanics (tcp.go Close): the request ends.
LEMMA StopPanicsDoes ==
    ASSUME TaskTypes, NEW x \in T!Handlers, T!StopPanics(x)
    PROVE  /\ tup /\ work[x].pc = "close"
           /\ UNCHANGED <<tup, dbClients, dbTasks, tunnel, lastTask, lastClient, files, runList,
                      servers, acked>>
           /\ work[x].svr # T!Secret /\ servers[work[x].svr].state \in {"new", "failed"}
           /\ work' = [work EXCEPT ![x] = T!Idle] /\ tangled' = tangled \cup work[x].todo
  BY FateFacts DEF T!StopPanics, T!dbvars, T!runvars, T!bounds, T!At

\* StopLook (server.go StopServer).
LEMMA StopLookDoes ==
    ASSUME TaskTypes, NEW x \in T!Handlers, T!StopLook(x)
    PROVE  /\ tup /\ work[x].pc = "look"
           /\ UNCHANGED <<tup, dbClients, dbTasks, tunnel, lastTask, lastClient, files, runList,
                      servers, tangled>>
           /\ \/ work[x].task \in dbTasks /\ Fate(x, "unset")
              \/ /\ work[x].task \notin dbTasks
                 /\ Fate(x, IF work[x].op = "edit" THEN "find" ELSE "failed")
  BY FateFacts DEF T!StopLook, T!dbvars, T!runvars, T!bounds, T!At

\* Unlist (server.go StopServer).
LEMMA UnlistDoes ==
    ASSUME TaskTypes, NEW x \in T!Handlers, T!Unlist(x)
    PROVE  /\ tup /\ work[x].pc = "unlist"
           /\ UNCHANGED <<tup, dbClients, dbTasks, tunnel, lastTask, lastClient, files, servers,
                      tangled>>
           /\ runList' = [runList EXCEPT ![work[x].task] = T!None]
           /\ \/ work[x].op = "stop" /\ Fate(x, "done")
              \/ work[x].op = "edit" /\ Fate(x, "find")
              \/ work[x].op \notin {"stop", "edit"} /\ Fate(x, "remove")
  BY FateFacts DEF T!Unlist, T!dbvars, T!runvars, T!bounds, T!At, T!Unlisted

\* DelLoad (server.go DelTask).
LEMMA DelLoadDoes ==
    ASSUME TaskTypes, NEW x \in T!Handlers, T!DelLoad(x)
    PROVE  /\ tup /\ work[x].pc = "listed"
           /\ UNCHANGED <<tup, dbClients, dbTasks, tunnel, lastTask, lastClient, files, runList,
                      servers, tangled>>
           /\ \/ runList[work[x].task] # T!None /\ Fate(x, "load")
              \/ runList[work[x].task] = T!None /\ Fate(x, "remove")
  BY FateFacts DEF T!DelLoad, T!dbvars, T!runvars, T!bounds, T!At

\* Remove (db.go DelTask).
LEMMA RemoveDoes ==
    ASSUME TaskTypes, NEW x \in T!Handlers, T!Remove(x)
    PROVE  /\ tup /\ work[x].pc = "remove"
           /\ UNCHANGED <<tup, dbClients, tunnel, lastTask, lastClient, files, runList, servers,
                      tangled, acked>>
           /\ work' = [work EXCEPT ![x] = Saves(work[x], "done")]
           /\ dbTasks' = dbTasks \ {work[x].task}
<1>1. work' = [work EXCEPT ![x] = Saves(work[x], "done")]
  BY DEF T!Remove, Saves, TaskTypes
<1>2. QED
  BY <1>1 DEF T!Remove, T!dbvars, T!runvars, T!bounds, T!At

\* Create (db.go NewTask).
LEMMA CreateDoes ==
    ASSUME TaskTypes, NEW x \in T!Handlers, T!Create(x)
    PROVE  /\ tup /\ work[x].pc = "create"
           /\ UNCHANGED <<tup, dbClients, tunnel, lastTask, lastClient, files, runList, servers,
                      tangled, acked>>
           /\ \/ work[x].op = "config" /\ work' = [work EXCEPT ![x] = Saves(work[x], "try")]
              \/ work[x].op # "config" /\ work' = [work EXCEPT ![x] = Saves(work[x], "add")]
           /\ dbTasks' = dbTasks \cup {work[x].task}
<1>1. \/ work[x].op = "config" /\ work' = [work EXCEPT ![x] = Saves(work[x], "try")]
      \/ work[x].op # "config" /\ work' = [work EXCEPT ![x] = Saves(work[x], "add")]
  <2>1. CASE work[x].op = "config"
    BY <2>1 DEF T!Create, Saves, TaskTypes
  <2>2. CASE work[x].op # "config"
    BY <2>2 DEF T!Create, Saves, TaskTypes
  <2>3. QED
    BY <2>1, <2>2
<1>2. QED
  BY <1>1 DEF T!Create, T!dbvars, T!runvars, T!bounds, T!At

\* TryPort (bridge.go getConfig): DealBridgeTask gets the task, or the port is taken.
LEMMA TryPortDoes ==
    ASSUME TaskTypes, NEW x \in T!Handlers, T!TryPort(x)
    PROVE  /\ tup /\ work[x].pc = "try"
           /\ UNCHANGED <<tup, dbClients, dbTasks, tunnel, lastTask, lastClient, files, runList,
                      servers, tangled, acked>>
           /\ \/ /\ work[T!Bridge].pc = "idle"
                 /\ \/ work' = [work EXCEPT ![x] = T!Idle, ![T!Bridge] = OnOpen(work[x].task)]
                    \/ work' = [work EXCEPT ![x] = T!Idle, ![T!Bridge] = OnStart(work[x].task)]
              \/ work' = [work EXCEPT ![x] = T!Idle]
<1>1. ASSUME NEW b \in {[op |-> "open", pc |-> "add"], [op |-> "start", pc |-> "find"]}
      PROVE  \/ [T!Idle EXCEPT !.op = b.op, !.pc = b.pc, !.task = work[x].task] = OnOpen(work[x].task)
             \/ [T!Idle EXCEPT !.op = b.op, !.pc = b.pc, !.task = work[x].task] = OnStart(work[x].task)
  <2>1. CASE b = [op |-> "open", pc |-> "add"]
    BY <2>1 DEF OnOpen
  <2>2. CASE b = [op |-> "start", pc |-> "find"]
    BY <2>2 DEF OnStart
  <2>3. QED
    BY <2>1, <2>2
<1>2. \/ /\ work[T!Bridge].pc = "idle"
         /\ \E b \in {[op |-> "open", pc |-> "add"], [op |-> "start", pc |-> "find"]} :
               work' = [work EXCEPT ![x] = T!Idle,
                           ![T!Bridge] = [T!Idle EXCEPT !.op = b.op, !.pc = b.pc, !.task = work[x].task]]
      \/ work' = [work EXCEPT ![x] = T!Idle]
  BY DEF T!TryPort
<1>3. \/ /\ work[T!Bridge].pc = "idle"
         /\ \/ work' = [work EXCEPT ![x] = T!Idle, ![T!Bridge] = OnOpen(work[x].task)]
            \/ work' = [work EXCEPT ![x] = T!Idle, ![T!Bridge] = OnStart(work[x].task)]
      \/ work' = [work EXCEPT ![x] = T!Idle]
  BY <1>1, <1>2
<1>4. T!At(x, "try") /\ UNCHANGED <<tup, T!dbvars, files, T!runvars, T!bounds, tangled, acked>>
  BY DEF T!TryPort
<1>5. QED
  BY <1>3, <1>4 DEF T!dbvars, T!runvars, T!bounds, T!At

\* The tasks that the end of a client collects.
OfClient(w) ==
    {t \in dbTasks : tunnel[t].client = w.client /\ (w.op = "closeClient" => tunnel[t].noStore)}

\* Range (server.go DelTunnelAndHostByClientId).
LEMMA RangeDoes ==
    ASSUME TaskTypes, NEW x \in T!Handlers, T!Range(x)
    PROVE  /\ tup /\ work[x].pc = "range"
           /\ UNCHANGED <<tup, dbClients, dbTasks, tunnel, lastTask, lastClient, files, runList,
                      servers, tangled, acked>>
           /\ OfClient(work[x]) \in SUBSET TaskIds
           /\ work' = [work EXCEPT ![x] = Ranges(work[x], OfClient(work[x]))]
<1>1. OfClient(work[x]) \in SUBSET TaskIds
  BY DEF TaskTypes, OfClient
<1>2. work' = [work EXCEPT ![x].pc = "next", ![x].todo = OfClient(work[x])]
  BY DEF T!Range, OfClient
<1>3. T!At(x, "range") /\ UNCHANGED <<tup, T!dbvars, files, T!runvars, T!bounds, tangled, acked>>
  BY DEF T!Range
<1>4. work' = [work EXCEPT ![x] = Ranges(work[x], OfClient(work[x]))]
  BY <1>2 DEF Ranges, TaskTypes
<1>5. QED
  BY <1>1, <1>3, <1>4 DEF T!dbvars, T!runvars, T!bounds, T!At

\* NextTask (server.go DelTunnelAndHostByClientId, InitFromCsv).
LEMMA NextTaskDoes ==
    ASSUME TaskTypes, NEW x \in T!Handlers, T!NextTask(x)
    PROVE  /\ tup /\ work[x].pc = "next"
           /\ UNCHANGED <<tup, dbClients, dbTasks, tunnel, lastTask, lastClient, files, runList,
                      servers, tangled, acked>>
           /\ \/ work[x].todo = {} /\ work' = [work EXCEPT ![x] = T!Idle]
              \/ \E t \in work[x].todo :
                    t \in TaskIds /\ work' = [work EXCEPT ![x] = T!TakesUp(work[x], t)]
<1>1. \A t \in work[x].todo : t \in TaskIds
  BY DEF TaskTypes, Job
<1>2. QED
  BY <1>1 DEF T!NextTask, T!dbvars, T!runvars, T!bounds, T!At

-----------------------------------------------------------------------------
(* What the other steps do.                                                *)

\* Listen (server.go AddTask): the server listens, or has failed and is unlisted.
LEMMA ListenDoes ==
    ASSUME TaskTypes, NEW s \in 1 .. Len(servers),
           T!Listen(s)
    PROVE  /\ UNCHANGED <<tup, dbClients, dbTasks, tunnel, lastTask, lastClient, files, work,
                      tangled, acked>>
           /\ tup /\ servers[s].state = "new" /\ servers[s] \in Server
           /\ \/ /\ runList' = runList
                 /\ servers' = [servers EXCEPT ![s] =
                                  [task |-> servers[s].task, port |-> tunnel[servers[s].task].port,
                                   state |-> "open"]]
              \/ /\ runList' = [runList EXCEPT ![servers[s].task] = T!None]
                 /\ servers' = [servers EXCEPT ![s] =
                                  [task |-> servers[s].task, port |-> servers[s].port,
                                   state |-> "failed"]]
<1>1. servers[s] \in Server
  BY ElementOfSeq DEF TaskTypes
<1>2. [servers[s] EXCEPT !.state = "failed"]
          = [task |-> servers[s].task, port |-> servers[s].port, state |-> "failed"]
  BY <1>1 DEF Server
<1>3. tup /\ servers[s].state = "new" /\ UNCHANGED <<tup, T!dbvars, files, work, T!bounds, tangled, acked>>
  BY DEF T!Listen
<1>4. \/ /\ runList' = runList
         /\ servers' = [servers EXCEPT ![s] =
                          [task |-> servers[s].task, port |-> tunnel[servers[s].task].port,
                           state |-> "open"]]
      \/ /\ runList' = [runList EXCEPT ![servers[s].task] = T!None]
         /\ servers' = [servers EXCEPT ![s].state = "failed"]
  BY DEF T!Listen, T!Unlisted
<1>5. QED
  BY <1>1, <1>2, <1>3, <1>4 DEF T!dbvars, T!runvars, T!bounds

\* Request (index.go Start, Stop, Del, Edit).
LEMMA RequestDoes ==
    ASSUME TaskTypes, NEW x \in Web, NEW t \in TaskIds,
           NEW op \in {"start", "stop", "delete", "edit"},
           T!Request(x, op, t)
    PROVE  /\ UNCHANGED <<tup, dbClients, dbTasks, lastTask, lastClient, files, runList, servers>>
           /\ tup /\ work[x].pc = "idle" /\ work' = [work EXCEPT ![x] = OnTask(op, t)]
           /\ t \in dbTasks /\ acked' = [acked EXCEPT ![t] = "nothing"]
           /\ tangled' = IF T!Busy(t) THEN tangled \cup {t} ELSE tangled
           /\ op # "edit" => tunnel' = tunnel
           /\ op = "edit" => \E p \in TaskPorts : tunnel' = [tunnel EXCEPT ![t].port = p]
<1>1. work' = [work EXCEPT ![x] = OnTask(op, t)]
  BY BegunWork
<1>2. T!Console(x) /\ UNCHANGED <<tup, dbClients, dbTasks, lastTask, lastClient, files, T!runvars>>
  BY DEF T!Request
<1>3. /\ op # "edit" => tunnel' = tunnel
      /\ op = "edit" => \E p \in TaskPorts : tunnel' = [tunnel EXCEPT ![t].port = p]
  BY DEF T!Request
<1>4. /\ t \in dbTasks /\ acked' = [acked EXCEPT ![t] = "nothing"]
      /\ tangled' = IF T!Busy(t) THEN tangled \cup {t} ELSE tangled
  BY DEF T!Request
<1>5. QED
  BY <1>1, <1>2, <1>3, <1>4 DEF T!dbvars, T!runvars, T!bounds, T!Console, T!MayBegin

\* EditRefused (index.go Edit).
LEMMA EditRefusedDoes ==
    ASSUME TaskTypes, NEW x \in Web, NEW t \in TaskIds, NEW p \in TaskPorts \cup TakenPorts,
           T!EditRefused(x, t, p)
    PROVE  /\ UNCHANGED <<tup, dbClients, dbTasks, lastTask, lastClient, files, runList, servers,
                      work, acked>>
           /\ tup /\ t \in dbTasks /\ tunnel' = [tunnel EXCEPT ![t].port = p]
           /\ tangled' = IF T!Busy(t) \/ runList[t] # T!None THEN tangled \cup {t} ELSE tangled
  BY DEF T!EditRefused, T!dbvars, T!runvars, T!bounds, T!Console, T!MayBegin

\* NewTask (index.go Add, bridge.go getConfig).
LEMMA NewTaskDoes ==
    ASSUME TaskTypes, NEW x \in Web, NEW op \in {"add", "config"}, NEW c \in TaskIds,
           NEW p \in TaskPorts, NEW m \in Modes,
           T!NewTask(x, op, c, p, m)
    PROVE  /\ UNCHANGED <<tup, dbClients, dbTasks, lastClient, files, runList, servers>>
           /\ tup /\ work[x].pc = "idle" /\ c \in dbClients
           /\ lastTask + 1 \in TaskIds /\ lastTask' = lastTask + 1
           /\ work' = [work EXCEPT ![x] = OnNew(op, lastTask + 1)]
           /\ tunnel' = [tunnel EXCEPT ![lastTask + 1] =
                            [status |-> TRUE, port |-> p, mode |-> m, client |-> c,
                             noStore |-> op = "config"]]
           /\ tangled' = IF \E y \in T!Handlers : work[y].op \in T!ClientOps /\ work[y].client = c
                         THEN tangled \cup {lastTask + 1} ELSE tangled \ {lastTask + 1}
           /\ acked' = [acked EXCEPT ![lastTask + 1] = "nothing"]
<1>1. work' = [work EXCEPT ![x] = OnNew(op, lastTask + 1)]
  BY BegunWork
<1>2. /\ T!MayBegin(x) /\ c \in dbClients /\ lastTask + 1 \in TaskIds /\ lastTask' = lastTask + 1
      /\ UNCHANGED <<tup, dbClients, dbTasks, lastClient, files, T!runvars>>
  BY DEF T!NewTask
<1>3. tunnel' = [tunnel EXCEPT ![lastTask + 1] =
                    [status |-> TRUE, port |-> p, mode |-> m, client |-> c,
                     noStore |-> op = "config"]]
  BY DEF T!NewTask
<1>4. /\ tangled' = IF \E y \in T!Handlers : work[y].op \in T!ClientOps /\ work[y].client = c
                    THEN tangled \cup {lastTask + 1} ELSE tangled \ {lastTask + 1}
      /\ acked' = [acked EXCEPT ![lastTask + 1] = "nothing"]
  BY DEF T!NewTask
<1>5. QED
  BY <1>1, <1>2, <1>3, <1>4 DEF T!dbvars, T!runvars, T!bounds, T!MayBegin

\* NewClient (client.go Add).
LEMMA NewClientDoes ==
    ASSUME TaskTypes, NEW x \in Web,
           T!NewClient(x)
    PROVE  /\ UNCHANGED <<tup, dbTasks, tunnel, lastTask, files, runList, servers, tangled,
                      acked>>
           /\ tup /\ work[x].pc = "idle" /\ work' = [work EXCEPT ![x] = OnClient]
           /\ lastClient' = lastClient + 1 /\ dbClients' = dbClients \cup {lastClient + 1}
<1>1. work' = [work EXCEPT ![x] = OnClient]
  BY BegunWork
<1>2. QED
  BY <1>1 DEF T!NewClient, T!dbvars, T!runvars, T!bounds, T!Console, T!MayBegin

\* DelClient (client.go Del).
LEMMA DelClientDoes ==
    ASSUME TaskTypes, NEW x \in Web, NEW c \in TaskIds,
           T!DelClient(x, c)
    PROVE  /\ UNCHANGED <<tup, dbTasks, tunnel, lastTask, lastClient, files, runList, servers>>
           /\ tup /\ work[x].pc = "idle" /\ work' = [work EXCEPT ![x] = OnDeleted(c)]
           /\ c \in dbClients /\ dbClients' = dbClients \ {c}
           /\ tangled \subseteq tangled'
           /\ \A t \in TaskIds : tunnel[t].client = c /\ T!Busy(t) => t \in tangled'
           /\ \A t \in TaskIds : acked'[t] = (IF tunnel[t].client = c /\ t \in dbTasks
                                            THEN "nothing" ELSE acked[t])
<1>1. work' = [work EXCEPT ![x] = OnDeleted(c)]
  BY BegunWork
<1>2. /\ T!Console(x) /\ c \in dbClients /\ dbClients' = dbClients \ {c}
      /\ UNCHANGED <<tup, dbTasks, tunnel, lastTask, lastClient, files, T!runvars>>
  BY DEF T!DelClient
<1>3. tangled' = tangled \cup {t \in T!Mine(c) : T!Busy(t)}
  BY DEF T!DelClient
<1>4. acked' = [t \in TaskIds |-> IF t \in T!Mine(c) \cap dbTasks THEN "nothing" ELSE acked[t]]
  BY DEF T!DelClient
<1>5. \A t \in TaskIds : t \in T!Mine(c) <=> tunnel[t].client = c
  BY DEF T!Mine
<1>6. \A t \in TaskIds : acked'[t] = (IF tunnel[t].client = c /\ t \in dbTasks
                                     THEN "nothing" ELSE acked[t])
  BY <1>4, <1>5
<1>7. tangled \subseteq tangled' /\ \A t \in TaskIds : tunnel[t].client = c /\ T!Busy(t) => t \in tangled'
  BY <1>3, <1>5
<1>8. QED
  BY <1>1, <1>2, <1>6, <1>7 DEF T!dbvars, T!runvars, T!bounds, T!Console, T!MayBegin

\* CloseClient (server.go DealBridgeTask): a client that goes, with the tasks it brought.
LEMMA CloseClientDoes ==
    ASSUME TaskTypes, NEW c \in TaskIds,
           T!CloseClient(c)
    PROVE  /\ UNCHANGED <<tup, dbClients, dbTasks, tunnel, lastTask, lastClient, files, runList,
                      servers, acked>>
           /\ tup /\ work[T!Bridge].pc = "idle" /\ work' = [work EXCEPT ![T!Bridge] = OnClosed(c)]
           /\ tangled \subseteq tangled'
           /\ \A t \in TaskIds : tunnel[t].client = c /\ tunnel[t].noStore /\ T!Busy(t) => t \in tangled'
<1>1. work' = [work EXCEPT ![T!Bridge] = OnClosed(c)]
  BY BegunWork
<1>2. tangled' = tangled \cup {t \in T!Mine(c) : tunnel[t].noStore /\ T!Busy(t)}
  BY DEF T!CloseClient
<1>3. \A t \in TaskIds : t \in T!Mine(c) <=> tunnel[t].client = c
  BY DEF T!Mine
<1>4. T!MayBegin(T!Bridge) /\ UNCHANGED <<tup, T!dbvars, files, T!runvars, acked>>
  BY DEF T!CloseClient
<1>5. QED
  BY <1>1, <1>2, <1>3, <1>4 DEF T!dbvars, T!runvars, T!bounds, T!MayBegin

\* The end of the process.
LEMMA DownDoes ==
    ASSUME TaskTypes, T!Down
    PROVE  /\ ~tup' /\ \A t \in TaskIds : runList'[t] = T!None
           /\ Len(servers') = Len(servers)
           /\ \A s \in 1 .. Len(servers') : servers'[s].state = "closed" /\ servers'[s].task = servers[s].task
           /\ \A x \in T!Handlers : work'[x] = T!Idle
           /\ UNCHANGED <<dbClients, dbTasks, tunnel, lastTask, lastClient, files, tangled, acked>>
<1>1. /\ tup' = FALSE /\ runList' = [t \in TaskIds |-> T!None]
      /\ servers' = [s \in 1 .. Len(servers) |-> [servers[s] EXCEPT !.state = "closed"]]
      /\ work' = [x \in T!Handlers |-> T!Idle]
      /\ UNCHANGED <<dbClients, dbTasks, tunnel, lastTask, lastClient, files, tangled, acked>>
  BY DEF T!Down, T!dbvars
<1>2. Len(servers) \in Nat /\ \A s \in 1 .. Len(servers) : servers[s] \in Server
  BY ElementOfSeq, LenProperties DEF TaskTypes
<1>3. Len(servers') = Len(servers)
  BY <1>1, <1>2
<1>4. \A s \in 1 .. Len(servers) : servers'[s].state = "closed" /\ servers'[s].task = servers[s].task
  BY <1>1, <1>2 DEF Server
<1>5. QED
  BY <1>1, <1>3, <1>4

\* The start of the process, from its files.
LEMMA RestartDoes ==
    ASSUME TaskTypes, T!Restart
    PROVE  /\ ~tup /\ tup' /\ UNCHANGED <<files, runList, servers, tangled, acked>>
           /\ work' = [work EXCEPT ![T!Main] = OnBoot(T!ToBoot)] /\ T!ToBoot \in SUBSET TaskIds
           /\ dbClients' = files.clients
           /\ \A c \in dbClients' : c <= lastClient'
           /\ lastTask' \in Nat /\ \A t \in dbTasks' : t <= lastTask'
           /\ \A r \in files.tasks : r.client \in dbClients' =>
                 /\ r.id \in dbTasks' /\ tunnel'[r.id].status = r.status
                 /\ tunnel'[r.id].client = r.client /\ ~tunnel'[r.id].noStore
                 /\ r.status => r.id \in T!ToBoot
           /\ \A t \in dbTasks' : \E r \in files.tasks : r.id = t /\ r.client \in dbClients'
           /\ \A t \in T!ToBoot : \E r \in files.tasks : r.id = t /\ r.client \in dbClients' /\ r.status
<1>1. /\ ~tup /\ tup' = TRUE /\ UNCHANGED <<files, T!runvars, tangled, acked>>
      /\ dbClients' = files.clients /\ lastClient' = T!Largest(files.clients)
      /\ dbTasks' = {r.id : r \in T!Loaded} /\ lastTask' = T!Largest({r.id : r \in T!Loaded})
  BY DEF T!Restart
<1>2. \A r : r \in T!Loaded <=> r \in files.tasks /\ r.client \in files.clients
  BY DEF T!Loaded
<1>3. \A r \in T!Loaded : r \in Record /\ r.id \in TaskIds
  BY <1>2 DEF TaskTypes, Record
<1>4. T!ToBoot \in SUBSET TaskIds /\ {r.id : r \in T!Loaded} \subseteq TaskIds
  BY <1>3 DEF T!ToBoot
<1>5. work' = [work EXCEPT ![T!Main] = OnBoot(T!ToBoot)]
  BY BegunWork
<1>6. /\ \A c \in dbClients' : c <= lastClient'
      /\ lastTask' \in Nat /\ \A t \in dbTasks' : t <= lastTask'
  <2>1. files.clients \subseteq TaskIds
    BY DEF TaskTypes
  <2>2. QED
    BY <1>1, <1>4, <2>1, LargestFacts
<1>7. ASSUME NEW r \in files.tasks, r.client \in dbClients'
      PROVE  /\ r.id \in dbTasks' /\ tunnel'[r.id].status = r.status
             /\ tunnel'[r.id].client = r.client /\ ~tunnel'[r.id].noStore
             /\ r.status => r.id \in T!ToBoot
  <2>1. r \in T!Loaded
    BY <1>1, <1>2, <1>7
  <2>2. (CHOOSE q \in T!Loaded : q.id = r.id) = r
    <3>1. PICK q : q = CHOOSE k \in T!Loaded : k.id = r.id
      OBVIOUS
    <3>2. q \in T!Loaded /\ q.id = r.id
      BY <2>1, <3>1
    <3>3. q = r
      BY <1>2, <2>1, <3>2 DEF TaskTypes
    <3>4. QED
      BY <3>1, <3>3
  <2>3. PICK t \in TaskIds : t = r.id
    BY <1>3, <2>1
  <2>4. \E q \in T!Loaded : q.id = t
    BY <2>1, <2>3
  <2>5. PICK q : q = CHOOSE k \in T!Loaded : k.id = t
    OBVIOUS
  <2>6. tunnel'[t] = [status |-> q.status, port |-> q.port, mode |-> q.mode,
                      client |-> q.client, noStore |-> FALSE]
    BY <2>4, <2>5 DEF T!Restart
  <2>7. q = r
    BY <2>2, <2>3, <2>5
  <2>8. /\ tunnel'[t].status = r.status /\ tunnel'[t].client = r.client /\ ~tunnel'[t].noStore
    BY <2>6, <2>7
  <2>9. r.status => r.id \in T!ToBoot
    BY <2>1 DEF T!ToBoot
  <2>10. QED
    BY <1>1, <2>1, <2>3, <2>8, <2>9
<1>8. \A t \in dbTasks' : \E r \in files.tasks : r.id = t /\ r.client \in dbClients'
  BY <1>1, <1>2
<1>9. \A t \in T!ToBoot : \E r \in files.tasks : r.id = t /\ r.client \in dbClients' /\ r.status
  BY <1>1, <1>2 DEF T!ToBoot
<1>10. QED
  BY <1>1, <1>4, <1>5, <1>6, <1>7, <1>8, <1>9 DEF T!runvars


-----------------------------------------------------------------------------
(* The ids, the entries and the pauses of requests.                        *)

\* A request after its step, before which it was v.
GoesOn(v, w) ==
    /\ w \in Job
    /\ w.pc = "idle" => w = T!Idle
    /\ w.pc # "idle" => /\ w.op = v.op /\ w.client = v.client /\ PauseAt(w)
                        /\ w.task = 0 \/ w.task = v.task \/ w.task \in v.todo
                        /\ \A t \in w.todo :
                              \/ t \in v.todo
                              \/ t \in dbTasks /\ v.op \in {"delClient", "closeClient"}
    /\ w.pc # "create"
    /\ w.pc = "unlist" => v.pc = "save" /\ v.then = "unlist" /\ w.task = v.task
    /\ w.pc = "close" => /\ w.task = v.task /\ w.svr = runList[v.task] /\ w.svr # T!None
    /\ w.pc = "list" => w.task = v.task /\ tunnel[v.task].mode # "secret"

\* A request that Goto sends on, or ends, goes on from where it was.
LEMMA GoneGoesOn ==
    ASSUME NEW v \in Job, NEW goal
    PROVE  /\ goal \in {"done", "failed"} => GoesOn(v, Gone(v, goal))
           /\ goal \in Pcs \ {"idle", "close", "list", "save", "saveClients", "next", "range", "try",
                        "create", "unlist"}
              /\ v.task # 0 => GoesOn(v, Gone(v, goal))
<1>1. CASE goal \in {"done", "failed"}
  <2>1. PICK w : w = Gone(v, goal)
    OBVIOUS
  <2>2. /\ w \in Job /\ w.task = 0
        /\ \/ w.pc = "idle" /\ w = T!Idle
           \/ /\ w.pc = "next" /\ w.op = v.op /\ w.client = v.client /\ w.todo = v.todo
              /\ v.op \in {"delClient", "closeClient", "boot"}
    BY <1>1, <2>1, GoneFacts
  <2>3. GoesOn(v, w)
    BY <2>2 DEF GoesOn, PauseAt
  <2>4. QED
    BY <1>1, <2>1, <2>3 DEF Pcs
<1>2. CASE goal \in Pcs \ {"idle", "close", "list", "save", "saveClients", "next", "range", "try",
                        "create", "unlist"} /\ v.task # 0
  <2>1. PICK w : w = Gone(v, goal)
    OBVIOUS
  <2>2. /\ w \in Job /\ w.pc = goal /\ w.op = v.op /\ w.task = v.task /\ w.client = v.client
        /\ w.todo = v.todo
    BY <1>2, <2>1, GoneFacts DEF Pcs
  <2>3. GoesOn(v, w)
    BY <1>2, <2>2 DEF GoesOn, PauseAt, Pcs
  <2>4. QED
    BY <1>2, <2>1, <2>3 DEF Pcs
<1>3. QED
  BY <1>1, <1>2


\* Every step of a request lets it go on from where it was, and others as they were.
LEMMA StepGoesOn ==
    ASSUME TaskTypes, EntryInv, PauseInv, NEW x \in T!Handlers, T!Step(x)
    PROVE  /\ work[x].pc # "idle" /\ GoesOn(work[x], work'[x])
           /\ \A y \in T!Handlers : y # x =>
                 \/ work'[y] = work[y]
                 \/ /\ y = T!Bridge /\ work[y].pc = "idle" /\ work[x].task \in TaskIds
                    /\ work[x].op = "config"
                    /\ work'[y] = OnOpen(work[x].task) \/ work'[y] = OnStart(work[x].task)
<1>1. work \in [T!Handlers -> Job] /\ work[x] \in Job
  BY DEF TaskTypes
<1>2. PICK v : v = work[x]
  OBVIOUS
<1>3. v \in Job /\ (v.pc # "idle" => PauseAt(v))
  BY <1>1, <1>2 DEF PauseInv
<1>4. v.pc \notin {"idle", "next", "saveClients", "range"} => v.task \in TaskIds /\ v.task # 0
  BY <1>2, HasTask, IdFacts
<1>5. ASSUME NEW w \in Job, work' = [work EXCEPT ![x] = w], GoesOn(v, w), v.pc # "idle"
      PROVE  /\ work[x].pc # "idle" /\ GoesOn(work[x], work'[x])
             /\ \A y \in T!Handlers : y # x => work'[y] = work[y]
  BY <1>1, <1>2, <1>5
<1>6. ASSUME NEW goal, Fate(x, goal), GoesOn(v, Gone(v, goal)), v.pc # "idle"
      PROVE  /\ work[x].pc # "idle" /\ GoesOn(work[x], work'[x])
             /\ \A y \in T!Handlers : y # x => work'[y] = work[y]
  <2>1. work' = [work EXCEPT ![x] = Gone(v, goal)]
    BY <1>2, <1>6 DEF Fate
  <2>2. Gone(v, goal) \in Job
    BY <1>6 DEF GoesOn
  <2>3. QED
    BY <1>5, <1>6, <2>1, <2>2
<1>7. CASE T!Save(x)
  <2>1. v.pc = "save" /\ Fate(x, v.then)
    BY <1>2, <1>7, SaveDoes
  <2>2. v.then \in {"done", "add", "try", "load", "unlist"}
    BY <1>3, <1>4, <2>1 DEF PauseAt, Job
  <2>3. GoesOn(v, Gone(v, v.then))
    <3>1. CASE v.then = "try"
      <4>1. PICK w : w = Gone(v, "try")
        OBVIOUS
      <4>2. /\ w \in Job /\ w.pc = "try" /\ w.op = v.op /\ w.task = v.task
            /\ w.client = v.client /\ w.todo = v.todo
        BY <1>3, <4>1, GoneFacts
      <4>3. v.op = "config"
        BY <1>3, <2>1, <3>1 DEF PauseAt
      <4>4. GoesOn(v, w)
        BY <1>4, <2>1, <4>2, <4>3 DEF GoesOn, PauseAt
      <4>5. QED
        BY <3>1, <4>1, <4>4
    <3>2. CASE v.then = "unlist"
      <4>1. PICK w : w = Gone(v, "unlist")
        OBVIOUS
      <4>2. /\ w \in Job /\ w.pc = "unlist" /\ w.op = v.op /\ w.task = v.task
            /\ w.client = v.client /\ w.todo = v.todo
        BY <1>3, <4>1, GoneFacts
      <4>3. GoesOn(v, w)
        BY <1>4, <2>1, <3>2, <4>2 DEF GoesOn, PauseAt
      <4>4. QED
        BY <3>2, <4>1, <4>3
    <3>3. CASE v.then \notin {"try", "unlist"}
      BY <1>3, <1>4, <2>1, <2>2, <3>3, GoneGoesOn DEF Pcs
    <3>4. QED
      BY <3>1, <3>2, <3>3
  <2>4. QED
    BY <1>6, <2>1, <2>3
<1>8. CASE T!SaveClients(x)
  <2>1. v.pc = "saveClients" /\ Fate(x, v.then)
    BY <1>2, <1>8, SaveClientsDoes
  <2>2. v.task = 0 /\ (v.then = "done" \/ (v.then = "range" /\ v.op = "delClient"))
    BY <1>3, <2>1 DEF PauseAt
  <2>3. GoesOn(v, Gone(v, v.then))
    <3>1. CASE v.then = "done"
      BY <1>3, <3>1, GoneGoesOn
    <3>2. CASE v.then = "range" /\ v.op = "delClient"
      <4>1. PICK w : w = Gone(v, "range")
        OBVIOUS
      <4>2. /\ w \in Job /\ w.pc = "range" /\ w.op = v.op /\ w.task = v.task
            /\ w.client = v.client /\ w.todo = v.todo
        BY <1>3, <4>1, GoneFacts
      <4>3. GoesOn(v, w)
        BY <2>2, <3>2, <4>2 DEF GoesOn, PauseAt
      <4>4. QED
        BY <3>2, <4>1, <4>3
    <3>3. QED
      BY <2>2, <3>1, <3>2
  <2>4. QED
    BY <1>6, <2>1, <2>3
<1>9. CASE T!AddTask(x)
  <2>1. v.pc = "add"
    BY <1>2, <1>9, AddTaskDoes
  <2>2. ASSUME NEW goal \in {"status", "done", "failed"}, Fate(x, goal) PROVE GoesOn(v, Gone(v, goal))
    BY <1>3, <1>4, <2>1, <2>2, GoneGoesOn DEF Pcs
  <2>3. CASE tunnel[v.task].mode # "secret" /\ Fate(x, "list")
    <3>1. PICK w : w = Gone(v, "list")
      OBVIOUS
    <3>2. /\ w \in Job /\ w.pc = "list" /\ w.op = v.op /\ w.task = v.task
          /\ w.client = v.client /\ w.todo = v.todo
      BY <1>3, <3>1, GoneFacts
    <3>3. GoesOn(v, w)
      BY <1>4, <2>1, <2>3, <3>2 DEF GoesOn, PauseAt
    <3>4. QED
      BY <1>6, <2>1, <2>3, <3>1, <3>3
  <2>4. \/ tunnel[v.task].mode # "secret" /\ Fate(x, "list")
        \/ \E goal \in {"status", "done", "failed"} : Fate(x, goal)
    BY <1>2, <1>9, AddTaskDoes
  <2>5. QED
    BY <1>6, <2>1, <2>2, <2>3, <2>4
<1>10. CASE T!ListServer(x)
  <2>1. v.pc = "list" /\ \E goal \in {"status", "done"} : Fate(x, goal)
    BY <1>2, <1>10, ListServerDoes
  <2>2. \A goal \in {"status", "done"} : GoesOn(v, Gone(v, goal))
    BY <1>3, <1>4, <2>1, GoneGoesOn DEF Pcs
  <2>3. QED
    BY <1>6, <2>1, <2>2
<1>11. CASE T!FindToStart(x)
  <2>1. v.pc = "find" /\ \E goal \in {"add", "failed"} : Fate(x, goal)
    BY <1>2, <1>11, FindToStartDoes
  <2>2. \A goal \in {"add", "failed"} : GoesOn(v, Gone(v, goal))
    BY <1>3, <1>4, <2>1, GoneGoesOn DEF Pcs
  <2>3. QED
    BY <1>6, <2>1, <2>2
<1>12. CASE T!Started(x)
  <2>1. v.pc = "status"
    BY <1>2, <1>12, StartedDoes
  <2>2. PICK then \in {"done"} :
           work' = [work EXCEPT ![x] = Saves(v, then)] /\ (then = "try" => v.op = "config")
    BY <1>2, <1>12, StartedDoes
  <2>3. PICK w : w = Saves(v, then)
    OBVIOUS
  <2>4. /\ w \in Job /\ w.pc = "save" /\ w.then = then /\ w.op = v.op /\ w.task = v.task
        /\ w.client = v.client /\ w.todo = v.todo
    BY <1>3, <2>3, SavesFacts
  <2>5. GoesOn(v, w)
    BY <1>4, <2>1, <2>2, <2>4 DEF GoesOn, PauseAt
  <2>6. work' = [work EXCEPT ![x] = w]
    BY <2>2, <2>3
  <2>7. QED
    BY <1>5, <2>1, <2>4, <2>5, <2>6
<1>13. CASE T!StopLoad(x)
  <2>1. v.pc = "load"
    BY <1>2, <1>13, StopLoadDoes
  <2>2. CASE runList[v.task] # T!None /\ work' = [work EXCEPT ![x] = Closes(v, runList[v.task])]
    <3>1. PICK w : w = Closes(v, runList[v.task])
      OBVIOUS
    <3>2. /\ w \in Job /\ w.pc = "close" /\ w.svr = runList[v.task] /\ w.op = v.op /\ w.task = v.task
          /\ w.client = v.client /\ w.todo = v.todo
      <4>1. runList[v.task] \in T!Entry
        BY <1>4, <2>1 DEF TaskTypes
      <4>2. QED
        BY <1>3, <3>1, <4>1, ClosesFacts
    <3>3. GoesOn(v, w)
      BY <1>4, <2>1, <2>2, <3>2 DEF GoesOn, PauseAt
    <3>4. QED
      BY <1>5, <2>1, <2>2, <3>1, <3>2, <3>3
  <2>3. CASE \E goal \in {"find", "failed"} : Fate(x, goal)
    <3>1. \A goal \in {"find", "failed"} : GoesOn(v, Gone(v, goal))
      BY <1>3, <1>4, <2>1, GoneGoesOn DEF Pcs
    <3>2. QED
      BY <1>6, <2>1, <2>3, <3>1
  <2>4. QED
    BY <1>2, <1>13, <2>2, <2>3, StopLoadDoes
<1>14. CASE T!StopClose(x)
  <2>1. v.pc = "close" /\ \E goal \in {"look", "find", "failed"} : Fate(x, goal)
    BY <1>2, <1>14, StopCloseDoes
  <2>2. \A goal \in {"look", "find", "failed"} : GoesOn(v, Gone(v, goal))
    BY <1>3, <1>4, <2>1, GoneGoesOn DEF Pcs
  <2>3. QED
    BY <1>6, <2>1, <2>2
<1>15. CASE T!StopPanics(x)
  <2>1. v.pc = "close" /\ work' = [work EXCEPT ![x] = T!Idle]
    BY <1>2, <1>15, StopPanicsDoes
  <2>2. QED
    BY <1>5, <2>1, IdleFacts DEF GoesOn
<1>16. CASE T!StopLook(x)
  <2>1. v.pc = "look" /\ \E goal \in {"unset", "find", "failed"} : Fate(x, goal)
    BY <1>2, <1>16, StopLookDoes
  <2>2. \A goal \in {"unset", "find", "failed"} : GoesOn(v, Gone(v, goal))
    BY <1>3, <1>4, <2>1, GoneGoesOn DEF Pcs
  <2>3. QED
    BY <1>6, <2>1, <2>2
<1>17. CASE T!Stopped(x)
  <2>1. v.pc = "unset"
    BY <1>2, <1>17, StoppedDoes
  <2>2. PICK then \in {"unlist"} :
           work' = [work EXCEPT ![x] = Saves(v, then)] /\ (then = "try" => v.op = "config")
    BY <1>2, <1>17, StoppedDoes
  <2>3. PICK w : w = Saves(v, then)
    OBVIOUS
  <2>4. /\ w \in Job /\ w.pc = "save" /\ w.then = then /\ w.op = v.op /\ w.task = v.task
        /\ w.client = v.client /\ w.todo = v.todo
    BY <1>3, <2>3, SavesFacts
  <2>5. GoesOn(v, w)
    BY <1>4, <2>1, <2>2, <2>4 DEF GoesOn, PauseAt
  <2>6. work' = [work EXCEPT ![x] = w]
    BY <2>2, <2>3
  <2>7. QED
    BY <1>5, <2>1, <2>4, <2>5, <2>6
<1>18. CASE T!Unlist(x)
  <2>1. v.pc = "unlist" /\ \E goal \in {"done", "find", "remove"} : Fate(x, goal)
    BY <1>2, <1>18, UnlistDoes
  <2>2. \A goal \in {"done", "find", "remove"} : GoesOn(v, Gone(v, goal))
    BY <1>3, <1>4, <2>1, GoneGoesOn DEF Pcs
  <2>3. QED
    BY <1>6, <2>1, <2>2
<1>19. CASE T!DelLoad(x)
  <2>1. v.pc = "listed" /\ \E goal \in {"load", "remove"} : Fate(x, goal)
    BY <1>2, <1>19, DelLoadDoes
  <2>2. \A goal \in {"load", "remove"} : GoesOn(v, Gone(v, goal))
    BY <1>3, <1>4, <2>1, GoneGoesOn DEF Pcs
  <2>3. QED
    BY <1>6, <2>1, <2>2
<1>20. CASE T!Remove(x)
  <2>1. v.pc = "remove"
    BY <1>2, <1>20, RemoveDoes
  <2>2. PICK then \in {"done"} :
           work' = [work EXCEPT ![x] = Saves(v, then)] /\ (then = "try" => v.op = "config")
    BY <1>2, <1>20, RemoveDoes
  <2>3. PICK w : w = Saves(v, then)
    OBVIOUS
  <2>4. /\ w \in Job /\ w.pc = "save" /\ w.then = then /\ w.op = v.op /\ w.task = v.task
        /\ w.client = v.client /\ w.todo = v.todo
    BY <1>3, <2>3, SavesFacts
  <2>5. GoesOn(v, w)
    BY <1>4, <2>1, <2>2, <2>4 DEF GoesOn, PauseAt
  <2>6. work' = [work EXCEPT ![x] = w]
    BY <2>2, <2>3
  <2>7. QED
    BY <1>5, <2>1, <2>4, <2>5, <2>6
<1>21. CASE T!Create(x)
  <2>1. v.pc = "create"
    BY <1>2, <1>21, CreateDoes
  <2>2. PICK then \in {"try", "add"} :
           work' = [work EXCEPT ![x] = Saves(v, then)] /\ (then = "try" => v.op = "config")
    BY <1>2, <1>21, CreateDoes
  <2>3. PICK w : w = Saves(v, then)
    OBVIOUS
  <2>4. /\ w \in Job /\ w.pc = "save" /\ w.then = then /\ w.op = v.op /\ w.task = v.task
        /\ w.client = v.client /\ w.todo = v.todo
    BY <1>3, <2>3, SavesFacts
  <2>5. GoesOn(v, w)
    BY <1>4, <2>1, <2>2, <2>4 DEF GoesOn, PauseAt
  <2>6. work' = [work EXCEPT ![x] = w]
    BY <2>2, <2>3
  <2>7. QED
    BY <1>5, <2>1, <2>4, <2>5, <2>6
<1>22. CASE T!TryPort(x)
  <2>1. v.pc = "try" /\ v.op = "config" /\ v.task \in TaskIds
    <3>1. v.pc = "try"
      BY <1>2, <1>22, TryPortDoes
    <3>2. QED
      BY <1>3, <1>4, <3>1 DEF PauseAt
  <2>2. T!Bridge \in T!Handlers
    BY IdFacts
  <2>3. GoesOn(v, T!Idle)
    BY IdleFacts DEF GoesOn
  <2>4. CASE work' = [work EXCEPT ![x] = T!Idle]
    BY <1>5, <2>1, <2>3, <2>4, IdleFacts
  <2>5. ASSUME NEW w \in {OnOpen(v.task), OnStart(v.task)}, work[T!Bridge].pc = "idle",
               work' = [work EXCEPT ![x] = T!Idle, ![T!Bridge] = w]
        PROVE  /\ work[x].pc # "idle" /\ GoesOn(work[x], work'[x])
               /\ \A y \in T!Handlers : y # x =>
                     \/ work'[y] = work[y]
                     \/ /\ y = T!Bridge /\ work[y].pc = "idle" /\ work[x].task \in TaskIds
                        /\ work[x].op = "config"
                        /\ work'[y] = OnOpen(work[x].task) \/ work'[y] = OnStart(work[x].task)
    <3>1. x # T!Bridge
      BY <1>2, <2>1, <2>5
    <3>2. /\ work'[x] = T!Idle /\ work'[T!Bridge] = w
          /\ \A y \in T!Handlers : y \notin {x, T!Bridge} => work'[y] = work[y]
      BY <1>1, <2>2, <2>5, <3>1
    <3>3. QED
      BY <1>2, <2>1, <2>3, <2>5, <3>2
  <2>6. QED
    BY <1>2, <1>22, <2>4, <2>5, TryPortDoes
<1>23. CASE T!Range(x)
  <2>1. v.pc = "range" /\ OfClient(v) \in SUBSET TaskIds
        /\ work' = [work EXCEPT ![x] = Ranges(v, OfClient(v))]
    BY <1>2, <1>23, RangeDoes
  <2>2. PICK w : w = Ranges(v, OfClient(v))
    OBVIOUS
  <2>3. /\ w \in Job /\ w.pc = "next" /\ w.todo = OfClient(v) /\ w.op = v.op /\ w.task = v.task
        /\ w.client = v.client
    BY <1>3, <2>1, <2>2, RangesFacts
  <2>4. v.task = 0 /\ v.op \in {"delClient", "closeClient"}
    BY <1>3, <2>1 DEF PauseAt
  <2>5. \A t \in OfClient(v) : t \in dbTasks
    BY DEF OfClient
  <2>6. GoesOn(v, w)
    BY <2>3, <2>4, <2>5 DEF GoesOn, PauseAt
  <2>7. QED
    BY <1>5, <2>1, <2>2, <2>3, <2>6
<1>24. CASE T!NextTask(x)
  <2>1. v.pc = "next"
    BY <1>2, <1>24, NextTaskDoes
  <2>2. CASE work' = [work EXCEPT ![x] = T!Idle]
    BY <1>5, <2>1, <2>2, IdleFacts DEF GoesOn
  <2>3. ASSUME NEW t \in v.todo, t \in TaskIds, work' = [work EXCEPT ![x] = T!TakesUp(v, t)]
        PROVE  /\ work[x].pc # "idle" /\ GoesOn(work[x], work'[x])
               /\ \A y \in T!Handlers : y # x => work'[y] = work[y]
    <3>1. PICK w : w = T!TakesUp(v, t)
      OBVIOUS
    <3>2. /\ w \in Job /\ w.task = t /\ w.todo = v.todo \ {t} /\ w.op = v.op /\ w.client = v.client
          /\ w.pc \in {"add", "listed"}
      BY <1>3, <2>3, <3>1, TakenUp
    <3>3. GoesOn(v, w)
      BY <2>3, <3>2, IdFacts DEF GoesOn, PauseAt
    <3>4. QED
      BY <1>5, <2>1, <2>3, <3>1, <3>2, <3>3
  <2>4. QED
    BY <1>2, <1>24, <2>2, <2>3, NextTaskDoes
<1>25. QED
  BY <1>7, <1>8, <1>9, <1>10, <1>11, <1>12, <1>13, <1>14, <1>15, <1>16, <1>17, <1>18, <1>19,
     <1>20, <1>21, <1>22, <1>23, <1>24 DEF T!Step

\* What a step of a request changes in the database, RunList and the servers.
LEMMA StepFrame ==
    ASSUME TaskTypes, EntryInv, PauseInv, NEW x \in T!Handlers, T!Step(x)
    PROVE  /\ tup /\ UNCHANGED <<tup, dbClients, lastTask, lastClient>> /\ tangled \subseteq tangled'
           /\ \A t \in dbTasks' : t \in dbTasks \/ t = work[x].task
           /\ \A t \in TaskIds : /\ tunnel'[t].mode = tunnel[t].mode
                                 /\ tunnel'[t].client = tunnel[t].client
                                 /\ tunnel'[t].noStore = tunnel[t].noStore
                                 /\ tunnel'[t].port = tunnel[t].port
           /\ \A t \in TaskIds : runList'[t] # runList[t] => t = work[x].task
           /\ \/ /\ Len(servers') = Len(servers)
                 /\ \A s \in 1 .. Len(servers') :
                       /\ servers'[s].task = servers[s].task
                       /\ servers'[s].state \in {"new", "open"} => servers'[s] = servers[s]
                 /\ \A t \in TaskIds : runList'[t] = runList[t] \/ runList'[t] <= 0
              \/ /\ work[x].pc = "list" /\ work[x].task \in TaskIds
                 /\ Len(servers') = Len(servers) + 1
                 /\ \A s \in 1 .. Len(servers) : servers'[s] = servers[s]
                 /\ servers'[Len(servers) + 1].task = work[x].task
                 /\ \A t \in TaskIds : runList'[t] = runList[t] \/ runList'[t] = Len(servers) + 1
<1> DEFINE datasame ==
             /\ tup /\ UNCHANGED <<tup, dbClients, lastTask, lastClient>> /\ tangled \subseteq tangled'
             /\ \A t \in dbTasks' : t \in dbTasks \/ t = work[x].task
             /\ \A t \in TaskIds : /\ tunnel'[t].mode = tunnel[t].mode
                                   /\ tunnel'[t].client = tunnel[t].client
                                   /\ tunnel'[t].noStore = tunnel[t].noStore
                                   /\ tunnel'[t].port = tunnel[t].port
             /\ \A t \in TaskIds : runList'[t] # runList[t] => t = work[x].task
           same ==
             /\ Len(servers') = Len(servers)
             /\ \A s \in 1 .. Len(servers') :
                   /\ servers'[s].task = servers[s].task
                   /\ servers'[s].state \in {"new", "open"} => servers'[s] = servers[s]
             /\ \A t \in TaskIds : runList'[t] = runList[t] \/ runList'[t] <= 0
<1>1. /\ tunnel \in [TaskIds -> Tunnel] /\ runList \in [TaskIds -> T!Entry]
      /\ servers \in Seq(Server) /\ Len(servers) \in Nat
  BY LenProperties DEF TaskTypes
<1>2. work[x].pc \notin {"idle", "next", "saveClients", "range"} => work[x].task \in TaskIds
  BY HasTask
<1>3. ASSUME tup, UNCHANGED <<tup, dbClients, dbTasks, tunnel, lastTask, lastClient, runList, servers>>,
             tangled \subseteq tangled'
      PROVE  datasame /\ same
  BY <1>3
<1>4. CASE T!Save(x)
  BY <1>3, <1>4, SaveDoes
<1>5. CASE T!SaveClients(x)
  BY <1>3, <1>5, SaveClientsDoes
<1>6. CASE T!FindToStart(x)
  BY <1>3, <1>6, FindToStartDoes
<1>7. CASE T!StopLoad(x)
  BY <1>3, <1>7, StopLoadDoes
<1>8. CASE T!StopPanics(x)
  BY <1>3, <1>8, StopPanicsDoes
<1>9. CASE T!StopLook(x)
  BY <1>3, <1>9, StopLookDoes
<1>10. CASE T!DelLoad(x)
  BY <1>3, <1>10, DelLoadDoes
<1>11. CASE T!TryPort(x)
  BY <1>3, <1>11, TryPortDoes
<1>12. CASE T!Range(x)
  BY <1>3, <1>12, RangeDoes
<1>13. CASE T!NextTask(x)
  BY <1>3, <1>13, NextTaskDoes
<1>14. CASE T!AddTask(x)
  <2>1. /\ tup /\ UNCHANGED <<tup, dbClients, dbTasks, tunnel, lastTask, lastClient, servers, tangled>>
        /\ runList' = runList \/ runList' = [runList EXCEPT ![work[x].task] = T!Secret]
    BY <1>14, AddTaskDoes
  <2>2. QED
    BY <1>1, <2>1, IdFacts
<1>15. CASE T!Unlist(x)
  <2>1. /\ tup /\ UNCHANGED <<tup, dbClients, dbTasks, tunnel, lastTask, lastClient, servers, tangled>>
        /\ runList' = [runList EXCEPT ![work[x].task] = T!None]
    BY <1>15, UnlistDoes
  <2>2. QED
    BY <1>1, <2>1, IdFacts
<1>16. CASE T!Started(x)
  <2>1. /\ tup /\ UNCHANGED <<tup, dbClients, lastTask, lastClient, runList, servers, tangled>>
        /\ dbTasks' = dbTasks \cup {work[x].task}
        /\ tunnel' = [tunnel EXCEPT ![work[x].task].status = TRUE]
    BY <1>16, StartedDoes
  <2>2. \A t \in TaskIds : tunnel'[t] = tunnel[t] \/ tunnel'[t] = [tunnel[t] EXCEPT !.status = TRUE]
    BY <1>1, <2>1
  <2>3. \A t \in TaskIds : tunnel[t] \in Tunnel
    BY <1>1
  <2>4. \A t \in TaskIds : /\ tunnel'[t].mode = tunnel[t].mode
                           /\ tunnel'[t].client = tunnel[t].client
                           /\ tunnel'[t].noStore = tunnel[t].noStore
                           /\ tunnel'[t].port = tunnel[t].port
    BY <2>2, <2>3 DEF Tunnel
  <2>5. QED
    BY <2>1, <2>4
<1>17. CASE T!Stopped(x)
  <2>1. /\ tup /\ UNCHANGED <<tup, dbClients, lastTask, lastClient, runList, servers, tangled>>
        /\ dbTasks' = dbTasks \cup {work[x].task}
        /\ tunnel' = [tunnel EXCEPT ![work[x].task].status = FALSE]
    BY <1>17, StoppedDoes
  <2>2. \A t \in TaskIds : tunnel'[t] = tunnel[t] \/ tunnel'[t] = [tunnel[t] EXCEPT !.status = FALSE]
    BY <1>1, <2>1
  <2>3. \A t \in TaskIds : tunnel[t] \in Tunnel
    BY <1>1
  <2>4. \A t \in TaskIds : /\ tunnel'[t].mode = tunnel[t].mode
                           /\ tunnel'[t].client = tunnel[t].client
                           /\ tunnel'[t].noStore = tunnel[t].noStore
                           /\ tunnel'[t].port = tunnel[t].port
    BY <2>2, <2>3 DEF Tunnel
  <2>5. QED
    BY <2>1, <2>4
<1>18. CASE T!Create(x)
  <2>1. /\ tup /\ UNCHANGED <<tup, dbClients, tunnel, lastTask, lastClient, runList, servers, tangled>>
        /\ dbTasks' = dbTasks \cup {work[x].task} \/ dbTasks' = dbTasks \ {work[x].task}
    BY <1>18, CreateDoes
  <2>2. QED
    BY <2>1
<1>19. CASE T!Remove(x)
  <2>1. /\ tup /\ UNCHANGED <<tup, dbClients, tunnel, lastTask, lastClient, runList, servers, tangled>>
        /\ dbTasks' = dbTasks \cup {work[x].task} \/ dbTasks' = dbTasks \ {work[x].task}
    BY <1>19, RemoveDoes
  <2>2. QED
    BY <2>1
<1>20. CASE T!StopClose(x)
  <2>1. /\ tup /\ UNCHANGED <<tup, dbClients, dbTasks, tunnel, lastTask, lastClient, runList, tangled>>
        /\ \/ servers' = servers
           \/ /\ work[x].svr \in 1 .. Len(servers) /\ servers[work[x].svr].task = work[x].task
              /\ servers' = [servers EXCEPT ![work[x].svr] =
                                [task |-> work[x].task, port |-> servers[work[x].svr].port,
                                 state |-> "closed"]]
    BY <1>20, StopCloseDoes
  <2>2. CASE servers' = servers
    BY <2>1, <2>2
  <2>3. CASE servers' # servers
    <3>1. PICK s \in 1 .. Len(servers) :
              /\ servers[s].task = work[x].task
              /\ servers' = [servers EXCEPT ![s] = [task |-> work[x].task, port |-> servers[s].port,
                                                    state |-> "closed"]]
      BY <2>1, <2>3
    <3>2. PICK made : made = [task |-> work[x].task, port |-> servers[s].port, state |-> "closed"]
      OBVIOUS
    <3>3. made.task = work[x].task /\ made.state = "closed"
      BY <3>2
    <3>4. /\ servers' = [servers EXCEPT ![s] = made]
          /\ servers[s] \in Server
      BY <1>1, <3>1, <3>2, ElementOfSeq
    <3>5. made \in Server
      BY <3>1, <3>2, <3>4 DEF Server
    <3>6. /\ Len(servers') = Len(servers) /\ servers'[s] = made
          /\ \A k \in 1 .. Len(servers) : k # s => servers'[k] = servers[k]
      BY <1>1, <3>4, <3>5, ExceptSeq
    <3>7. ASSUME NEW k \in 1 .. Len(servers')
          PROVE  /\ servers'[k].task = servers[k].task
                 /\ servers'[k].state \in {"new", "open"} => servers'[k] = servers[k]
      <4>1. CASE k = s
        BY <3>1, <3>3, <3>6, <4>1
      <4>2. CASE k # s
        BY <3>6, <3>7, <4>2
      <4>3. QED
        BY <4>1, <4>2
    <3>8. same
      BY <2>1, <3>6, <3>7
    <3>9. datasame
      BY <2>1
    <3>10. QED
      BY <3>8, <3>9
  <2>4. QED
    BY <2>2, <2>3
<1>21. CASE T!ListServer(x)
  <2>1. /\ tup /\ UNCHANGED <<tup, dbClients, dbTasks, tunnel, lastTask, lastClient, tangled>>
        /\ work[x].pc = "list"
        /\ servers' = Append(servers, [task |-> work[x].task, port |-> 0, state |-> "new"])
        /\ runList' = [runList EXCEPT ![work[x].task] = Len(servers) + 1]
    BY <1>21, ListServerDoes
  <2>2. PICK made : made = [task |-> work[x].task, port |-> 0, state |-> "new"]
    OBVIOUS
  <2>3. made.task = work[x].task /\ made \in Server
    BY <1>2, <2>1, <2>2 DEF Server, Port
  <2>4. /\ Len(servers') = Len(servers) + 1 /\ servers'[Len(servers) + 1] = made
        /\ \A s \in 1 .. Len(servers) : servers'[s] = servers[s]
    BY <1>1, <2>1, <2>2, <2>3, AppendProperties
  <2>5. QED
    BY <1>1, <1>2, <2>1, <2>3, <2>4
<1>22. QED
  BY <1>4, <1>5, <1>6, <1>7, <1>8, <1>9, <1>10, <1>11, <1>12, <1>13, <1>14, <1>15, <1>16,
     <1>17, <1>18, <1>19, <1>20, <1>21 DEF T!Step

\* The steps of requests give out no id.
LEMMA StepIds ==
    ASSUME TaskTypes, IdInv, EntryInv, PauseInv, NEW x \in T!Handlers, T!Step(x)
    PROVE  IdInv'
<1>1. /\ tup' /\ UNCHANGED <<dbClients, lastTask, lastClient>>
      /\ \A t \in dbTasks' : t \in dbTasks \/ t = work[x].task
      /\ \A t \in TaskIds : runList'[t] # runList[t] => t = work[x].task
  BY StepFrame
<1>2. /\ work[x].pc # "idle" /\ GoesOn(work[x], work'[x])
      /\ \A y \in T!Handlers : y # x =>
            \/ work'[y] = work[y]
            \/ /\ work[x].task \in TaskIds
               /\ work'[y] = OnOpen(work[x].task) \/ work'[y] = OnStart(work[x].task)
  BY StepGoesOn
<1>3. /\ work[x].task <= lastTask /\ \A t \in work[x].todo : t <= lastTask
      /\ work[x].op = "delClient" =>
            work[x].client <= lastClient /\ work[x].client \notin dbClients
  BY DEF IdInv
<1>4. \A c \in dbClients' : c <= lastClient'
  BY <1>1 DEF IdInv
<1>5. \A t \in dbTasks' : t <= lastTask'
  BY <1>1, <1>3 DEF IdInv
<1>6. \A t \in TaskIds : runList'[t] # T!None => t <= lastTask'
  BY <1>1, <1>3 DEF IdInv
<1>7. ASSUME NEW s \in 1 .. Len(servers'), servers'[s].state \in {"new", "open"}
      PROVE  servers'[s].task <= lastTask'
  <2>1. \/ s \in 1 .. Len(servers) /\ servers'[s] = servers[s]
        \/ servers'[s].task = work[x].task
    <3>1. Len(servers) \in Nat
      BY LenProperties DEF TaskTypes
    <3>2. QED
      BY <1>7, <3>1, StepFrame
  <2>2. QED
    BY <1>1, <1>3, <1>7, <2>1 DEF IdInv
<1>8. ASSUME NEW y \in T!Handlers
      PROVE  /\ work'[y].pc = "idle" => work'[y] = T!Idle
             /\ work'[y].task <= lastTask'
             /\ \A t \in work'[y].todo : t <= lastTask'
             /\ work'[y].op = "delClient" =>
                   work'[y].client <= lastClient' /\ work'[y].client \notin dbClients'
  <2>1. PICK w : w = work'[y]
    OBVIOUS
  <2>2. CASE w = T!Idle
    <3>1. lastTask \in Nat
      BY DEF TaskTypes
    <3>2. QED
      BY <1>1, <2>1, <2>2, <3>1, IdleFacts
  <2>3. CASE y = x /\ w.pc # "idle"
    <3>1. /\ w.op = work[x].op /\ w.client = work[x].client
          /\ w.task = 0 \/ w.task = work[x].task \/ w.task \in work[x].todo
          /\ \A t \in w.todo : t \in work[x].todo \/ t \in dbTasks
      BY <1>2, <2>1, <2>3 DEF GoesOn
    <3>2. lastTask \in Nat /\ \A t \in dbTasks : t <= lastTask
      BY DEF TaskTypes, IdInv
    <3>3. QED
      BY <1>1, <1>3, <2>1, <2>3, <3>1, <3>2
  <2>4. CASE y # x /\ work'[y] = work[y]
    BY <1>1, <2>4 DEF IdInv
  <2>5. CASE /\ work[x].task \in TaskIds
             /\ work'[y] = OnOpen(work[x].task) \/ work'[y] = OnStart(work[x].task)
    BY <1>1, <1>3, <2>5, OnOpenFacts
  <2>6. QED
    BY <1>2, <2>1, <2>2, <2>3, <2>4, <2>5 DEF GoesOn
<1>9. QED
  BY <1>1, <1>4, <1>5, <1>6, <1>7, <1>8 DEF IdInv

\* An entry leads to a server of its task after a step of a request.
LEMMA StepEntries ==
    ASSUME TaskTypes, TaskTypes', EntryInv, PauseInv, NEW x \in T!Handlers, T!Step(x)
    PROVE  EntryInv'
<1>1. /\ work[x].pc # "idle" /\ GoesOn(work[x], work'[x])
      /\ \A y \in T!Handlers : y # x =>
            \/ work'[y] = work[y]
            \/ /\ work[x].task \in TaskIds
               /\ work'[y] = OnOpen(work[x].task) \/ work'[y] = OnStart(work[x].task)
  BY StepGoesOn
<1>2. \A t \in TaskIds : tunnel'[t].mode = tunnel[t].mode
  BY StepFrame
<1>3. Len(servers) \in Nat /\ \A t \in TaskIds : runList[t] \in Int /\ runList'[t] \in Int
  BY LenProperties, IdFacts DEF TaskTypes
<1>4. /\ Len(servers') \in Nat /\ Len(servers') >= Len(servers)
      /\ \A s \in 1 .. Len(servers) : servers'[s].task = servers[s].task
  BY <1>3, StepFrame
<1>5. ASSUME NEW t \in TaskIds, runList'[t] > 0
      PROVE  runList'[t] <= Len(servers') /\ servers'[runList'[t]].task = t
  <2>1. CASE runList'[t] = runList[t]
    <3>1. runList[t] \in 1 .. Len(servers) /\ servers[runList[t]].task = t
      BY <1>3, <1>5, <2>1 DEF EntryInv
    <3>2. QED
      BY <1>4, <2>1, <3>1
  <2>2. CASE runList'[t] # runList[t]
    BY <1>3, <1>5, <2>2, StepFrame
  <2>3. QED
    BY <2>1, <2>2
<1>6. ASSUME NEW y \in T!Handlers, work'[y].pc = "close"
      PROVE  /\ work'[y].svr # T!None
             /\ work'[y].svr > 0 => /\ work'[y].svr <= Len(servers')
                                    /\ servers'[work'[y].svr].task = work'[y].task
  <2>1. PICK e : e = work'[y].svr
    OBVIOUS
  <2>2. e \in Int
    BY <2>1, IdFacts DEF TaskTypes, Job
  <2>3. e # T!None /\ (e > 0 => e <= Len(servers) /\ servers[e].task = work'[y].task)
    <3>1. CASE y = x
      <4>1. work'[y].task = work[x].task /\ e = runList[work[x].task] /\ e # T!None
        BY <1>1, <1>6, <2>1, <3>1 DEF GoesOn
      <4>2. work[x].task \in TaskIds
        BY <1>1, <1>6, <3>1, <4>1, IdFacts DEF GoesOn, PauseAt, TaskTypes, Job
      <4>3. QED
        BY <4>1, <4>2 DEF EntryInv
    <3>2. CASE y # x
      <4>1. work'[y] = work[y]
        BY <1>1, <1>6, <3>2, OnOpenFacts
      <4>2. QED
        BY <1>6, <2>1, <4>1 DEF EntryInv
    <3>3. QED
      BY <3>1, <3>2
  <2>4. e > 0 => servers'[e].task = servers[e].task
    BY <1>4, <2>2, <2>3
  <2>5. QED
    BY <1>3, <1>4, <2>1, <2>2, <2>3, <2>4
<1>7. ASSUME NEW s \in 1 .. Len(servers'), servers'[s].state \in {"new", "open"}
      PROVE  tunnel'[servers'[s].task].mode # "secret"
  <2>1. servers'[s].task \in TaskIds
    <3>1. servers'[s] \in Server
      BY ElementOfSeq DEF TaskTypes
    <3>2. QED
      BY <3>1 DEF Server
  <2>2. \/ s \in 1 .. Len(servers) /\ servers'[s] = servers[s]
        \/ work[x].pc = "list" /\ servers'[s].task = work[x].task
    BY <1>3, <1>7, StepFrame
  <2>3. tunnel[servers'[s].task].mode # "secret"
    BY <1>7, <2>2 DEF EntryInv
  <2>4. QED
    BY <1>2, <2>1, <2>3
<1>8. ASSUME NEW y \in T!Handlers, work'[y].pc = "list"
      PROVE  tunnel'[work'[y].task].mode # "secret"
  <2>1. tunnel[work'[y].task].mode # "secret"
    <3>1. CASE y = x
      BY <1>1, <1>8, <3>1 DEF GoesOn
    <3>2. CASE y # x
      <4>1. work'[y] = work[y]
        BY <1>1, <1>8, <3>2, OnOpenFacts
      <4>2. QED
        BY <1>8, <4>1 DEF EntryInv
    <3>3. QED
      BY <3>1, <3>2
  <2>2. work'[y].task \in TaskIds
    <3>1. CASE y = x
      BY <1>1, <1>8, <3>1, IdFacts DEF GoesOn, PauseAt, TaskTypes, Job
    <3>2. CASE y # x
      <4>1. work'[y] = work[y]
        BY <1>1, <1>8, <3>2, OnOpenFacts
      <4>2. QED
        BY <1>8, <4>1, HasTask
    <3>3. QED
      BY <3>1, <3>2
  <2>3. QED
    BY <1>2, <2>1, <2>2
<1>9. QED
  BY <1>5, <1>6, <1>7, <1>8 DEF EntryInv

\* A request is on a task, or pauses, after a step of it.
LEMMA StepPauses ==
    ASSUME TaskTypes, EntryInv, PauseInv, NEW x \in T!Handlers, T!Step(x)
    PROVE  PauseInv'
<1>1. /\ work[x].pc # "idle" /\ GoesOn(work[x], work'[x])
      /\ \A y \in T!Handlers : y # x =>
            \/ work'[y] = work[y]
            \/ /\ work[x].task \in TaskIds
               /\ work'[y] = OnOpen(work[x].task) \/ work'[y] = OnStart(work[x].task)
  BY StepGoesOn
<1>2. ASSUME NEW y \in T!Handlers, work'[y].pc # "idle" PROVE PauseAt(work'[y])
  <2>1. CASE y = x
    BY <1>1, <1>2, <2>1 DEF GoesOn
  <2>2. CASE work'[y] = work[y]
    BY <1>2, <2>2 DEF PauseInv
  <2>3. CASE /\ work[x].task \in TaskIds
             /\ work'[y] = OnOpen(work[x].task) \/ work'[y] = OnStart(work[x].task)
    BY <2>3, OnOpenFacts, IdFacts DEF PauseAt
  <2>4. QED
    BY <1>1, <2>1, <2>2, <2>3
<1>3. QED
  BY <1>2 DEF PauseInv

\* A request that begins, and is on a task or a client that is there.
Fresh(w) ==
    /\ w.pc \notin {"close", "list"} /\ (w.pc = "idle" => w = T!Idle)
    /\ w.pc # "idle" => PauseAt(w)
    /\ w.task <= lastTask' /\ \A t \in w.todo : t <= lastTask'
    /\ w.op = "delClient" => w.client <= lastClient' /\ w.client \notin dbClients'

\* A request that begins changes no entry, and is where requests begin.
LEMMA BeginKeeps ==
    ASSUME TaskTypes, TaskTypes', IdInv, EntryInv, PauseInv, tup',
           \A y \in T!Handlers : work'[y] = work[y] \/ Fresh(work'[y]),
           servers' = servers, runList' = runList,
           \A t \in TaskIds : t <= lastTask => tunnel'[t].mode = tunnel[t].mode,
           lastTask' >= lastTask, lastClient' >= lastClient,
           \A c \in dbClients' : c <= lastClient' /\ (c \in dbClients \/ c > lastClient),
           dbTasks' = dbTasks
    PROVE  IdInv' /\ EntryInv' /\ PauseInv'
<1>1. /\ lastTask \in Nat /\ lastClient \in Nat /\ lastTask' \in Nat /\ lastClient' \in Nat
      /\ dbTasks \subseteq Nat /\ dbClients \subseteq Nat /\ TaskIds \subseteq Nat
      /\ dbClients' \subseteq Nat
  BY IdFacts DEF TaskTypes
<1>2. \A s \in 1 .. Len(servers) : servers[s].task \in TaskIds
  <2>1. \A s \in 1 .. Len(servers) : servers[s] \in Server
    BY ElementOfSeq DEF TaskTypes
  <2>2. QED
    BY <2>1 DEF Server
<1>3. \A y \in T!Handlers : /\ work[y].task \in TaskIds \cup {0} /\ work[y].todo \subseteq TaskIds
                           /\ work[y].client \in Nat /\ work[y].task \in Nat
  <2>1. TaskIds \subseteq Nat
    BY IdFacts
  <2>2. \A y \in T!Handlers : work[y] \in Job
    BY DEF TaskTypes
  <2>3. \A y \in T!Handlers : /\ work[y].task \in TaskIds \cup {0} /\ work[y].todo \subseteq TaskIds
                             /\ work[y].client \in TaskIds \cup {0}
    BY <2>2 DEF Job
  <2>4. ASSUME NEW k \in TaskIds \cup {0} PROVE k \in Nat
    <3>1. CASE k \in TaskIds
      BY <2>1, <3>1
    <3>2. CASE k = 0
      BY <3>2
    <3>3. QED
      BY <3>1, <3>2
  <2>5. QED
    BY <2>3, <2>4
<1>4. ASSUME NEW y \in T!Handlers
      PROVE  /\ work'[y].pc = "idle" => work'[y] = T!Idle
             /\ work'[y].task <= lastTask'
             /\ \A t \in work'[y].todo : t <= lastTask'
             /\ work'[y].op = "delClient" =>
                   work'[y].client <= lastClient' /\ work'[y].client \notin dbClients'
  <2>1. CASE Fresh(work'[y])
    BY <2>1 DEF Fresh
  <2>2. CASE work'[y] = work[y]
    <3>1. /\ work[y].pc = "idle" => work[y] = T!Idle
          /\ work[y].task <= lastTask
          /\ \A t \in work[y].todo : t <= lastTask
          /\ work[y].op = "delClient" => work[y].client <= lastClient /\ work[y].client \notin dbClients
      BY DEF IdInv
    <3>2. \A t \in work[y].todo : t <= lastTask'
      <4>1. \A t \in work[y].todo : t \in Nat
        BY <1>1, <1>3
      <4>2. QED
        BY <1>1, <3>1, <4>1
    <3>3. work[y].task \in Nat
      BY <1>3
    <3>4. QED
      BY <1>1, <1>3, <2>2, <3>1, <3>2, <3>3
  <2>3. QED
    BY <2>1, <2>2
<1>5. IdInv'
  <2>1. \A t \in dbTasks' : t <= lastTask'
    BY <1>1 DEF IdInv
  <2>2. \A t \in TaskIds : runList'[t] # T!None => t <= lastTask'
    BY <1>1 DEF IdInv
  <2>3. ASSUME NEW s \in 1 .. Len(servers'), servers'[s].state \in {"new", "open"}
        PROVE  servers'[s].task <= lastTask'
    <3>1. servers[s].task <= lastTask /\ servers[s].task \in Nat
      BY <1>1, <1>2, <2>3 DEF IdInv
    <3>2. QED
      BY <1>1, <3>1
  <2>4. QED
    BY <1>4, <2>1, <2>2, <2>3 DEF IdInv
<1>6. EntryInv'
  <2>1. \A t \in TaskIds : runList'[t] > 0 => runList'[t] <= Len(servers') /\ servers'[runList'[t]].task = t
    BY DEF EntryInv
  <2>2. ASSUME NEW y \in T!Handlers, work'[y].pc = "close"
        PROVE  /\ work'[y].svr # T!None
               /\ work'[y].svr > 0 => work'[y].svr <= Len(servers') /\ servers'[work'[y].svr].task = work'[y].task
    <3>1. work'[y] = work[y]
      BY <2>2 DEF Fresh
    <3>2. QED
      BY <2>2, <3>1 DEF EntryInv
  <2>3. ASSUME NEW s \in 1 .. Len(servers'), servers'[s].state \in {"new", "open"}
        PROVE  tunnel'[servers'[s].task].mode # "secret"
    <3>1. servers[s].task <= lastTask /\ servers[s].task \in TaskIds
      BY <1>2, <2>3 DEF IdInv
    <3>2. QED
      BY <2>3, <3>1 DEF EntryInv
  <2>4. ASSUME NEW y \in T!Handlers, work'[y].pc = "list"
        PROVE  tunnel'[work'[y].task].mode # "secret"
    <3>1. work'[y] = work[y]
      BY <2>4 DEF Fresh
    <3>2. work[y].task \in TaskIds /\ work[y].task <= lastTask
      BY <2>4, <3>1, HasTask DEF IdInv
    <3>3. QED
      BY <2>4, <3>1, <3>2 DEF EntryInv
  <2>5. QED
    BY <2>1, <2>2, <2>3, <2>4 DEF EntryInv
<1>7. PauseInv'
  BY DEF PauseInv, Fresh
<1>8. QED
  BY <1>5, <1>6, <1>7

\* Ids, entries and pauses stay right over the other steps.
LEMMA BegunRest ==
    ASSUME TaskTypes, TaskTypes', IdInv, EntryInv, PauseInv, Begun
    PROVE  IdInv' /\ EntryInv' /\ PauseInv'
<1>1. /\ Web \subseteq T!Handlers /\ T!Bridge \in T!Handlers /\ T!Main \in T!Handlers
      /\ 0 \notin TaskIds /\ TaskIds \subseteq Nat
  BY IdFacts
<1>2. /\ lastTask \in Nat /\ lastClient \in Nat /\ lastTask' \in Nat /\ lastClient' \in Nat
      /\ dbTasks \subseteq TaskIds /\ dbClients \subseteq TaskIds /\ work \in [T!Handlers -> Job]
      /\ tunnel \in [TaskIds -> Tunnel] /\ runList \in [TaskIds -> T!Entry]
      /\ servers \in Seq(Server) /\ Len(servers) \in Nat
  BY LenProperties DEF TaskTypes
<1>3. (\A t \in dbTasks : t <= lastTask) /\ (\A c \in dbClients : c <= lastClient)
  BY DEF IdInv
<1>4. ASSUME NEW s \in 1 .. Len(servers), T!Listen(s) PROVE IdInv' /\ EntryInv' /\ PauseInv'
  <2>1. /\ UNCHANGED <<tup, dbClients, dbTasks, tunnel, lastTask, lastClient, work>>
        /\ tup /\ servers[s].state = "new" /\ servers[s] \in Server
        /\ runList' = runList \/ runList' = [runList EXCEPT ![servers[s].task] = T!None]
    BY <1>4, ListenDoes
  <2>2. PICK k \in Server : k.task = servers[s].task /\ servers' = [servers EXCEPT ![s] = k]
    <3>1. servers[s].task \in TaskIds /\ servers[s].port \in Port
      BY <2>1 DEF Server
    <3>2. tunnel[servers[s].task].port \in Port
      BY <1>2, <3>1 DEF Tunnel
    <3>3. /\ [task |-> servers[s].task, port |-> tunnel[servers[s].task].port, state |-> "open"] \in Server
          /\ [task |-> servers[s].task, port |-> servers[s].port, state |-> "failed"] \in Server
      BY <3>1, <3>2 DEF Server
    <3>4. QED
      BY <1>4, <3>3, ListenDoes
  <2>3. /\ Len(servers') = Len(servers) /\ servers'[s] = k
        /\ \A i \in 1 .. Len(servers) : i # s => servers'[i] = servers[i]
    BY <1>2, <2>2, ExceptSeq
  <2>4. \A i \in 1 .. Len(servers) :
           /\ servers'[i].task = servers[i].task
           /\ servers'[i].state \in {"new", "open"} => servers[i].state \in {"new", "open"}
    BY <2>1, <2>2, <2>3
  <2>5. \A t \in TaskIds : runList'[t] = runList[t] \/ runList'[t] = T!None
    BY <1>2, <2>1
  <2>6. IdInv'
    BY <2>1, <2>3, <2>4, <2>5 DEF IdInv
  <2>7. EntryInv'
    <3>1. \A t \in TaskIds : runList'[t] > 0 => runList'[t] <= Len(servers') /\ servers'[runList'[t]].task = t
      <4>1. \A t \in TaskIds : runList[t] \in Int
        BY <1>2, IdFacts
      <4>2. QED
        BY <1>2, <2>3, <2>4, <2>5, <4>1, IdFacts DEF EntryInv
    <3>2. ASSUME NEW y \in T!Handlers, work'[y].pc = "close"
          PROVE  /\ work'[y].svr # T!None
                 /\ work'[y].svr > 0 => work'[y].svr <= Len(servers') /\ servers'[work'[y].svr].task = work'[y].task
      <4>1. work[y].svr \in Int
        BY <1>2, IdFacts DEF Job
      <4>2. QED
        BY <1>2, <2>1, <2>3, <2>4, <3>2, <4>1 DEF EntryInv
    <3>3. \A i \in 1 .. Len(servers') : servers'[i].state \in {"new", "open"} =>
              tunnel'[servers'[i].task].mode # "secret"
      BY <2>1, <2>3, <2>4 DEF EntryInv
    <3>4. \A y \in T!Handlers : work'[y].pc = "list" => tunnel'[work'[y].task].mode # "secret"
      BY <2>1 DEF EntryInv
    <3>5. QED
      BY <3>1, <3>2, <3>3, <3>4 DEF EntryInv
  <2>8. PauseInv'
    BY <2>1 DEF PauseInv
  <2>9. QED
    BY <2>6, <2>7, <2>8
<1>5. ASSUME NEW x \in Web, NEW t \in TaskIds, NEW op \in {"start", "stop", "delete", "edit"},
             T!Request(x, op, t)
      PROVE  IdInv' /\ EntryInv' /\ PauseInv'
  <2>1. /\ UNCHANGED <<tup, dbClients, dbTasks, lastTask, lastClient, runList, servers>>
        /\ tup /\ work' = [work EXCEPT ![x] = OnTask(op, t)] /\ t \in dbTasks
        /\ tunnel' = tunnel \/ \E p \in TaskPorts : tunnel' = [tunnel EXCEPT ![t].port = p]
    BY <1>5, RequestDoes
  <2>2. PICK w : w = OnTask(op, t)
    OBVIOUS
  <2>3. /\ w.op = op /\ w.task = t /\ w.then = "load" /\ w.todo = {}
        /\ w.pc \in {"find", "load", "listed", "save"}
    BY <2>2, OnTaskFacts
  <2>4. Fresh(w)
    BY <1>1, <1>3, <2>1, <2>3 DEF Fresh, PauseAt
  <2>5. \A y \in T!Handlers : work'[y] = work[y] \/ Fresh(work'[y])
    BY <1>1, <1>2, <2>1, <2>2, <2>4
  <2>6. \A u \in TaskIds : tunnel'[u].mode = tunnel[u].mode
    BY <1>2, <2>1 DEF Tunnel
  <2>7. QED
    BY <1>2, <1>3, <2>1, <2>5, <2>6, BeginKeeps
<1>6. ASSUME NEW x \in Web, NEW t \in TaskIds, NEW p \in TaskPorts \cup TakenPorts,
             T!EditRefused(x, t, p)
      PROVE  IdInv' /\ EntryInv' /\ PauseInv'
  <2>1. /\ UNCHANGED <<tup, dbClients, dbTasks, lastTask, lastClient, runList, servers, work>>
        /\ tup /\ tunnel' = [tunnel EXCEPT ![t].port = p]
    BY <1>6, EditRefusedDoes
  <2>2. \A u \in TaskIds : tunnel'[u].mode = tunnel[u].mode
    BY <1>2, <2>1 DEF Tunnel
  <2>3. QED
    BY <1>2, <1>3, <2>1, <2>2, BeginKeeps
<1>7. ASSUME NEW x \in Web, NEW op \in {"add", "config"}, NEW c \in TaskIds, NEW p \in TaskPorts,
             NEW m \in Modes, T!NewTask(x, op, c, p, m)
      PROVE  IdInv' /\ EntryInv' /\ PauseInv'
  <2>1. /\ UNCHANGED <<tup, dbClients, dbTasks, lastClient, runList, servers>>
        /\ tup /\ lastTask + 1 \in TaskIds /\ lastTask' = lastTask + 1
        /\ work' = [work EXCEPT ![x] = OnNew(op, lastTask + 1)]
        /\ \A u \in TaskIds : u # lastTask + 1 => tunnel'[u] = tunnel[u]
    <3>1. tunnel' = [tunnel EXCEPT ![lastTask + 1] =
                        [status |-> TRUE, port |-> p, mode |-> m, client |-> c,
                         noStore |-> op = "config"]]
      BY <1>7, NewTaskDoes
    <3>2. \A u \in TaskIds : u # lastTask + 1 => tunnel'[u] = tunnel[u]
      BY <1>2, <3>1
    <3>3. QED
      BY <1>7, <3>2, NewTaskDoes
  <2>2. PICK w : w = OnNew(op, lastTask + 1)
    OBVIOUS
  <2>3. w.op = op /\ w.task = lastTask + 1 /\ w.todo = {} /\ w.pc = "create"
    BY <2>1, <2>2, OnNewFacts
  <2>4. Fresh(w)
    BY <1>1, <1>2, <2>1, <2>3 DEF Fresh, PauseAt
  <2>5. \A y \in T!Handlers : work'[y] = work[y] \/ Fresh(work'[y])
    BY <1>1, <1>2, <2>1, <2>2, <2>4
  <2>6. \A u \in TaskIds : u <= lastTask => tunnel'[u].mode = tunnel[u].mode
    BY <1>1, <1>2, <2>1
  <2>7. QED
    BY <1>2, <1>3, <2>1, <2>5, <2>6, BeginKeeps
<1>8. ASSUME NEW x \in Web, T!NewClient(x) PROVE IdInv' /\ EntryInv' /\ PauseInv'
  <2>1. /\ UNCHANGED <<tup, dbTasks, tunnel, lastTask, runList, servers>>
        /\ tup /\ work' = [work EXCEPT ![x] = OnClient]
        /\ lastClient' = lastClient + 1 /\ dbClients' = dbClients \cup {lastClient + 1}
    BY <1>8, NewClientDoes
  <2>2. Fresh(OnClient)
    <3>1. PICK w : w = OnClient
      OBVIOUS
    <3>2. /\ w.op = "client" /\ w.pc = "saveClients" /\ w.task = 0 /\ w.todo = {} /\ w.then = "done"
      BY <3>1, OnClientFacts
    <3>3. Fresh(w)
      BY <1>2, <3>2 DEF Fresh, PauseAt
    <3>4. QED
      BY <3>1, <3>3
  <2>3. \A y \in T!Handlers : work'[y] = work[y] \/ Fresh(work'[y])
    BY <1>1, <1>2, <2>1, <2>2
  <2>4. \A c \in dbClients' : c <= lastClient' /\ (c \in dbClients \/ c > lastClient)
    BY <1>1, <1>2, <1>3, <2>1
  <2>5. QED
    BY <1>2, <1>3, <2>1, <2>3, <2>4, BeginKeeps
<1>9. ASSUME NEW x \in Web, NEW c \in TaskIds, T!DelClient(x, c)
      PROVE  IdInv' /\ EntryInv' /\ PauseInv'
  <2>1. /\ UNCHANGED <<tup, dbTasks, tunnel, lastTask, lastClient, runList, servers>>
        /\ tup /\ work' = [work EXCEPT ![x] = OnDeleted(c)]
        /\ c \in dbClients /\ dbClients' = dbClients \ {c}
    BY <1>9, DelClientDoes
  <2>2. Fresh(OnDeleted(c))
    <3>1. PICK w : w = OnDeleted(c)
      OBVIOUS
    <3>2. /\ w.op = "delClient" /\ w.pc = "saveClients" /\ w.task = 0 /\ w.todo = {}
          /\ w.then = "range" /\ w.client = c
      BY <3>1, OnDeletedFacts
    <3>3. Fresh(w)
      BY <1>2, <1>3, <2>1, <3>2 DEF Fresh, PauseAt
    <3>4. QED
      BY <3>1, <3>3
  <2>3. \A y \in T!Handlers : work'[y] = work[y] \/ Fresh(work'[y])
    BY <1>1, <1>2, <2>1, <2>2
  <2>4. QED
    BY <1>2, <1>3, <2>1, <2>3, BeginKeeps
<1>10. ASSUME NEW c \in TaskIds, T!CloseClient(c) PROVE IdInv' /\ EntryInv' /\ PauseInv'
  <2>1. /\ UNCHANGED <<tup, dbClients, dbTasks, tunnel, lastTask, lastClient, runList, servers>>
        /\ tup /\ work' = [work EXCEPT ![T!Bridge] = OnClosed(c)]
    BY <1>10, CloseClientDoes
  <2>2. Fresh(OnClosed(c))
    <3>1. PICK w : w = OnClosed(c)
      OBVIOUS
    <3>2. w.op = "closeClient" /\ w.pc = "range" /\ w.task = 0 /\ w.todo = {}
      BY <3>1, OnClosedFacts
    <3>3. Fresh(w)
      BY <1>2, <3>2 DEF Fresh, PauseAt
    <3>4. QED
      BY <3>1, <3>3
  <2>3. \A y \in T!Handlers : work'[y] = work[y] \/ Fresh(work'[y])
    BY <1>1, <1>2, <2>1, <2>2
  <2>4. QED
    BY <1>2, <1>3, <2>1, <2>3, BeginKeeps
<1>11. ASSUME T!Down PROVE IdInv' /\ EntryInv' /\ PauseInv'
  <2>1. /\ ~tup' /\ \A t \in TaskIds : runList'[t] = T!None
        /\ \A s \in 1 .. Len(servers') : servers'[s].state = "closed"
        /\ \A x \in T!Handlers : work'[x] = T!Idle
        /\ UNCHANGED <<dbClients, dbTasks, tunnel, lastTask, lastClient>>
    BY <1>11, DownDoes
  <2>2. \A x \in T!Handlers : /\ work'[x].pc = "idle" /\ work'[x] = T!Idle /\ work'[x].task = 0
                             /\ work'[x].todo = {} /\ work'[x].op = "none"
    BY <2>1, IdleFacts
  <2>3. IdInv'
    BY <1>2, <1>3, <2>1, <2>2 DEF IdInv
  <2>4. EntryInv'
    BY <2>1, <2>2, IdFacts DEF EntryInv
  <2>5. PauseInv'
    BY <2>2 DEF PauseInv
  <2>6. QED
    BY <2>3, <2>4, <2>5
<1>12. ASSUME T!Restart PROVE IdInv' /\ EntryInv' /\ PauseInv'
  <2>1. /\ ~tup /\ tup' /\ UNCHANGED <<runList, servers>>
        /\ work' = [work EXCEPT ![T!Main] = OnBoot(T!ToBoot)] /\ T!ToBoot \in SUBSET TaskIds
        /\ \A c \in dbClients' : c <= lastClient'
        /\ \A t \in dbTasks' : t <= lastTask'
    BY <1>12, RestartDoes
  <2>2. \A t \in T!ToBoot : t \in dbTasks'
    BY <1>12, RestartDoes
  <2>3. /\ \A y \in T!Handlers : work[y].pc = "idle" /\ work[y] = T!Idle
        /\ \A s \in 1 .. Len(servers) : servers[s].state \notin {"new", "open"}
        /\ \A t \in TaskIds : runList[t] = T!None
    BY <2>1 DEF IdInv
  <2>4. PICK w : w = OnBoot(T!ToBoot)
    OBVIOUS
  <2>5. w.op = "boot" /\ w.pc = "next" /\ w.task = 0 /\ w.todo = T!ToBoot
    BY <2>1, <2>4, OnBootFacts
  <2>6. ASSUME NEW y \in T!Handlers
        PROVE  \/ work'[y] = T!Idle
               \/ work'[y] = w
    BY <1>2, <2>1, <2>3, <2>4
  <2>7. IdInv'
    BY <1>2, <2>1, <2>2, <2>3, <2>5, <2>6, IdleFacts DEF IdInv
  <2>8. EntryInv'
    BY <2>1, <2>3, <2>5, <2>6, IdleFacts, IdFacts DEF EntryInv
  <2>9. PauseInv'
    BY <2>5, <2>6, IdleFacts DEF PauseInv, PauseAt
  <2>10. QED
    BY <2>7, <2>8, <2>9
<1>13. QED
  BY <1>4, <1>5, <1>6, <1>7, <1>8, <1>9, <1>10, <1>11, <1>12 DEF Begun, T!Crash, T!BridgePanics

\* Types, ids, entries and pauses stay right over every step.
LEMMA RestKept ==
    ASSUME TaskTypes, IdInv, EntryInv, PauseInv, [T!Next]_(T!vars)
    PROVE  TaskTypes' /\ IdInv' /\ EntryInv' /\ PauseInv'
<1>1. TaskTypes'
  BY TypesKept
<1>2. CASE \E x \in T!Handlers : T!Step(x)
  BY <1>1, <1>2, StepIds, StepEntries, StepPauses
<1>3. CASE Begun
  BY <1>1, <1>3, BegunRest
<1>4. CASE UNCHANGED <<tup, dbClients, dbTasks, tunnel, lastTask, lastClient, files, runList,
                       servers, work, tangled, acked>>
  BY <1>1, <1>4 DEF IdInv, EntryInv, PauseInv, PauseAt
<1>5. QED
  BY <1>1, <1>2, <1>3, <1>4, NextCases

-----------------------------------------------------------------------------
(* The tasks on which no two activities overlapped, over a step.           *)

\* A request works on its task alone, and as its step expects it.
LEMMA OwnTask ==
    ASSUME TaskTypes, PauseInv, WorkInv, tup, NEW x \in T!Handlers,
           work[x].pc \notin {"idle", "next", "saveClients", "range"}
    PROVE  /\ work[x].task \in TaskIds
           /\ work[x].task \notin tangled =>
                 /\ AtWork(work[x].task, work[x])
                 /\ Starting(work[x].task) => Tends(work[x].task, work[x])
<1>1. PICK t \in TaskIds : t = work[x].task
  BY HasTask
<1>2. t \notin tangled => AtWork(t, work[x]) /\ (Starting(t) => Tends(t, work[x]))
  BY <1>1, WorkFacts
<1>3. QED
  BY <1>1, <1>2

\* What a request goes on with concerns no task that it did not concern.
LEMMA GoneFollows ==
    ASSUME NEW v \in Job, NEW goal \in Pcs \cup {"done", "failed"}
    PROVE  Follows(v, Gone(v, goal)) /\ Gone(v, goal) \in Job
<1>1. CASE goal \in {"done", "failed"}
  BY <1>1, GoneFacts DEF Follows
<1>2. CASE goal \in Pcs
  BY <1>2, GoneFacts DEF Follows, Pcs
<1>3. QED
  BY <1>1, <1>2

\* The same for a request that ends, or goes on with the same task.
LEMMA EndKeeps ==
    ASSUME TaskTypes, TaskTypes', EntryInv, PauseInv, WorkInv, NEW x \in T!Handlers, T!Step(x),
           NEW u \in TaskIds, u = work[x].task, NEW goal \in {"done", "failed"}, Fate(x, goal),
           \A t \in TaskIds : t # u => SameView(t),
           u \notin tangled => /\ Settled(u)' /\ OwnPort(u)'
                               /\ Starting(u)' => work[x].op \notin {"delClient", "closeClient"}
    PROVE  WorkInv'
<1>1. PICK w : w = Gone(work[x], goal)
  OBVIOUS
<1>2. work[x] \in Job /\ work[x].pc # "idle"
  BY StepGoesOn DEF TaskTypes
<1>3. /\ w \in Job /\ w.task = 0 /\ Follows(work[x], w)
      /\ w.pc = "idle" \/ (w.pc = "next" /\ w.op = work[x].op
                             /\ work[x].op \in {"delClient", "closeClient", "boot"})
  BY <1>1, <1>2, GoneFacts, GoneFollows
<1>4. work' = [work EXCEPT ![x] = w]
  BY <1>1 DEF Fate
<1>5. Leaving(u, w) /\ (u \notin tangled /\ Starting(u)' => Quiet(u, w))
  BY <1>3, IdFacts DEF Leaving, Quiet
<1>6. /\ tup /\ tangled \subseteq tangled'
      /\ \A t \in TaskIds : tunnel'[t].client = tunnel[t].client /\ tunnel'[t].noStore = tunnel[t].noStore
  BY StepFrame
<1>7. QED
  BY <1>2, <1>3, <1>4, <1>5, <1>6, StepKeeps

\* A step that ends a request, or leads it on, keeps other tasks as they were.
LEMMA GoKeeps ==
    ASSUME TaskTypes, TaskTypes', EntryInv, PauseInv, WorkInv, NEW x \in T!Handlers, T!Step(x),
           NEW u \in TaskIds, u = work[x].task, NEW w \in Job, work' = [work EXCEPT ![x] = w],
           w.op = work[x].op /\ w.client = work[x].client /\ w.todo = work[x].todo,
           w.task = u /\ w.pc # "idle",
           \A t \in TaskIds : t # u => SameView(t),
           u \notin tangled => AtWork(u, w)' /\ (Starting(u)' => Tends(u, w))
    PROVE  WorkInv'
<1>1. work[x].pc # "idle"
  BY StepGoesOn
<1>2. Follows(work[x], w) /\ ~Leaving(u, w) /\ (Tends(u, w) => Quiet(u, w))
  BY DEF Follows, Leaving, Quiet
<1>3. /\ tup /\ tangled \subseteq tangled'
      /\ \A t \in TaskIds : tunnel'[t].client = tunnel[t].client /\ tunnel'[t].noStore = tunnel[t].noStore
  BY StepFrame
<1>4. QED
  BY <1>1, <1>2, <1>3, StepKeeps

\* The same when the step shows to no task.
LEMMA AllSame ==
    ASSUME TaskTypes, dbTasks' = dbTasks, tunnel' = tunnel, runList' = runList, servers' = servers
    PROVE  \A u \in TaskIds : SameView(u)
<1>1. Len(servers) \in Nat
  BY LenProperties DEF TaskTypes
<1>2. QED
  BY <1>1 DEF SameView, SameServers

\* A request may end on a task that is at rest.
LEMMA EndRests ==
    ASSUME TaskTypes, TaskTypes', EntryInv, PauseInv, WorkInv, NEW x \in T!Handlers, T!Step(x),
           NEW u \in TaskIds, u = work[x].task, NEW goal \in {"done", "failed"}, Fate(x, goal),
           dbTasks' = dbTasks, tunnel' = tunnel, runList' = runList, servers' = servers,
           u \notin tangled => /\ Settled(u) /\ OwnPort(u)
                               /\ Starting(u) => work[x].op \notin {"delClient", "closeClient"}
    PROVE  WorkInv'
<1>1. \A t \in TaskIds : SameView(t)
  BY AllSame
<1>2. u \notin tangled => /\ Settled(u)' /\ OwnPort(u)'
                          /\ Starting(u)' => work[x].op \notin {"delClient", "closeClient"}
  BY <1>1, ViewKept
<1>3. QED
  BY <1>1, <1>2, EndKeeps

\* The same when the step shows to the task of the request.
LEMMA GoRests ==
    ASSUME TaskTypes, TaskTypes', EntryInv, PauseInv, WorkInv, NEW x \in T!Handlers, T!Step(x),
           NEW u \in TaskIds, u = work[x].task, NEW w \in Job, work' = [work EXCEPT ![x] = w],
           w.op = work[x].op /\ w.client = work[x].client /\ w.todo = work[x].todo,
           w.task = u /\ w.pc # "idle",
           dbTasks' = dbTasks, tunnel' = tunnel, runList' = runList, servers' = servers,
           u \notin tangled => AtWork(u, w) /\ (Starting(u) => Tends(u, w))
    PROVE  WorkInv'
<1>1. \A t \in TaskIds : SameView(t)
  BY AllSame
<1>2. u \notin tangled => AtWork(u, w)' /\ (Starting(u)' => Tends(u, w))
  BY <1>1, ViewKept, WorkKept
<1>3. QED
  BY <1>1, <1>2, GoKeeps

\* What follows from an entry, or from there being no server.
LEMMA OffFacts ==
    ASSUME TaskTypes, NEW t \in TaskIds
    PROVE  /\ NoServer(t) => ~Starting(t) /\ OwnPort(t) /\ (runList[t] <= 0 => Listed(t))
           /\ Off(t) => ~Starting(t) /\ OwnPort(t) /\ Listed(t) /\ Settled(t) /\ NoServer(t)
           /\ Listed(t) /\ runList[t] <= 0 => NoServer(t)
           /\ runList[t] \in Int
<1>1. /\ servers \in Seq(Server) /\ runList[t] \in Int
      /\ T!None = 0
  BY IdFacts DEF TaskTypes
<1>2. /\ NoServer(t) => ~Starting(t) /\ OwnPort(t) /\ (runList[t] <= 0 => Listed(t))
      /\ Listed(t) /\ runList[t] <= 0 => NoServer(t)
  BY <1>1, RunFacts DEF NoServer, Starting, OwnPort, Listed
<1>3. Off(t) => ~Starting(t) /\ OwnPort(t) /\ Listed(t) /\ Settled(t) /\ NoServer(t)
  BY <1>1, <1>2 DEF Off, Settled
<1>4. QED
  BY <1>1, <1>2, <1>3

\* A listed server that does not start listens.
LEMMA ListedOpen ==
    ASSUME TaskTypes, NEW t \in TaskIds, Listed(t), ~Starting(t), runList[t] > 0
    PROVE  /\ runList[t] \in 1 .. Len(servers) /\ servers[runList[t]].task = t
           /\ servers[runList[t]].state = "open"
  BY OffFacts DEF Listed, ListsOwn, Runs, Starting, OneStarts

\* A step that only changes the entry of one task.
LEMMA ChangedEntry ==
    ASSUME TaskTypes, NEW u \in TaskIds, NEW e, runList' = [runList EXCEPT ![u] = e],
           dbTasks' = dbTasks, tunnel' = tunnel, servers' = servers
    PROVE  \A t \in TaskIds : t # u => SameView(t)
<1>1. Len(servers) \in Nat
  BY LenProperties DEF TaskTypes
<1>2. \A t \in TaskIds : t # u => runList'[t] = runList[t]
  BY DEF TaskTypes
<1>3. QED
  BY <1>1, <1>2 DEF SameView, SameServers

\* A task stays as expected over Save.
LEMMA SaveWorks ==
    ASSUME TaskTypes, TaskTypes', EntryInv, PauseInv, WorkInv, NEW x \in T!Handlers, T!Save(x)
    PROVE  WorkInv'
<1>1. T!Step(x)
  BY DEF T!Step
<1>2. /\ tup /\ work[x].pc = "save"
      /\ UNCHANGED <<dbTasks, tunnel, runList, servers, tangled>>
      /\ Fate(x, work[x].then)
  BY SaveDoes
<1>3. PICK u \in TaskIds : /\ u = work[x].task
                           /\ u \notin tangled =>
                                 AtWork(u, work[x]) /\ (Starting(u) => Tends(u, work[x]))
  BY <1>2, OwnTask
<1>4. PICK v \in Job : v = work[x] /\ v.task = u /\ v.pc = "save"
  BY <1>2, <1>3 DEF TaskTypes
<1>5. CASE v.then = "add" /\ Fate(x, "add")
  <2>1. PICK w : w = Gone(v, "add")
    OBVIOUS
  <2>2. /\ w \in Job /\ w.pc = "add" /\ w.op = v.op /\ w.task = v.task
        /\ w.client = v.client /\ w.todo = v.todo
    BY <1>4, <2>1, GoneFacts DEF Pcs
  <2>3. work' = [work EXCEPT ![x] = w]
    BY <1>4, <1>5, <2>1 DEF Fate
  <2>8. u \notin tangled => AtWork(u, w) /\ (Starting(u) => Tends(u, w))
    BY <1>2, <1>3, <1>4, <1>5, <2>2, OffFacts DEF AtWork, Saving, Tends, Steady, Settled,
       Starts, Adds, Ends, Stops
  <2>9. QED
    BY <1>1, <1>2, <1>3, <1>4, <1>5, <2>2, <2>3, <2>8, GoRests
<1>6. CASE v.then = "try" /\ Fate(x, "try")
  <2>1. PICK w : w = Gone(v, "try")
    OBVIOUS
  <2>2. /\ w \in Job /\ w.pc = "try" /\ w.op = v.op /\ w.task = v.task
        /\ w.client = v.client /\ w.todo = v.todo
    BY <1>4, <2>1, GoneFacts DEF Pcs
  <2>3. work' = [work EXCEPT ![x] = w]
    BY <1>4, <1>6, <2>1 DEF Fate
  <2>8. u \notin tangled => AtWork(u, w) /\ (Starting(u) => Tends(u, w))
    BY <1>2, <1>3, <1>4, <1>6, <2>2, OffFacts DEF AtWork, Saving, Tends, Steady, Settled,
       Starts, Adds, Ends, Stops
  <2>9. QED
    BY <1>1, <1>2, <1>3, <1>4, <1>6, <2>2, <2>3, <2>8, GoRests
<1>7. CASE v.then = "load" /\ Fate(x, "load")
  <2>1. PICK w : w = Gone(v, "load")
    OBVIOUS
  <2>2. /\ w \in Job /\ w.pc = "load" /\ w.op = v.op /\ w.task = v.task
        /\ w.client = v.client /\ w.todo = v.todo
    BY <1>4, <2>1, GoneFacts DEF Pcs
  <2>3. work' = [work EXCEPT ![x] = w]
    BY <1>4, <1>7, <2>1 DEF Fate
  <2>8. u \notin tangled => AtWork(u, w) /\ (Starting(u) => Tends(u, w))
    BY <1>2, <1>3, <1>4, <1>7, <2>2, OffFacts DEF AtWork, Saving, Tends, Steady, Settled,
       Starts, Adds, Ends, Stops
  <2>9. QED
    BY <1>1, <1>2, <1>3, <1>4, <1>7, <2>2, <2>3, <2>8, GoRests
<1>8. CASE v.then = "unlist" /\ Fate(x, "unlist")
  <2>1. PICK w : w = Gone(v, "unlist")
    OBVIOUS
  <2>2. /\ w \in Job /\ w.pc = "unlist" /\ w.op = v.op /\ w.task = v.task
        /\ w.client = v.client /\ w.todo = v.todo
    BY <1>4, <2>1, GoneFacts DEF Pcs
  <2>3. work' = [work EXCEPT ![x] = w]
    BY <1>4, <1>8, <2>1 DEF Fate
  <2>8. u \notin tangled => AtWork(u, w) /\ (Starting(u) => Tends(u, w))
    BY <1>2, <1>3, <1>4, <1>8, <2>2, OffFacts DEF AtWork, Saving, Tends, Steady, Settled,
       Starts, Adds, Ends, Stops
  <2>9. QED
    BY <1>1, <1>2, <1>3, <1>4, <1>8, <2>2, <2>3, <2>8, GoRests
<1>9. CASE v.then = "done" /\ Fate(x, "done")
  <2>8. u \notin tangled => /\ Settled(u) /\ OwnPort(u)
                            /\ Starting(u) => work[x].op \notin {"delClient", "closeClient"}
    BY <1>2, <1>3, <1>4, <1>9, OffFacts DEF AtWork, Saving, Tends, Settled, Starts
  <2>9. QED
    BY <1>1, <1>2, <1>3, <1>9, <2>8, EndRests
<1>10. v.then # "range"
  BY <1>2, <1>3, <1>4, IdFacts DEF PauseInv, PauseAt
<1>11. QED
  BY <1>2, <1>4, <1>5, <1>6, <1>7, <1>8, <1>9, <1>10 DEF Job

\* A task stays as expected over AddTask.
LEMMA AddTaskWorks ==
    ASSUME TaskTypes, TaskTypes', EntryInv, PauseInv, WorkInv, NEW x \in T!Handlers, T!AddTask(x)
    PROVE  WorkInv'
<1>1. T!Step(x)
  BY DEF T!Step
<1>2. /\ tup /\ work[x].pc = "add"
      /\ UNCHANGED <<dbTasks, tunnel, servers, tangled>>
  BY AddTaskDoes
<1>3. PICK u \in TaskIds : /\ u = work[x].task
                           /\ u \notin tangled =>
                                 AtWork(u, work[x]) /\ (Starting(u) => Tends(u, work[x]))
  BY <1>2, OwnTask
<1>4. PICK v \in Job : v = work[x] /\ v.task = u /\ v.pc = "add"
  BY <1>2, <1>3 DEF TaskTypes
<1>5. CASE tunnel[u].mode = "secret" /\ runList' = [runList EXCEPT ![u] = T!Secret] /\ v.op \in Starts /\ Fate(x, "status")
  <2>1. PICK w : w = Gone(v, "status")
    OBVIOUS
  <2>2. /\ w \in Job /\ w.pc = "status" /\ w.op = v.op /\ w.task = v.task
        /\ w.client = v.client /\ w.todo = v.todo
    BY <1>4, <2>1, GoneFacts DEF Pcs
  <2>3. work' = [work EXCEPT ![x] = w]
    BY <1>4, <1>5, <2>1 DEF Fate
  <2>4. u \notin tangled => NoServer(u)
    <3>1. \A s \in 1 .. Len(servers) : ~Runs(servers, s, u)
      BY <1>3, <1>4, <1>5 DEF EntryInv, Runs
    <3>2. QED
      BY <3>1 DEF NoServer, NoneRuns
  <2>5. NoServer(u) => NoServer(u)'
    BY <1>2 DEF NoServer
  <2>6. runList'[u] = T!Secret /\ T!Secret < 0 /\ T!Secret # T!None
    BY <1>3, <1>4, <1>5, IdFacts DEF TaskTypes
  <2>10. NoServer(u)' => ~Starting(u)' /\ OwnPort(u)' /\ Listed(u)'
    <3>1. servers' \in Seq(Server) /\ runList'[u] \in Int /\ runList'[u] <= 0
      BY <2>6, IdFacts DEF TaskTypes
    <3>2. QED
      BY <3>1, RunFacts DEF NoServer, Starting, OwnPort, Listed
  <2>7. \A t \in TaskIds : t # u => SameView(t)
    BY <1>2, <1>3, <1>4, <1>5, ChangedEntry
  <2>8. u \notin tangled => AtWork(u, w)' /\ (Starting(u)' => Tends(u, w))
    BY <1>2, <1>3, <1>4, <1>5, <2>2, <2>4, <2>5, <2>10 DEF AtWork, Tends, Starts, Adds
  <2>9. QED
    BY <1>1, <1>2, <1>3, <1>4, <1>5, <2>2, <2>3, <2>8, <2>7, GoKeeps
<1>6. CASE tunnel[u].mode = "secret" /\ runList' = [runList EXCEPT ![u] = T!Secret] /\ v.op \notin Starts /\ Fate(x, "done")
  <2>4. u \notin tangled => NoServer(u)
    <3>1. \A s \in 1 .. Len(servers) : ~Runs(servers, s, u)
      BY <1>3, <1>4, <1>6 DEF EntryInv, Runs
    <3>2. QED
      BY <3>1 DEF NoServer, NoneRuns
  <2>5. NoServer(u) => NoServer(u)'
    BY <1>2 DEF NoServer
  <2>6. runList'[u] = T!Secret /\ T!Secret < 0 /\ T!Secret # T!None
    BY <1>3, <1>4, <1>6, IdFacts DEF TaskTypes
  <2>10. NoServer(u)' => ~Starting(u)' /\ OwnPort(u)' /\ Listed(u)'
    <3>1. servers' \in Seq(Server) /\ runList'[u] \in Int /\ runList'[u] <= 0
      BY <2>6, IdFacts DEF TaskTypes
    <3>2. QED
      BY <3>1, RunFacts DEF NoServer, Starting, OwnPort, Listed
  <2>7. \A t \in TaskIds : t # u => SameView(t)
    BY <1>2, <1>3, <1>4, <1>6, ChangedEntry
  <2>8. u \notin tangled => /\ Settled(u)' /\ OwnPort(u)'
                            /\ Starting(u)' => work[x].op \notin {"delClient", "closeClient"}
    BY <1>2, <1>3, <1>4, <1>6, <2>4, <2>5, <2>6, <2>10 DEF AtWork, Tends, Settled, Starts, Adds
  <2>9. QED
    BY <1>1, <1>2, <1>3, <1>6, <2>8, <2>7, EndKeeps
<1>7. CASE runList' = runList /\ T!PortFree(tunnel[u].port) /\ Fate(x, "list")
  <2>1. PICK w : w = Gone(v, "list")
    OBVIOUS
  <2>2. /\ w \in Job /\ w.pc = "list" /\ w.op = v.op /\ w.task = v.task
        /\ w.client = v.client /\ w.todo = v.todo
    BY <1>4, <2>1, GoneFacts DEF Pcs
  <2>3. work' = [work EXCEPT ![x] = w]
    BY <1>4, <1>7, <2>1 DEF Fate
  <2>4. u \notin tangled => NoServer(u)
    <3>1. ASSUME u \notin tangled, NEW s \in 1 .. Len(servers), Runs(servers, s, u) PROVE FALSE
      <4>1. OwnPort(u) /\ ~Starting(u)
        BY <1>3, <1>4, <3>1 DEF AtWork
      <4>2. servers[s].task = u /\ servers[s].state = "open"
        BY <3>1, <4>1 DEF Runs, Starting, OneStarts
      <4>3. servers[s].port = tunnel[u].port
        BY <4>1, <4>2 DEF OwnPort, OnPort
      <4>4. QED
        BY <1>7, <4>2, <4>3 DEF T!PortFree
    <3>2. QED
      BY <3>1 DEF NoServer, NoneRuns
  <2>8. u \notin tangled => AtWork(u, w) /\ (Starting(u) => Tends(u, w))
    BY <1>2, <1>3, <1>4, <1>7, <2>2, <2>4, OffFacts DEF AtWork, Tends, Starts, Adds
  <2>9. QED
    BY <1>1, <1>2, <1>3, <1>4, <1>7, <2>2, <2>3, <2>8, GoRests
<1>8. CASE runList' = runList /\ v.op \in Starts /\ Fate(x, "status")
  <2>1. PICK w : w = Gone(v, "status")
    OBVIOUS
  <2>2. /\ w \in Job /\ w.pc = "status" /\ w.op = v.op /\ w.task = v.task
        /\ w.client = v.client /\ w.todo = v.todo
    BY <1>4, <2>1, GoneFacts DEF Pcs
  <2>3. work' = [work EXCEPT ![x] = w]
    BY <1>4, <1>8, <2>1 DEF Fate
  <2>8. u \notin tangled => AtWork(u, w) /\ (Starting(u) => Tends(u, w))
    BY <1>2, <1>3, <1>4, <1>8, <2>2 DEF AtWork, Tends, Starts, Adds
  <2>9. QED
    BY <1>1, <1>2, <1>3, <1>4, <1>8, <2>2, <2>3, <2>8, GoRests
<1>9. CASE runList' = runList /\ v.op \notin Starts /\ Fate(x, "failed")
  <2>8. u \notin tangled => /\ Settled(u) /\ OwnPort(u)
                            /\ Starting(u) => work[x].op \notin {"delClient", "closeClient"}
    BY <1>2, <1>3, <1>4, <1>9 DEF AtWork, Tends, Settled, Starts, Adds
  <2>9. QED
    BY <1>1, <1>2, <1>3, <1>9, <2>8, EndRests
<1>10. QED
  <2>1. \/ /\ tunnel[work[x].task].mode = "secret"
           /\ runList' = [runList EXCEPT ![work[x].task] = T!Secret]
           /\ Fate(x, IF work[x].op \in Starts THEN "status" ELSE "done")
        \/ /\ runList' = runList
           /\ T!PortFree(tunnel[work[x].task].port) /\ Fate(x, "list")
        \/ /\ runList' = runList
           /\ Fate(x, IF work[x].op \in Starts THEN "status" ELSE "failed")
    BY AddTaskDoes
  <2>2. QED
    BY <1>3, <1>4, <2>1, <1>5, <1>6, <1>7, <1>8, <1>9

\* A task stays as expected over ListServer.
LEMMA ListServerWorks ==
    ASSUME TaskTypes, TaskTypes', EntryInv, PauseInv, WorkInv, NEW x \in T!Handlers, T!ListServer(x)
    PROVE  WorkInv'
<1>1. T!Step(x)
  BY DEF T!Step
<1>2. /\ tup /\ work[x].pc = "list"
      /\ UNCHANGED <<dbTasks, tunnel, tangled>>
      /\ servers' = Append(servers, [task |-> work[x].task, port |-> 0, state |-> "new"])
      /\ runList' = [runList EXCEPT ![work[x].task] = Len(servers) + 1]
      /\ Fate(x, IF work[x].op \in Starts THEN "status" ELSE "done")
  BY ListServerDoes
<1>3. PICK u \in TaskIds : /\ u = work[x].task
                           /\ u \notin tangled =>
                                 AtWork(u, work[x]) /\ (Starting(u) => Tends(u, work[x]))
  BY <1>2, OwnTask
<1>4. PICK v \in Job : v = work[x] /\ v.task = u /\ v.pc = "list"
  BY <1>2, <1>3 DEF TaskTypes
<1>5. /\ \A t \in TaskIds : t # u => SameView(t)
      /\ NoServer(u) => Listed(u)' /\ OwnPort(u)' 
  <2>1. servers \in Seq(Server) /\ Len(servers) \in Nat
    BY LenProperties DEF TaskTypes
  <2>2. /\ \A t : t # u => SameServers(servers, servers', t)
        /\ NoneRuns(servers, u) => /\ ListsOwn(servers', Len(servers) + 1, u)
                                   /\ \A p : OnPort(servers', p, u)
    BY <1>2, <1>3, <2>1, MadeServer
  <2>3. runList'[u] = Len(servers) + 1 /\ \A t \in TaskIds : t # u => runList'[t] = runList[t]
    BY <1>2, <1>3 DEF TaskTypes
  <2>4. QED
    BY <1>2, <2>2, <2>3 DEF SameView, NoServer, Listed, OwnPort
<1>6. CASE v.op \in Starts /\ Fate(x, "status")
  <2>1. PICK w : w = Gone(v, "status")
    OBVIOUS
  <2>2. /\ w \in Job /\ w.pc = "status" /\ w.op = v.op /\ w.task = v.task
        /\ w.client = v.client /\ w.todo = v.todo
    BY <1>4, <2>1, GoneFacts DEF Pcs
  <2>3. work' = [work EXCEPT ![x] = w]
    BY <1>4, <1>6, <2>1 DEF Fate
  <2>7. \A t \in TaskIds : t # u => SameView(t)
    BY <1>5
  <2>8. u \notin tangled => AtWork(u, w)' /\ (Starting(u)' => Tends(u, w))
    BY <1>2, <1>3, <1>4, <1>6, <2>2, <1>5 DEF AtWork, Tends, Starts, Adds
  <2>9. QED
    BY <1>1, <1>2, <1>3, <1>4, <1>6, <2>2, <2>3, <2>8, <2>7, GoKeeps
<1>7. CASE v.op \notin Starts /\ Fate(x, "done")
  <2>7. \A t \in TaskIds : t # u => SameView(t)
    BY <1>5
  <2>8. u \notin tangled => /\ Settled(u)' /\ OwnPort(u)'
                            /\ Starting(u)' => work[x].op \notin {"delClient", "closeClient"}
    BY <1>2, <1>3, <1>4, <1>7, <1>5 DEF AtWork, Tends, Settled, Starts, Adds
  <2>9. QED
    BY <1>1, <1>2, <1>3, <1>7, <2>8, <2>7, EndKeeps
<1>8. QED
  BY <1>2, <1>4, <1>6, <1>7

\* A task stays as expected over FindToStart.
LEMMA FindToStartWorks ==
    ASSUME TaskTypes, TaskTypes', EntryInv, PauseInv, WorkInv, NEW x \in T!Handlers, T!FindToStart(x)
    PROVE  WorkInv'
<1>1. T!Step(x)
  BY DEF T!Step
<1>2. /\ tup /\ work[x].pc = "find"
      /\ UNCHANGED <<dbTasks, tunnel, runList, servers, tangled>>
      /\ Fate(x, IF work[x].task \in dbTasks THEN "add" ELSE "failed")
  BY FindToStartDoes
<1>3. PICK u \in TaskIds : /\ u = work[x].task
                           /\ u \notin tangled =>
                                 AtWork(u, work[x]) /\ (Starting(u) => Tends(u, work[x]))
  BY <1>2, OwnTask
<1>4. PICK v \in Job : v = work[x] /\ v.task = u /\ v.pc = "find"
  BY <1>2, <1>3 DEF TaskTypes
<1>5. CASE u \in dbTasks /\ Fate(x, "add")
  <2>1. PICK w : w = Gone(v, "add")
    OBVIOUS
  <2>2. /\ w \in Job /\ w.pc = "add" /\ w.op = v.op /\ w.task = v.task
        /\ w.client = v.client /\ w.todo = v.todo
    BY <1>4, <2>1, GoneFacts DEF Pcs
  <2>3. work' = [work EXCEPT ![x] = w]
    BY <1>4, <1>5, <2>1 DEF Fate
  <2>8. u \notin tangled => AtWork(u, w) /\ (Starting(u) => Tends(u, w))
    BY <1>2, <1>3, <1>4, <1>5, <2>2 DEF AtWork, Tends, Starts, Adds
  <2>9. QED
    BY <1>1, <1>2, <1>3, <1>4, <1>5, <2>2, <2>3, <2>8, GoRests
<1>6. CASE u \notin dbTasks /\ Fate(x, "failed")
  <2>8. u \notin tangled => /\ Settled(u) /\ OwnPort(u)
                            /\ Starting(u) => work[x].op \notin {"delClient", "closeClient"}
    BY <1>2, <1>3, <1>4, <1>6 DEF AtWork
  <2>9. QED
    BY <1>1, <1>2, <1>3, <1>6, <2>8, EndRests
<1>7. QED
  BY <1>2, <1>4, <1>5, <1>6, <1>3

\* A task stays as expected over Started.
LEMMA StartedWorks ==
    ASSUME TaskTypes, TaskTypes', EntryInv, PauseInv, WorkInv, NEW x \in T!Handlers, T!Started(x)
    PROVE  WorkInv'
<1>1. T!Step(x)
  BY DEF T!Step
<1>2. /\ tup /\ work[x].pc = "status"
      /\ UNCHANGED <<runList, servers, tangled>>
      /\ work' = [work EXCEPT ![x] = Saves(work[x], "done")]
      /\ tunnel' = [tunnel EXCEPT ![work[x].task].status = TRUE]
      /\ dbTasks' = dbTasks \cup {work[x].task}
  BY StartedDoes
<1>3. PICK u \in TaskIds : /\ u = work[x].task
                           /\ u \notin tangled =>
                                 AtWork(u, work[x]) /\ (Starting(u) => Tends(u, work[x]))
  BY <1>2, OwnTask
<1>4. PICK v \in Job : v = work[x] /\ v.task = u /\ v.pc = "status"
  BY <1>2, <1>3 DEF TaskTypes
<1>5. CASE work' = [work EXCEPT ![x] = Saves(v, "done")]
  <2>1. PICK w : w = Saves(v, "done")
    OBVIOUS
  <2>2. /\ w \in Job /\ w.pc = "save" /\ w.op = v.op /\ w.task = v.task
        /\ w.client = v.client /\ w.todo = v.todo /\ w.then = "done"
    BY <1>4, <2>1, SavesFacts
  <2>3. work' = [work EXCEPT ![x] = w]
    BY <1>4, <1>5, <2>1 DEF Fate
  <2>4. /\ tunnel'[u].status = TRUE /\ tunnel'[u].port = tunnel[u].port
        /\ \A t \in TaskIds : t # u => tunnel'[t] = tunnel[t]
    BY <1>2, <1>3 DEF TaskTypes, Tunnel
  <2>5. /\ Listed(u) => Listed(u)'
        /\ NoServer(u) => NoServer(u)'
        /\ OwnPort(u) => OwnPort(u)'
        /\ Starting(u)' => Starting(u)
    BY <1>2, <2>4 DEF Listed, NoServer, OwnPort, Starting
  <2>6. Len(servers) \in Nat
    BY LenProperties DEF TaskTypes
  <2>7. \A t \in TaskIds : t # u => SameView(t)
    BY <1>2, <1>3, <2>4, <2>6 DEF SameView, SameServers
  <2>8. u \notin tangled => AtWork(u, w)' /\ (Starting(u)' => Tends(u, w))
    BY <1>2, <1>3, <1>4, <1>5, <2>2, <2>4, <2>5 DEF AtWork, Saving, Tends, Starts, Ends
  <2>9. QED
    BY <1>1, <1>2, <1>3, <1>4, <1>5, <2>2, <2>3, <2>8, <2>7, GoKeeps
<1>6. QED
  BY <1>2, <1>4, <1>5

\* A task stays as expected over StopLoad.
LEMMA StopLoadWorks ==
    ASSUME TaskTypes, TaskTypes', EntryInv, PauseInv, WorkInv, NEW x \in T!Handlers, T!StopLoad(x)
    PROVE  WorkInv'
<1>1. T!Step(x)
  BY DEF T!Step
<1>2. /\ tup /\ work[x].pc = "load"
      /\ UNCHANGED <<dbTasks, tunnel, runList, servers, tangled>>
  BY StopLoadDoes
<1>3. PICK u \in TaskIds : /\ u = work[x].task
                           /\ u \notin tangled =>
                                 AtWork(u, work[x]) /\ (Starting(u) => Tends(u, work[x]))
  BY <1>2, OwnTask
<1>4. PICK v \in Job : v = work[x] /\ v.task = u /\ v.pc = "load"
  BY <1>2, <1>3 DEF TaskTypes
<1>5. CASE runList[u] # T!None /\ work' = [work EXCEPT ![x] = Closes(v, runList[u])]
  <2>1. PICK w : w = Closes(v, runList[u])
    OBVIOUS
  <2>2. /\ w \in Job /\ w.pc = "close" /\ w.op = v.op /\ w.task = v.task
        /\ w.client = v.client /\ w.todo = v.todo /\ w.svr = runList[u]
    BY <1>4, <2>1, ClosesFacts DEF TaskTypes
  <2>3. work' = [work EXCEPT ![x] = w]
    BY <1>4, <1>5, <2>1 DEF Fate
  <2>8. u \notin tangled => AtWork(u, w) /\ (Starting(u) => Tends(u, w))
    BY <1>2, <1>3, <1>4, <1>5, <2>2 DEF AtWork, Steady, Tends
  <2>9. QED
    BY <1>1, <1>2, <1>3, <1>4, <1>5, <2>2, <2>3, <2>8, GoRests
<1>6. CASE runList[u] = T!None /\ v.op = "edit" /\ Fate(x, "find")
  <2>1. PICK w : w = Gone(v, "find")
    OBVIOUS
  <2>2. /\ w \in Job /\ w.pc = "find" /\ w.op = v.op /\ w.task = v.task
        /\ w.client = v.client /\ w.todo = v.todo
    BY <1>4, <2>1, GoneFacts DEF Pcs
  <2>3. work' = [work EXCEPT ![x] = w]
    BY <1>4, <1>6, <2>1 DEF Fate
  <2>8. u \notin tangled => AtWork(u, w) /\ (Starting(u) => Tends(u, w))
    BY <1>2, <1>3, <1>4, <1>6, <2>2, OffFacts, IdFacts DEF AtWork, Steady, Settled, Tends,
       Starts, Adds
  <2>9. QED
    BY <1>1, <1>2, <1>3, <1>4, <1>6, <2>2, <2>3, <2>8, GoRests
<1>7. CASE runList[u] = T!None /\ v.op # "edit" /\ Fate(x, "failed")
  <2>8. u \notin tangled => /\ Settled(u) /\ OwnPort(u)
                            /\ Starting(u) => work[x].op \notin {"delClient", "closeClient"}
    BY <1>2, <1>3, <1>4, <1>7, OffFacts, IdFacts DEF AtWork, Steady, Settled, Tends, Stops
  <2>9. QED
    BY <1>1, <1>2, <1>3, <1>7, <2>8, EndRests
<1>8. QED
  <2>1. \/ /\ runList[work[x].task] # T!None
           /\ work' = [work EXCEPT ![x] = Closes(work[x], runList[work[x].task])]
        \/ /\ runList[work[x].task] = T!None
           /\ Fate(x, IF work[x].op = "edit" THEN "find" ELSE "failed")
    BY StopLoadDoes
  <2>2. QED
    BY <1>3, <1>4, <2>1, <1>5, <1>6, <1>7

\* A task stays as expected over StopClose.
LEMMA StopCloseWorks ==
    ASSUME TaskTypes, TaskTypes', EntryInv, PauseInv, WorkInv, NEW x \in T!Handlers, T!StopClose(x)
    PROVE  WorkInv'
<1>1. T!Step(x)
  BY DEF T!Step
<1>2. /\ tup /\ work[x].pc = "close"
      /\ UNCHANGED <<dbTasks, tunnel, runList, tangled>>
  BY StopCloseDoes
<1>3. PICK u \in TaskIds : /\ u = work[x].task
                           /\ u \notin tangled =>
                                 AtWork(u, work[x]) /\ (Starting(u) => Tends(u, work[x]))
  BY <1>2, OwnTask
<1>4. PICK v \in Job : v = work[x] /\ v.task = u /\ v.pc = "close"
  BY <1>2, <1>3 DEF TaskTypes
<1>5. CASE v.svr = T!Secret /\ servers' = servers /\ Fate(x, "look")
  <2>1. PICK w : w = Gone(v, "look")
    OBVIOUS
  <2>2. /\ w \in Job /\ w.pc = "look" /\ w.op = v.op /\ w.task = v.task
        /\ w.client = v.client /\ w.todo = v.todo
    BY <1>4, <2>1, GoneFacts DEF Pcs
  <2>3. work' = [work EXCEPT ![x] = w]
    BY <1>4, <1>5, <2>1 DEF Fate
  <2>8. u \notin tangled => AtWork(u, w) /\ (Starting(u) => Tends(u, w))
    BY <1>2, <1>3, <1>4, <1>5, <2>2, OffFacts, IdFacts DEF AtWork, Steady, Settled, Tends
  <2>9. QED
    BY <1>1, <1>2, <1>3, <1>4, <1>5, <2>2, <2>3, <2>8, GoRests
<1>6. CASE /\ v.svr \in 1 .. Len(servers) /\ servers[v.svr].task = u /\ Fate(x, "look")
          /\ servers' = [servers EXCEPT ![v.svr] = [task |-> u, port |-> servers[v.svr].port,
                                                    state |-> "closed"]]
  <2>1. PICK w : w = Gone(v, "look")
    OBVIOUS
  <2>2. /\ w \in Job /\ w.pc = "look" /\ w.op = v.op /\ w.task = v.task
        /\ w.client = v.client /\ w.todo = v.todo
    BY <1>4, <2>1, GoneFacts DEF Pcs
  <2>3. work' = [work EXCEPT ![x] = w]
    BY <1>4, <1>6, <2>1 DEF Fate
  <2>4. PICK s \in 1 .. Len(servers) :
            /\ s = v.svr /\ servers[s].task = u
            /\ servers' = [servers EXCEPT ![s] = [task |-> servers[s].task, port |-> servers[s].port,
                                                  state |-> "closed"]]
    BY <1>6
  <2>5. /\ servers \in Seq(Server) /\ servers' \in Seq(Server) /\ servers[s].port \in Port
    <3>1. servers \in Seq(Server) /\ servers' \in Seq(Server)
      BY DEF TaskTypes
    <3>2. servers[s] \in Server
      BY <3>1, ElementOfSeq
    <3>3. QED
      BY <3>1, <3>2 DEF Server
  <2>6. /\ \A t : t # u => SameServers(servers, servers', t)
        /\ ListsOwn(servers, s, u) => NoneRuns(servers', u)
    <3>1. /\ \A t : t # servers[s].task => SameServers(servers, servers', t)
          /\ ListsOwn(servers, s, servers[s].task) => NoneRuns(servers', servers[s].task)
      BY <2>4, <2>5, MovedServer
    <3>2. QED
      BY <2>4, <3>1
  <2>7. \A t \in TaskIds : t # u => SameView(t)
    BY <1>2, <2>6 DEF SameView
  <2>10. u \notin tangled => NoServer(u)' /\ ~Starting(u)'
    <3>1. u \notin tangled => ListsOwn(servers, s, u)
      BY <1>3, <1>4, <2>4 DEF AtWork, Steady, Settled, Listed
    <3>2. NoneRuns(servers', u) => ~OneStarts(servers', u)
      BY DEF NoneRuns, Runs, OneStarts
    <3>3. QED
      BY <2>6, <3>1, <3>2 DEF NoServer, Starting
  <2>8. u \notin tangled => AtWork(u, w)' /\ (Starting(u)' => Tends(u, w))
    BY <1>2, <1>3, <1>4, <1>6, <2>2, <2>10 DEF AtWork, Tends
  <2>9. QED
    BY <1>1, <1>2, <1>3, <1>4, <1>6, <2>2, <2>3, <2>8, <2>7, GoKeeps
<1>7. CASE v.svr \in 1 .. Len(servers) /\ servers[v.svr].state # "open" /\ servers' = servers /\ Fate(x, "find")
  <2>1. PICK w : w = Gone(v, "find")
    OBVIOUS
  <2>2. /\ w \in Job /\ w.pc = "find" /\ w.op = v.op /\ w.task = v.task
        /\ w.client = v.client /\ w.todo = v.todo
    BY <1>4, <2>1, GoneFacts DEF Pcs
  <2>3. work' = [work EXCEPT ![x] = w]
    BY <1>4, <1>7, <2>1 DEF Fate
  <2>4. u \in tangled
    <3>1. SUFFICES ASSUME u \notin tangled PROVE FALSE
      OBVIOUS
    <3>2. v.svr = runList[u] /\ Listed(u) /\ ~Starting(u) /\ v.svr > 0
      BY <1>3, <1>4, <1>7, <3>1 DEF AtWork, Steady, Settled
    <3>3. QED
      BY <1>7, <3>2, ListedOpen
  <2>8. u \notin tangled => AtWork(u, w) /\ (Starting(u) => Tends(u, w))
    BY <1>2, <1>3, <1>4, <1>7, <2>2, <2>4 DEF AtWork, Tends
  <2>9. QED
    BY <1>1, <1>2, <1>3, <1>4, <1>7, <2>2, <2>3, <2>8, GoRests
<1>8. CASE v.svr \in 1 .. Len(servers) /\ servers[v.svr].state # "open" /\ servers' = servers /\ Fate(x, "failed")
  <2>4. u \in tangled
    <3>1. SUFFICES ASSUME u \notin tangled PROVE FALSE
      OBVIOUS
    <3>2. v.svr = runList[u] /\ Listed(u) /\ ~Starting(u) /\ v.svr > 0
      BY <1>3, <1>4, <1>8, <3>1 DEF AtWork, Steady, Settled
    <3>3. QED
      BY <1>8, <3>2, ListedOpen
  <2>8. u \notin tangled => /\ Settled(u) /\ OwnPort(u)
                            /\ Starting(u) => work[x].op \notin {"delClient", "closeClient"}
    BY <1>2, <1>3, <1>4, <1>8, <2>4 DEF AtWork, Tends, Settled
  <2>9. QED
    BY <1>1, <1>2, <1>3, <1>8, <2>8, EndRests
<1>9. QED
  <2>1. \/ work[x].svr = T!Secret /\ servers' = servers /\ Fate(x, "look")
        \/ /\ work[x].svr \in 1 .. Len(servers) /\ servers[work[x].svr].task = work[x].task
           /\ Fate(x, "look")
           /\ servers' = [servers EXCEPT ![work[x].svr] =
                            [task |-> work[x].task, port |-> servers[work[x].svr].port,
                             state |-> "closed"]]
        \/ /\ work[x].svr \in 1 .. Len(servers) /\ servers[work[x].svr].state # "open"
           /\ servers' = servers /\ Fate(x, IF work[x].op = "edit" THEN "find" ELSE "failed")
    BY StopCloseDoes
  <2>2. QED
    BY <1>3, <1>4, <2>1, <1>5, <1>6, <1>7, <1>8

\* A task stays as expected over StopLook.
LEMMA StopLookWorks ==
    ASSUME TaskTypes, TaskTypes', EntryInv, PauseInv, WorkInv, NEW x \in T!Handlers, T!StopLook(x)
    PROVE  WorkInv'
<1>1. T!Step(x)
  BY DEF T!Step
<1>2. /\ tup /\ work[x].pc = "look"
      /\ UNCHANGED <<dbTasks, tunnel, runList, servers, tangled>>
  BY StopLookDoes
<1>3. PICK u \in TaskIds : /\ u = work[x].task
                           /\ u \notin tangled =>
                                 AtWork(u, work[x]) /\ (Starting(u) => Tends(u, work[x]))
  BY <1>2, OwnTask
<1>4. PICK v \in Job : v = work[x] /\ v.task = u /\ v.pc = "look"
  BY <1>2, <1>3 DEF TaskTypes
<1>5. CASE u \in dbTasks /\ Fate(x, "unset")
  <2>1. PICK w : w = Gone(v, "unset")
    OBVIOUS
  <2>2. /\ w \in Job /\ w.pc = "unset" /\ w.op = v.op /\ w.task = v.task
        /\ w.client = v.client /\ w.todo = v.todo
    BY <1>4, <2>1, GoneFacts DEF Pcs
  <2>3. work' = [work EXCEPT ![x] = w]
    BY <1>4, <1>5, <2>1 DEF Fate
  <2>8. u \notin tangled => AtWork(u, w) /\ (Starting(u) => Tends(u, w))
    BY <1>2, <1>3, <1>4, <1>5, <2>2 DEF AtWork, Tends
  <2>9. QED
    BY <1>1, <1>2, <1>3, <1>4, <1>5, <2>2, <2>3, <2>8, GoRests
<1>6. CASE u \notin dbTasks /\ Fate(x, "find")
  <2>1. PICK w : w = Gone(v, "find")
    OBVIOUS
  <2>2. /\ w \in Job /\ w.pc = "find" /\ w.op = v.op /\ w.task = v.task
        /\ w.client = v.client /\ w.todo = v.todo
    BY <1>4, <2>1, GoneFacts DEF Pcs
  <2>3. work' = [work EXCEPT ![x] = w]
    BY <1>4, <1>6, <2>1 DEF Fate
  <2>8. u \notin tangled => AtWork(u, w) /\ (Starting(u) => Tends(u, w))
    BY <1>2, <1>3, <1>4, <1>6, <2>2 DEF AtWork
  <2>9. QED
    BY <1>1, <1>2, <1>3, <1>4, <1>6, <2>2, <2>3, <2>8, GoRests
<1>7. CASE u \notin dbTasks /\ Fate(x, "failed")
  <2>8. u \notin tangled => /\ Settled(u) /\ OwnPort(u)
                            /\ Starting(u) => work[x].op \notin {"delClient", "closeClient"}
    BY <1>2, <1>3, <1>4, <1>7 DEF AtWork
  <2>9. QED
    BY <1>1, <1>2, <1>3, <1>7, <2>8, EndRests
<1>8. QED
  <2>1. \/ work[x].task \in dbTasks /\ Fate(x, "unset")
        \/ work[x].task \notin dbTasks /\ Fate(x, IF work[x].op = "edit" THEN "find" ELSE "failed")
    BY StopLookDoes
  <2>2. QED
    BY <1>3, <2>1, <1>5, <1>6, <1>7

\* A task stays as expected over Stopped.
LEMMA StoppedWorks ==
    ASSUME TaskTypes, TaskTypes', EntryInv, PauseInv, WorkInv, NEW x \in T!Handlers, T!Stopped(x)
    PROVE  WorkInv'
<1>1. T!Step(x)
  BY DEF T!Step
<1>2. /\ tup /\ work[x].pc = "unset"
      /\ UNCHANGED <<runList, servers, tangled>>
      /\ work' = [work EXCEPT ![x] = Saves(work[x], "unlist")]
      /\ tunnel' = [tunnel EXCEPT ![work[x].task].status = FALSE]
      /\ dbTasks' = dbTasks \cup {work[x].task}
  BY StoppedDoes
<1>3. PICK u \in TaskIds : /\ u = work[x].task
                           /\ u \notin tangled =>
                                 AtWork(u, work[x]) /\ (Starting(u) => Tends(u, work[x]))
  BY <1>2, OwnTask
<1>4. PICK v \in Job : v = work[x] /\ v.task = u /\ v.pc = "unset"
  BY <1>2, <1>3 DEF TaskTypes
<1>5. CASE work' = [work EXCEPT ![x] = Saves(v, "unlist")]
  <2>1. PICK w : w = Saves(v, "unlist")
    OBVIOUS
  <2>2. /\ w \in Job /\ w.pc = "save" /\ w.op = v.op /\ w.task = v.task
        /\ w.client = v.client /\ w.todo = v.todo /\ w.then = "unlist"
    BY <1>4, <2>1, SavesFacts
  <2>3. work' = [work EXCEPT ![x] = w]
    BY <1>4, <1>5, <2>1 DEF Fate
  <2>4. /\ tunnel'[u].status = FALSE /\ tunnel'[u].port = tunnel[u].port
        /\ \A t \in TaskIds : t # u => tunnel'[t] = tunnel[t]
    BY <1>2, <1>3 DEF TaskTypes, Tunnel
  <2>5. /\ Listed(u) => Listed(u)'
        /\ NoServer(u) => NoServer(u)'
        /\ OwnPort(u) => OwnPort(u)'
        /\ Starting(u)' => Starting(u)
    BY <1>2, <2>4 DEF Listed, NoServer, OwnPort, Starting
  <2>6. Len(servers) \in Nat
    BY LenProperties DEF TaskTypes
  <2>7. \A t \in TaskIds : t # u => SameView(t)
    BY <1>2, <1>3, <2>4, <2>6 DEF SameView, SameServers
  <2>8. u \notin tangled => AtWork(u, w)' /\ (Starting(u)' => Tends(u, w))
    BY <1>2, <1>3, <1>4, <1>5, <2>2, <2>4, <2>5, OffFacts DEF AtWork, Saving, Tends
  <2>9. QED
    BY <1>1, <1>2, <1>3, <1>4, <1>5, <2>2, <2>3, <2>8, <2>7, GoKeeps
<1>6. QED
  BY <1>2, <1>4, <1>5

\* A task stays as expected over Unlist.
LEMMA UnlistWorks ==
    ASSUME TaskTypes, TaskTypes', EntryInv, PauseInv, WorkInv, NEW x \in T!Handlers, T!Unlist(x)
    PROVE  WorkInv'
<1>1. T!Step(x)
  BY DEF T!Step
<1>2. /\ tup /\ work[x].pc = "unlist"
      /\ UNCHANGED <<dbTasks, tunnel, servers, tangled>>
      /\ runList' = [runList EXCEPT ![work[x].task] = T!None]
  BY UnlistDoes
<1>3. PICK u \in TaskIds : /\ u = work[x].task
                           /\ u \notin tangled =>
                                 AtWork(u, work[x]) /\ (Starting(u) => Tends(u, work[x]))
  BY <1>2, OwnTask
<1>4. PICK v \in Job : v = work[x] /\ v.task = u /\ v.pc = "unlist"
  BY <1>2, <1>3 DEF TaskTypes
<1>5. /\ \A t \in TaskIds : t # u => SameView(t)
      /\ u \notin tangled => /\ NoServer(u)' /\ Off(u)' /\ Listed(u)' /\ Settled(u)'
                             /\ OwnPort(u)' /\ ~Starting(u)' 
  <2>1. runList'[u] = T!None
    BY <1>2, <1>3 DEF TaskTypes
  <2>2. u \notin tangled => NoServer(u)
    BY <1>3, <1>4 DEF AtWork
  <2>3. NoServer(u) => NoServer(u)' /\ Off(u)'
    BY <1>2, <2>1 DEF NoServer, Off
  <2>4. Off(u)' => Listed(u)' /\ OwnPort(u)' /\ ~Starting(u)' /\ Settled(u)'
    <3>1. servers' \in Seq(Server) /\ runList'[u] \in Int /\ runList'[u] <= 0
      BY <2>1, IdFacts DEF TaskTypes
    <3>2. Off(u)' => Listed(u)' /\ OwnPort(u)' /\ ~Starting(u)'
      BY <3>1, RunFacts DEF Off, NoServer, Starting, OwnPort, Listed
    <3>3. QED
      BY <2>1, <3>2 DEF Settled
  <2>5. QED
    BY <1>2, <1>3, <2>2, <2>3, <2>4, ChangedEntry
<1>6. CASE v.op = "stop" /\ Fate(x, "done")
  <2>7. \A t \in TaskIds : t # u => SameView(t)
    BY <1>5
  <2>8. u \notin tangled => /\ Settled(u)' /\ OwnPort(u)'
                            /\ Starting(u)' => work[x].op \notin {"delClient", "closeClient"}
    BY <1>2, <1>3, <1>4, <1>6, <1>5 DEF AtWork
  <2>9. QED
    BY <1>1, <1>2, <1>3, <1>6, <2>8, <2>7, EndKeeps
<1>7. CASE v.op = "edit" /\ Fate(x, "find")
  <2>1. PICK w : w = Gone(v, "find")
    OBVIOUS
  <2>2. /\ w \in Job /\ w.pc = "find" /\ w.op = v.op /\ w.task = v.task
        /\ w.client = v.client /\ w.todo = v.todo
    BY <1>4, <2>1, GoneFacts DEF Pcs
  <2>3. work' = [work EXCEPT ![x] = w]
    BY <1>4, <1>7, <2>1 DEF Fate
  <2>7. \A t \in TaskIds : t # u => SameView(t)
    BY <1>5
  <2>8. u \notin tangled => AtWork(u, w)' /\ (Starting(u)' => Tends(u, w))
    BY <1>2, <1>3, <1>4, <1>7, <2>2, <1>5 DEF AtWork, Tends, Starts, Adds
  <2>9. QED
    BY <1>1, <1>2, <1>3, <1>4, <1>7, <2>2, <2>3, <2>8, <2>7, GoKeeps
<1>8. CASE v.op \notin {"stop", "edit"} /\ Fate(x, "remove")
  <2>1. PICK w : w = Gone(v, "remove")
    OBVIOUS
  <2>2. /\ w \in Job /\ w.pc = "remove" /\ w.op = v.op /\ w.task = v.task
        /\ w.client = v.client /\ w.todo = v.todo
    BY <1>4, <2>1, GoneFacts DEF Pcs
  <2>3. work' = [work EXCEPT ![x] = w]
    BY <1>4, <1>8, <2>1 DEF Fate
  <2>7. \A t \in TaskIds : t # u => SameView(t)
    BY <1>5
  <2>8. u \notin tangled => AtWork(u, w)' /\ (Starting(u)' => Tends(u, w))
    BY <1>2, <1>3, <1>4, <1>8, <2>2, <1>5 DEF AtWork, Tends, Stops
  <2>9. QED
    BY <1>1, <1>2, <1>3, <1>4, <1>8, <2>2, <2>3, <2>8, <2>7, GoKeeps
<1>9. QED
  <2>1. \/ work[x].op = "stop" /\ Fate(x, "done")
        \/ work[x].op = "edit" /\ Fate(x, "find")
        \/ work[x].op \notin {"stop", "edit"} /\ Fate(x, "remove")
    BY UnlistDoes
  <2>2. QED
    BY <1>4, <2>1, <1>6, <1>7, <1>8

\* A task stays as expected over DelLoad.
LEMMA DelLoadWorks ==
    ASSUME TaskTypes, TaskTypes', EntryInv, PauseInv, WorkInv, NEW x \in T!Handlers, T!DelLoad(x)
    PROVE  WorkInv'
<1>1. T!Step(x)
  BY DEF T!Step
<1>2. /\ tup /\ work[x].pc = "listed"
      /\ UNCHANGED <<dbTasks, tunnel, runList, servers, tangled>>
  BY DelLoadDoes
<1>3. PICK u \in TaskIds : /\ u = work[x].task
                           /\ u \notin tangled =>
                                 AtWork(u, work[x]) /\ (Starting(u) => Tends(u, work[x]))
  BY <1>2, OwnTask
<1>4. PICK v \in Job : v = work[x] /\ v.task = u /\ v.pc = "listed"
  BY <1>2, <1>3 DEF TaskTypes
<1>5. CASE runList[u] # T!None /\ Fate(x, "load")
  <2>1. PICK w : w = Gone(v, "load")
    OBVIOUS
  <2>2. /\ w \in Job /\ w.pc = "load" /\ w.op = v.op /\ w.task = v.task
        /\ w.client = v.client /\ w.todo = v.todo
    BY <1>4, <2>1, GoneFacts DEF Pcs
  <2>3. work' = [work EXCEPT ![x] = w]
    BY <1>4, <1>5, <2>1 DEF Fate
  <2>8. u \notin tangled => AtWork(u, w) /\ (Starting(u) => Tends(u, w))
    BY <1>2, <1>3, <1>4, <1>5, <2>2 DEF AtWork, Steady, Settled, Tends, Stops
  <2>9. QED
    BY <1>1, <1>2, <1>3, <1>4, <1>5, <2>2, <2>3, <2>8, GoRests
<1>6. CASE runList[u] = T!None /\ Fate(x, "remove")
  <2>1. PICK w : w = Gone(v, "remove")
    OBVIOUS
  <2>2. /\ w \in Job /\ w.pc = "remove" /\ w.op = v.op /\ w.task = v.task
        /\ w.client = v.client /\ w.todo = v.todo
    BY <1>4, <2>1, GoneFacts DEF Pcs
  <2>3. work' = [work EXCEPT ![x] = w]
    BY <1>4, <1>6, <2>1 DEF Fate
  <2>8. u \notin tangled => AtWork(u, w) /\ (Starting(u) => Tends(u, w))
    BY <1>2, <1>3, <1>4, <1>6, <2>2, OffFacts, IdFacts DEF AtWork, Steady, Settled, Tends, Off
  <2>9. QED
    BY <1>1, <1>2, <1>3, <1>4, <1>6, <2>2, <2>3, <2>8, GoRests
<1>7. QED
  <2>1. \/ runList[work[x].task] # T!None /\ Fate(x, "load")
        \/ runList[work[x].task] = T!None /\ Fate(x, "remove")
    BY DelLoadDoes
  <2>2. QED
    BY <1>3, <2>1, <1>5, <1>6

\* A task stays as expected over Remove.
LEMMA RemoveWorks ==
    ASSUME TaskTypes, TaskTypes', EntryInv, PauseInv, WorkInv, NEW x \in T!Handlers, T!Remove(x)
    PROVE  WorkInv'
<1>1. T!Step(x)
  BY DEF T!Step
<1>2. /\ tup /\ work[x].pc = "remove"
      /\ UNCHANGED <<tunnel, runList, servers, tangled>>
      /\ work' = [work EXCEPT ![x] = Saves(work[x], "done")]
      /\ dbTasks' = dbTasks \ {work[x].task}
  BY RemoveDoes
<1>3. PICK u \in TaskIds : /\ u = work[x].task
                           /\ u \notin tangled =>
                                 AtWork(u, work[x]) /\ (Starting(u) => Tends(u, work[x]))
  BY <1>2, OwnTask
<1>4. PICK v \in Job : v = work[x] /\ v.task = u /\ v.pc = "remove"
  BY <1>2, <1>3 DEF TaskTypes
<1>5. CASE work' = [work EXCEPT ![x] = Saves(v, "done")]
  <2>1. PICK w : w = Saves(v, "done")
    OBVIOUS
  <2>2. /\ w \in Job /\ w.pc = "save" /\ w.op = v.op /\ w.task = v.task
        /\ w.client = v.client /\ w.todo = v.todo /\ w.then = "done"
    BY <1>4, <2>1, SavesFacts
  <2>3. work' = [work EXCEPT ![x] = w]
    BY <1>4, <1>5, <2>1 DEF Fate
  <2>4. /\ Off(u) => Off(u)'
        /\ Starting(u)' => Starting(u)
    BY <1>2 DEF Off, NoServer, Starting
  <2>5. Len(servers) \in Nat
    BY LenProperties DEF TaskTypes
  <2>7. \A t \in TaskIds : t # u => SameView(t)
    BY <1>2, <1>3, <2>5 DEF SameView, SameServers
  <2>8. u \notin tangled => AtWork(u, w)' /\ (Starting(u)' => Tends(u, w))
    BY <1>2, <1>3, <1>4, <1>5, <2>2, <2>4, OffFacts DEF AtWork, Saving, Tends, Starts, Ends
  <2>9. QED
    BY <1>1, <1>2, <1>3, <1>4, <1>5, <2>2, <2>3, <2>8, <2>7, GoKeeps
<1>6. QED
  BY <1>2, <1>4, <1>5

\* A task stays as expected over Create.
LEMMA CreateWorks ==
    ASSUME TaskTypes, TaskTypes', EntryInv, PauseInv, WorkInv, NEW x \in T!Handlers, T!Create(x)
    PROVE  WorkInv'
<1>1. T!Step(x)
  BY DEF T!Step
<1>2. /\ tup /\ work[x].pc = "create"
      /\ UNCHANGED <<tunnel, runList, servers, tangled>>
      /\ \/ work[x].op = "config" /\ work' = [work EXCEPT ![x] = Saves(work[x], "try")]
         \/ work[x].op # "config" /\ work' = [work EXCEPT ![x] = Saves(work[x], "add")]
      /\ dbTasks' = dbTasks \cup {work[x].task}
  BY CreateDoes
<1>3. PICK u \in TaskIds : /\ u = work[x].task
                           /\ u \notin tangled =>
                                 AtWork(u, work[x]) /\ (Starting(u) => Tends(u, work[x]))
  BY <1>2, OwnTask
<1>4. PICK v \in Job : v = work[x] /\ v.task = u /\ v.pc = "create"
  BY <1>2, <1>3 DEF TaskTypes
<1>5. CASE v.op = "config" /\ work' = [work EXCEPT ![x] = Saves(v, "try")]
  <2>1. PICK w : w = Saves(v, "try")
    OBVIOUS
  <2>2. /\ w \in Job /\ w.pc = "save" /\ w.op = v.op /\ w.task = v.task
        /\ w.client = v.client /\ w.todo = v.todo /\ w.then = "try"
    BY <1>4, <2>1, SavesFacts
  <2>3. work' = [work EXCEPT ![x] = w]
    BY <1>4, <1>5, <2>1 DEF Fate
  <2>4. /\ Off(u) => Off(u)'
        /\ Starting(u)' => Starting(u)
    BY <1>2 DEF Off, NoServer, Starting
  <2>5. Len(servers) \in Nat
    BY LenProperties DEF TaskTypes
  <2>7. \A t \in TaskIds : t # u => SameView(t)
    BY <1>2, <1>3, <2>5 DEF SameView, SameServers
  <2>8. u \notin tangled => AtWork(u, w)' /\ (Starting(u)' => Tends(u, w))
    BY <1>2, <1>3, <1>4, <1>5, <2>2, <2>4, OffFacts DEF AtWork, Saving, Tends
  <2>9. QED
    BY <1>1, <1>2, <1>3, <1>4, <1>5, <2>2, <2>3, <2>8, <2>7, GoKeeps
<1>6. CASE v.op # "config" /\ work' = [work EXCEPT ![x] = Saves(v, "add")]
  <2>1. PICK w : w = Saves(v, "add")
    OBVIOUS
  <2>2. /\ w \in Job /\ w.pc = "save" /\ w.op = v.op /\ w.task = v.task
        /\ w.client = v.client /\ w.todo = v.todo /\ w.then = "add"
    BY <1>4, <2>1, SavesFacts
  <2>3. work' = [work EXCEPT ![x] = w]
    BY <1>4, <1>6, <2>1 DEF Fate
  <2>4. /\ Off(u) => Off(u)'
        /\ Starting(u)' => Starting(u)
    BY <1>2 DEF Off, NoServer, Starting
  <2>5. Len(servers) \in Nat
    BY LenProperties DEF TaskTypes
  <2>7. \A t \in TaskIds : t # u => SameView(t)
    BY <1>2, <1>3, <2>5 DEF SameView, SameServers
  <2>8. u \notin tangled => AtWork(u, w)' /\ (Starting(u)' => Tends(u, w))
    BY <1>2, <1>3, <1>4, <1>6, <2>2, <2>4, OffFacts DEF AtWork, Saving, Tends
  <2>9. QED
    BY <1>1, <1>2, <1>3, <1>4, <1>6, <2>2, <2>3, <2>8, <2>7, GoKeeps
<1>7. QED
  BY <1>2, <1>4, <1>5, <1>6

\* A task stays as expected over SaveClients.
LEMMA SaveClientsWorks ==
    ASSUME TaskTypes, TaskTypes', EntryInv, PauseInv, WorkInv, NEW x \in T!Handlers, T!SaveClients(x)
    PROVE  WorkInv'
<1>1. /\ tup /\ work[x].pc = "saveClients" /\ Fate(x, work[x].then)
      /\ UNCHANGED <<dbTasks, tunnel, runList, servers, tangled>>
  BY SaveClientsDoes
<1>2. PICK v \in Job : v = work[x] /\ v.task = 0 /\ v.then \in {"done", "range"}
  BY <1>1 DEF TaskTypes, PauseInv, PauseAt
<1>3. PICK w : w = Gone(v, v.then)
  OBVIOUS
<1>4. w \in Job /\ Follows(v, w)
  BY <1>2, <1>3, GoneFollows DEF Pcs
<1>5. work' = [work EXCEPT ![x] = w]
  BY <1>1, <1>2, <1>3 DEF Fate
<1>6. \A u \in TaskIds : u # work[x].task
  BY <1>2, IdFacts
<1>7. QED
  BY <1>1, <1>2, <1>4, <1>5, <1>6, StepRests

\* A task stays as expected over StopPanics.
LEMMA StopPanicsWorks ==
    ASSUME TaskTypes, TaskTypes', EntryInv, PauseInv, WorkInv, NEW x \in T!Handlers, T!StopPanics(x)
    PROVE  WorkInv'
<1>1. /\ tup /\ work[x].pc = "close" /\ work' = [work EXCEPT ![x] = T!Idle]
      /\ UNCHANGED <<dbTasks, tunnel, runList, servers>> /\ tangled \subseteq tangled'
      /\ work[x].svr # T!Secret /\ servers[work[x].svr].state \in {"new", "failed"}
  BY StopPanicsDoes
<1>2. ASSUME NEW u \in TaskIds, u \notin tangled', u = work[x].task PROVE FALSE
  <2>1. AtWork(u, work[x])
    BY <1>1, <1>2, OwnTask
  <2>2. work[x].svr = runList[u] /\ Listed(u) /\ ~Starting(u) /\ runList[u] # T!None
    BY <1>1, <2>1 DEF AtWork, Steady, Settled
  <2>3. runList[u] > 0
    BY <1>1, <2>2, IdFacts DEF TaskTypes
  <2>4. servers[runList[u]].state = "open"
    BY <2>2, <2>3, ListedOpen
  <2>5. QED
    BY <1>1, <2>2, <2>4
<1>3. T!Idle \in Job /\ Follows(work[x], T!Idle)
  BY IdleFacts DEF Follows
<1>4. QED
  BY <1>1, <1>2, <1>3, StepRests

\* A task stays as expected over TryPort.
LEMMA TryPortWorks ==
    ASSUME TaskTypes, TaskTypes', EntryInv, PauseInv, WorkInv, NEW x \in T!Handlers, T!TryPort(x)
    PROVE  WorkInv'
<1>1. /\ tup /\ work[x].pc = "try"
      /\ UNCHANGED <<dbTasks, tunnel, runList, servers, tangled>>
  BY TryPortDoes
<1>2. PICK u \in TaskIds : u = work[x].task /\ (u \notin tangled => AtWork(u, work[x]))
  BY <1>1, OwnTask
<1>3. u \notin tangled => /\ u \in dbTasks /\ Off(u) /\ tunnel[u].status
                          /\ Settled(u) /\ OwnPort(u) /\ ~Starting(u) /\ Listed(u)
  BY <1>1, <1>2, OffFacts DEF AtWork
<1>4. T!Bridge \in T!Handlers /\ T!Idle \in Job /\ T!Idle.pc = "idle"
  BY IdFacts, IdleFacts
<1>5. CASE work' = [work EXCEPT ![x] = T!Idle]
  <2>1. Follows(work[x], T!Idle) /\ \A t : Leaving(t, T!Idle) /\ Quiet(t, T!Idle)
    BY <1>4 DEF Follows, Leaving, Quiet
  <2>2. QED
    BY <1>1, <1>2, <1>3, <1>4, <1>5, <2>1, StepRests
<1>6. ASSUME NEW w \in {OnOpen(u), OnStart(u)}, work[T!Bridge].pc = "idle",
             work' = [work EXCEPT ![x] = T!Idle, ![T!Bridge] = w]
      PROVE  WorkInv'
  <2>1. /\ w \in Job /\ w.task = u /\ w.todo = {}
        /\ \/ w.op = "open" /\ w.pc = "add"
           \/ w.op = "start" /\ w.pc = "find"
    BY <1>6, OnOpenFacts
  <2>2. /\ x # T!Bridge /\ work'[x] = T!Idle /\ work'[T!Bridge] = w
        /\ \A y \in T!Handlers : y \notin {x, T!Bridge} => work'[y] = work[y]
    <3>1. x # T!Bridge
      BY <1>1, <1>6
    <3>2. work \in [T!Handlers -> Job]
      BY DEF TaskTypes
    <3>3. QED
      BY <1>4, <1>6, <3>1, <3>2
  <2>3. ASSUME NEW t \in TaskIds, t \notin tangled' PROVE Alone(t)' /\ StateAt(t)'
    <3>1. t \notin tangled /\ Alone(t) /\ StateAt(t) /\ SameView(t)
      BY <1>1, <2>3, AllSame DEF WorkInv
    <3>2. CASE t # u
      <4>1. Aside(x, t)
        BY <1>2, <1>4, <2>2, <3>2 DEF Aside, On, Touches
      <4>2. Aside(T!Bridge, t)
        BY <1>6, <2>1, <2>2, <3>2 DEF Aside, On, Touches
      <4>3. QED
        BY <2>2, <3>1, <4>1, <4>2, Keep
    <3>3. CASE t = u
      <4>1. \A y \in T!Handlers : y # x => ~Touches(work[y], tunnel[t], t)
        BY <1>1, <1>2, <3>1, <3>3, WorkFacts
      <4>2. \A y \in T!Handlers : y # T!Bridge => ~Touches(work'[y], tunnel'[t], t)
        BY <1>1, <1>4, <2>2, <4>1 DEF Touches
      <4>3. ~Starting(t)'
        BY <1>3, <3>1, <3>3, ViewKept
      <4>4. AtWork(t, w)
        BY <1>3, <2>1, <3>1, <3>3 DEF AtWork, Starts, Adds
      <4>5. AtWork(t, w)'
        BY <3>1, <4>4, WorkKept
      <4>6. Waits(t, w)'
        BY <2>1 DEF Waits
      <4>7. QED
        BY <1>4, <2>1, <2>2, <3>3, <4>2, <4>3, <4>5, <4>6, Hold
    <3>4. QED
      BY <3>2, <3>3
  <2>4. QED
    BY <2>3 DEF WorkInv
<1>7. QED
  BY <1>2, <1>5, <1>6, TryPortDoes

\* A task stays as expected over Range.
LEMMA RangeWorks ==
    ASSUME TaskTypes, TaskTypes', EntryInv, PauseInv, WorkInv, NEW x \in T!Handlers, T!Range(x)
    PROVE  WorkInv'
<1>1. /\ tup /\ work[x].pc = "range" /\ OfClient(work[x]) \in SUBSET TaskIds
      /\ UNCHANGED <<dbTasks, tunnel, runList, servers, tangled>>
      /\ work' = [work EXCEPT ![x] = Ranges(work[x], OfClient(work[x]))]
  BY RangeDoes
<1>2. PICK v \in Job : v = work[x] /\ v.task = 0 /\ v.op \in {"delClient", "closeClient"}
  BY <1>1 DEF TaskTypes, PauseInv, PauseAt
<1>3. PICK w : w = Ranges(v, OfClient(v))
  OBVIOUS
<1>4. /\ w.todo = OfClient(v) /\ w.op = v.op /\ w.task = 0 /\ w.client = v.client
  BY <1>1, <1>2, <1>3, RangesFacts
<1>5. work'[x] = w /\ \A y \in T!Handlers : y # x => work'[y] = work[y]
  BY <1>1, <1>2, <1>3 DEF TaskTypes
<1>6. ASSUME NEW t \in TaskIds PROVE Aside(x, t)
  <2>1. t # 0
    BY IdFacts
  <2>2. t \in w.todo => /\ tunnel[t].client = v.client
                        /\ v.op = "closeClient" => tunnel[t].noStore
    BY <1>4 DEF OfClient
  <2>3. QED
    BY <1>1, <1>2, <1>4, <1>5, <2>1, <2>2 DEF Aside, On, Touches
<1>7. ASSUME NEW t \in TaskIds, t \notin tangled' PROVE Alone(t)' /\ StateAt(t)'
  <2>1. t \notin tangled /\ Alone(t) /\ StateAt(t) /\ SameView(t)
    BY <1>1, <1>7, AllSame DEF WorkInv
  <2>2. QED
    BY <1>5, <1>6, <2>1, Keep
<1>8. QED
  BY <1>7 DEF WorkInv

\* A task stays as expected over NextTask.
LEMMA NextTaskWorks ==
    ASSUME TaskTypes, TaskTypes', EntryInv, PauseInv, WorkInv, NEW x \in T!Handlers, T!NextTask(x)
    PROVE  WorkInv'
<1>1. /\ tup /\ work[x].pc = "next"
      /\ UNCHANGED <<dbTasks, tunnel, runList, servers, tangled>>
  BY NextTaskDoes
<1>2. PICK v \in Job : v = work[x] /\ v.task = 0 /\ v.op \in {"delClient", "closeClient", "boot"}
  BY <1>1 DEF TaskTypes, PauseInv, PauseAt
<1>3. CASE work' = [work EXCEPT ![x] = T!Idle]
  <2>1. T!Idle \in Job /\ Follows(work[x], T!Idle)
    BY IdleFacts DEF Follows
  <2>2. \A u \in TaskIds : u # work[x].task
    BY <1>2, IdFacts
  <2>3. QED
    BY <1>1, <1>3, <2>1, <2>2, StepRests
<1>4. ASSUME NEW u \in TaskIds, u \in v.todo, work' = [work EXCEPT ![x] = T!TakesUp(v, u)]
      PROVE  WorkInv'
  <2>1. PICK w : w = T!TakesUp(v, u)
    OBVIOUS
  <2>2. /\ w.task = u /\ w.todo = v.todo \ {u} /\ w.op = v.op /\ w.client = v.client
        /\ v.op = "boot" => w.pc = "add"
        /\ v.op # "boot" => w.pc = "listed"
    BY <2>1, TakenUp
  <2>3. work'[x] = w /\ \A y \in T!Handlers : y # x => work'[y] = work[y]
    BY <1>4, <2>1 DEF TaskTypes
  <2>4. ASSUME NEW t \in TaskIds, t \notin tangled' PROVE Alone(t)' /\ StateAt(t)'
    <3>1. t \notin tangled /\ Alone(t) /\ StateAt(t) /\ SameView(t)
      BY <1>1, <2>4, AllSame DEF WorkInv
    <3>2. t # 0
      BY IdFacts
    <3>3. CASE t # u
      <4>1. Aside(x, t)
        BY <1>1, <1>2, <2>2, <2>3, <3>2, <3>3 DEF Aside, On, Touches
      <4>2. QED
        BY <2>3, <3>1, <4>1, Keep
    <3>4. CASE t = u
      <4>1. Touches(work[x], tunnel[t], t)
        BY <1>1, <1>2, <1>4, <3>4 DEF Touches
      <4>2. \A y \in T!Handlers : y # x => ~Touches(work[y], tunnel[t], t)
        BY <3>1, <4>1 DEF Alone
      <4>3. ~Starting(t)
        BY <1>2, <3>1, <3>2, <4>1 DEF Alone, Tends
      <4>4. AtWork(t, w)
        <5>1. CASE v.op = "boot"
          <6>1. t \in dbTasks /\ tunnel[t].status /\ Off(t)
            BY <1>1, <1>2, <1>4, <3>1, <3>4, <5>1 DEF StateAt, Waits
          <6>2. Listed(t) /\ OwnPort(t)
            BY <6>1, OffFacts
          <6>3. QED
            BY <2>2, <3>4, <4>3, <5>1, <6>1, <6>2 DEF AtWork, Adds, Starts
        <5>2. CASE v.op # "boot"
          <6>1. \A y \in T!Handlers : ~On(y, t)
            BY <1>2, <3>2, <4>2 DEF On, Touches
          <6>2. Settled(t) /\ OwnPort(t)
            BY <3>1, <6>1 DEF StateAt
          <6>3. QED
            BY <1>2, <2>2, <3>4, <4>3, <5>2, <6>2 DEF AtWork, Ends, Steady
        <5>3. QED
          BY <5>1, <5>2
      <4>5. AtWork(t, w)' /\ ~Starting(t)'
        BY <3>1, <4>3, <4>4, WorkKept, ViewKept
      <4>6. Waits(t, w)'
        BY <2>2, <3>4 DEF Waits
      <4>7. \A y \in T!Handlers : y # x => ~Touches(work'[y], tunnel'[t], t)
        BY <1>1, <2>3, <4>2
      <4>8. w.pc # "idle" /\ w.task = t
        BY <2>2, <3>4
      <4>9. QED
        BY <2>3, <4>5, <4>6, <4>7, <4>8, Hold
    <3>5. QED
      BY <3>3, <3>4
  <2>5. QED
    BY <2>4 DEF WorkInv
<1>5. QED
  BY <1>2, <1>3, <1>4, NextTaskDoes

\* A task stays as expected over every step of a request.
LEMMA StepWorks ==
    ASSUME TaskTypes, TaskTypes', EntryInv, PauseInv, WorkInv, NEW x \in T!Handlers, T!Step(x)
    PROVE  WorkInv'
  BY SaveWorks, SaveClientsWorks, AddTaskWorks, ListServerWorks, FindToStartWorks, StartedWorks,
     StopLoadWorks, StopCloseWorks, StopPanicsWorks, StopLookWorks, StoppedWorks, UnlistWorks,
     DelLoadWorks, RemoveWorks, CreateWorks, TryPortWorks, RangeWorks, NextTaskWorks
     DEF T!Step

\* A task that nobody works on.
LEMMA Unbusy ==
    ASSUME TaskTypes, WorkInv, tup, NEW t \in TaskIds, t \notin tangled, ~T!Busy(t)
    PROVE  /\ \A y \in T!Handlers : ~Touches(work[y], tunnel[t], t)
           /\ ~Starting(t) /\ Settled(t) /\ OwnPort(t) /\ Listed(t)
<1>1. \A y \in T!Handlers : ~Touches(work[y], tunnel[t], t)
  BY DEF T!Busy, T!Works, Touches
<1>2. ~Starting(t)
  BY DEF T!Busy, T!Starting, Starting, OneStarts
<1>3. \A y \in T!Handlers : ~On(y, t)
  BY <1>1 DEF On, Touches
<1>4. Settled(t) /\ OwnPort(t)
  BY <1>3 DEF WorkInv, StateAt
<1>5. QED
  BY <1>1, <1>2, <1>4 DEF Settled

\* A task stays as expected over Listen.
LEMMA ListenWorks ==
    ASSUME TaskTypes, TaskTypes', WorkInv, NEW s \in 1 .. Len(servers), T!Listen(s)
    PROVE  WorkInv'
<1>1. /\ UNCHANGED <<dbTasks, tunnel, work, tangled>>
      /\ tup /\ servers[s].state = "new" /\ servers[s] \in Server
  BY ListenDoes
<1>2. PICK u \in TaskIds : u = servers[s].task
  BY <1>1 DEF Server
<1>3. /\ servers \in Seq(Server) /\ servers' \in Seq(Server) /\ Len(servers) \in Nat
      /\ servers[s].port \in Port /\ tunnel[u].port \in Port
      /\ runList[u] \in Int /\ runList'[u] \in Int
  <2>1. servers \in Seq(Server) /\ servers' \in Seq(Server) /\ tunnel[u] \in Tunnel
    BY DEF TaskTypes
  <2>2. QED
    BY <1>1, <2>1, LenProperties, IdFacts DEF Server, Tunnel, TaskTypes
<1>4. Starting(u)
  BY <1>1, <1>2 DEF Starting, OneStarts
<1>5. ASSUME NEW t \in TaskIds, t # u PROVE SameView(t)
  <2>1. \A k : k # u => SameServers(servers, servers', k)
    BY <1>2, <1>3, ListenDoes, MovedServer
  <2>2. runList'[t] = runList[t]
    BY <1>2, <1>5, ListenDoes DEF TaskTypes
  <2>3. QED
    BY <1>1, <1>5, <2>1, <2>2 DEF SameView
<1>6. ASSUME Listed(u)
      PROVE  /\ Listed(u)' /\ OwnPort(u)' /\ ~Starting(u)'
             /\ runList[u] # T!None
  <2>1. runList[u] = s /\ ListsOwn(servers, s, u)
    BY <1>1, <1>2, <1>6 DEF Listed, ListsOwn, Runs
  <2>2. CASE /\ runList' = runList
             /\ servers' = [servers EXCEPT ![s] =
                              [task |-> servers[s].task, port |-> tunnel[servers[s].task].port,
                               state |-> "open"]]
    <3>1. ListsOwn(servers', s, u) /\ OnPort(servers', tunnel[u].port, u) /\ ~OneStarts(servers', u)
      BY <1>2, <1>3, <2>1, <2>2, MovedServer
    <3>2. QED
      BY <1>1, <2>1, <2>2, <3>1, IdFacts DEF Listed, OwnPort, Starting
  <2>3. CASE /\ runList' = [runList EXCEPT ![servers[s].task] = T!None]
             /\ servers' = [servers EXCEPT ![s] =
                              [task |-> servers[s].task, port |-> servers[s].port,
                               state |-> "failed"]]
    <3>1. NoneRuns(servers', u)
      BY <1>2, <1>3, <2>1, <2>3, MovedServer
    <3>2. runList'[u] = T!None /\ runList'[u] <= 0
      BY <1>2, <2>3, IdFacts DEF TaskTypes
    <3>3. /\ ~OneStarts(servers', u) /\ (\A p : OnPort(servers', p, u))
          /\ ListsOwn(servers', runList'[u], u)
      BY <1>3, <3>1, <3>2, RunFacts
    <3>4. QED
      BY <2>1, <3>2, <3>3, IdFacts DEF Listed, OwnPort, Starting
  <2>4. QED
    BY <2>2, <2>3, ListenDoes
<1>7. runList'[u] = runList[u] \/ runList'[u] = T!None
  BY <1>2, ListenDoes DEF TaskTypes
<1>8. ASSUME NEW t \in TaskIds, t \notin tangled' PROVE Alone(t)' /\ StateAt(t)'
  <2>1. t \notin tangled /\ Alone(t) /\ StateAt(t)
    BY <1>1, <1>8 DEF WorkInv
  <2>2. CASE t # u
    BY <1>1, <1>5, <2>1, <2>2, Keep
  <2>3. CASE t = u
    <3>1. CASE \E x \in T!Handlers : Touches(work[x], tunnel[t], t)
      <4>1. PICK x \in T!Handlers : Touches(work[x], tunnel[t], t)
        BY <3>1
      <4>2. PICK w : w = work[x]
        OBVIOUS
      <4>3. Tends(t, w) /\ \A y \in T!Handlers : y # x => ~Touches(work[y], tunnel[t], t)
        BY <1>4, <2>1, <2>3, <4>1, <4>2 DEF Alone
      <4>4. w.pc # "idle" /\ AtWork(t, w)
        BY <2>1, <4>1, <4>2, <4>3 DEF StateAt, On, Touches, Tends
      <4>5. /\ w.task = t /\ w.op \in Starts /\ t \in dbTasks /\ Listed(t)
            /\ w.pc = "status" \/ (w.pc = "save" /\ w.then = "done" /\ tunnel[t].status)
        BY <4>3, <4>4 DEF AtWork, Saving, Tends
      <4>6. Listed(t)' /\ OwnPort(t)' /\ ~Starting(t)'
        BY <1>6, <2>3, <4>5
      <4>7. t \notin w.todo
        BY <4>4 DEF AtWork
      <4>8. AtWork(t, w)'
        BY <1>1, <4>5, <4>6, <4>7 DEF AtWork, Saving, Starts
      <4>9. Waits(t, w)'
        BY <4>7 DEF Waits
      <4>10. work'[x] = w /\ \A y \in T!Handlers : y # x => ~Touches(work'[y], tunnel'[t], t)
        BY <1>1, <4>2, <4>3
      <4>11. QED
        BY <4>4, <4>5, <4>6, <4>8, <4>9, <4>10, Hold
    <3>2. CASE \A x \in T!Handlers : ~Touches(work[x], tunnel[t], t)
      <4>1. PICK w : w = work[T!Main]
        OBVIOUS
      <4>2. T!Main \in T!Handlers
        BY IdFacts
      <4>3. Settled(t)
        BY <2>1, <3>2 DEF StateAt, On, Touches
      <4>4. Settled(t)' /\ OwnPort(t)'
        BY <1>1, <1>6, <1>7, <2>3, <4>3 DEF Settled
      <4>5. \A x \in T!Handlers : ~Touches(work'[x], tunnel'[t], t)
        BY <1>1, <3>2
      <4>6. w.pc # "idle" => t \notin w.todo /\ w.task # t
        BY <3>2, <4>1, <4>2 DEF Touches
      <4>7. w.pc # "idle" => Waits(t, w)'
        BY <4>6 DEF Waits
      <4>8. work'[T!Main] = w /\ ~Touches(w, tunnel'[t], t)
        BY <1>1, <4>1, <4>2, <4>5
      <4>9. QED
        BY <4>2, <4>4, <4>5, <4>6, <4>7, <4>8, Hold
    <3>3. QED
      BY <3>1, <3>2
  <2>4. QED
    BY <2>2, <2>3
<1>9. QED
  BY <1>8 DEF WorkInv

\* A task stays as expected over Request.
LEMMA RequestWorks ==
    ASSUME TaskTypes, TaskTypes', WorkInv, NEW x \in Web, NEW u \in TaskIds,
           NEW op \in {"start", "stop", "delete", "edit"}, T!Request(x, op, u)
    PROVE  WorkInv'
<1>1. /\ UNCHANGED <<dbTasks, runList, servers>>
      /\ tup /\ work[x].pc = "idle" /\ work' = [work EXCEPT ![x] = OnTask(op, u)]
      /\ u \in dbTasks
      /\ tangled' = IF T!Busy(u) THEN tangled \cup {u} ELSE tangled
  BY RequestDoes
<1>2. /\ \A t \in TaskIds : t # u => tunnel'[t] = tunnel[t]
      /\ tunnel'[u].status = tunnel[u].status /\ tunnel'[u].client = tunnel[u].client
      /\ tunnel'[u].noStore = tunnel[u].noStore
      /\ op # "edit" => tunnel'[u].port = tunnel[u].port
  <2>1. tunnel \in [TaskIds -> Tunnel] /\ tunnel[u] \in Tunnel
    BY DEF TaskTypes
  <2>2. CASE op # "edit"
    BY <2>2, RequestDoes
  <2>3. CASE op = "edit"
    <3>1. PICK p : tunnel' = [tunnel EXCEPT ![u].port = p]
      BY <2>3, RequestDoes
    <3>2. QED
      BY <2>1, <2>3, <3>1 DEF Tunnel
  <2>4. QED
    BY <2>2, <2>3
<1>3. x \in T!Handlers /\ T!Idle \in Job
  BY IdFacts, IdleFacts
<1>4. PICK w : w = OnTask(op, u)
  OBVIOUS
<1>5. /\ w.op = op /\ w.task = u /\ w.then = "load" /\ w.todo = {}
      /\ op = "start" => w.pc = "find"
      /\ op = "stop" => w.pc = "load"
      /\ op = "delete" => w.pc = "listed"
      /\ op = "edit" => w.pc = "save"
  BY <1>4, OnTaskFacts
<1>6. work'[x] = w /\ \A y \in T!Handlers : y # x => work'[y] = work[y]
  BY <1>1, <1>3, <1>4 DEF TaskTypes
<1>7. ASSUME NEW t \in TaskIds, t \notin tangled' PROVE Alone(t)' /\ StateAt(t)'
  <2>1. t \notin tangled /\ Alone(t) /\ StateAt(t)
    BY <1>1, <1>7 DEF WorkInv
  <2>2. CASE t # u
    <3>1. Len(servers) \in Nat
      BY LenProperties DEF TaskTypes
    <3>2. SameView(t)
      BY <1>1, <1>2, <2>2, <3>1 DEF SameView, SameServers
    <3>3. Aside(x, t)
      BY <1>1, <1>5, <1>6, <2>2 DEF Aside, On, Touches
    <3>4. QED
      BY <1>6, <2>1, <3>2, <3>3, Keep
  <2>3. CASE t = u
    <3>1. ~T!Busy(t)
      BY <1>1, <1>7, <2>3
    <3>2. /\ \A y \in T!Handlers : ~Touches(work[y], tunnel[t], t)
          /\ ~Starting(t) /\ Settled(t) /\ OwnPort(t) /\ Listed(t)
      BY <1>1, <2>1, <3>1, Unbusy
    <3>3. \A y \in T!Handlers : y # x => ~Touches(work'[y], tunnel'[t], t)
      BY <1>2, <1>6, <2>3, <3>2 DEF Touches
    <3>4. /\ ~Starting(t)' /\ Settled(t)' /\ Listed(t)'
          /\ op # "edit" => OwnPort(t)'
      BY <1>1, <1>2, <2>3, <3>2 DEF Starting, Settled, Listed, OwnPort
    <3>5. AtWork(t, w)'
      <4>1. t \in dbTasks' /\ t \notin w.todo /\ Steady(t)'
        BY <1>1, <1>5, <2>3, <3>4 DEF Steady
      <4>2. CASE op = "start"
        BY <1>5, <3>4, <4>1, <4>2 DEF AtWork, Saving, Starts, Adds, Stops, Ends
      <4>3. CASE op = "stop"
        BY <1>5, <3>4, <4>1, <4>3 DEF AtWork, Saving, Starts, Adds, Stops, Ends
      <4>4. CASE op = "delete"
        BY <1>5, <3>4, <4>1, <4>4 DEF AtWork, Saving, Starts, Adds, Stops, Ends
      <4>5. CASE op = "edit"
        BY <1>5, <3>4, <4>1, <4>5 DEF AtWork, Saving, Starts, Adds, Stops, Ends
      <4>6. QED
        BY <4>2, <4>3, <4>4, <4>5
    <3>6. Waits(t, w)'
      BY <1>5 DEF Waits
    <3>7. w.pc # "idle" /\ w.task = t
      BY <1>5, <2>3
    <3>8. QED
      BY <1>3, <1>6, <3>3, <3>4, <3>5, <3>6, <3>7, Hold
  <2>4. QED
    BY <2>2, <2>3
<1>8. QED
  BY <1>7 DEF WorkInv

\* A task stays as expected over EditRefused.
LEMMA EditRefusedWorks ==
    ASSUME TaskTypes, TaskTypes', WorkInv, NEW x \in Web, NEW u \in TaskIds,
           NEW p \in TaskPorts \cup TakenPorts, T!EditRefused(x, u, p)
    PROVE  WorkInv'
<1>1. /\ UNCHANGED <<dbTasks, runList, servers, work>>
      /\ tup /\ tunnel' = [tunnel EXCEPT ![u].port = p]
      /\ tangled' = IF T!Busy(u) \/ runList[u] # T!None THEN tangled \cup {u} ELSE tangled
  BY EditRefusedDoes
<1>2. /\ \A t \in TaskIds : t # u => tunnel'[t] = tunnel[t]
      /\ tunnel'[u].status = tunnel[u].status /\ tunnel'[u].client = tunnel[u].client
      /\ tunnel'[u].noStore = tunnel[u].noStore
  BY <1>1 DEF TaskTypes, Tunnel
<1>3. ASSUME NEW t \in TaskIds, t \notin tangled' PROVE Alone(t)' /\ StateAt(t)'
  <2>1. t \notin tangled /\ Alone(t) /\ StateAt(t)
    BY <1>1, <1>3 DEF WorkInv
  <2>2. CASE t # u
    <3>1. Len(servers) \in Nat
      BY LenProperties DEF TaskTypes
    <3>2. SameView(t)
      BY <1>1, <1>2, <2>2, <3>1 DEF SameView, SameServers
    <3>3. QED
      BY <1>1, <2>1, <3>2, Keep
  <2>3. CASE t = u
    <3>1. ~T!Busy(t) /\ runList[t] = T!None
      BY <1>1, <1>3, <2>3
    <3>2. /\ \A y \in T!Handlers : ~Touches(work[y], tunnel[t], t)
          /\ ~Starting(t) /\ Settled(t) /\ Listed(t)
      BY <1>1, <2>1, <3>1, Unbusy
    <3>3. \A y \in T!Handlers : ~Touches(work'[y], tunnel'[t], t)
      BY <1>1, <1>2, <2>3, <3>2 DEF Touches
    <3>4. NoServer(t)
      BY <3>1, <3>2, OffFacts, IdFacts
    <3>5. servers \in Seq(Server)
      BY DEF TaskTypes
    <3>6. \A q : OnPort(servers, q, t)
      BY <3>4, <3>5, RunFacts, IdFacts DEF NoServer, NoneRuns, OnPort, Runs
    <3>7. Settled(t)' /\ OwnPort(t)'
      BY <1>1, <1>2, <2>3, <3>2, <3>6 DEF Settled, Listed, OwnPort
    <3>8. PICK w : w = work[T!Main]
      OBVIOUS
    <3>9. T!Main \in T!Handlers
      BY IdFacts
    <3>10. work'[T!Main] = w /\ ~Touches(w, tunnel'[t], t)
      BY <1>1, <3>3, <3>8, <3>9
    <3>11. w.pc # "idle" => t \notin w.todo /\ w.task # t
      BY <3>10 DEF Touches
    <3>12. w.pc # "idle" => Waits(t, w)'
      BY <3>11 DEF Waits
    <3>13. QED
      BY <3>3, <3>7, <3>9, <3>10, <3>11, <3>12, Hold
  <2>4. QED
    BY <2>2, <2>3
<1>4. QED
  BY <1>3 DEF WorkInv

\* A task of a new id has no server, no entry and no request.
LEMMA NewIsOff ==
    ASSUME TaskTypes, IdInv, NEW t \in TaskIds, t = lastTask + 1
    PROVE  /\ t \notin dbTasks /\ Off(t)
           /\ \A y \in T!Handlers : work[y].task # t /\ t \notin work[y].todo
<1>1. lastTask \in Nat /\ t > lastTask
  BY DEF TaskTypes
<1>2. t \notin dbTasks /\ runList[t] = T!None
  BY <1>1 DEF IdInv
<1>3. \A s \in 1 .. Len(servers) : servers[s].state \in {"new", "open"} => servers[s].task # t
  BY <1>1 DEF IdInv
<1>4. \A y \in T!Handlers : work[y].task # t /\ t \notin work[y].todo
  BY <1>1 DEF IdInv
<1>5. QED
  BY <1>2, <1>3, <1>4 DEF Off, NoServer, NoneRuns, Runs

\* A task stays as expected over NewTask.
LEMMA NewTaskWorks ==
    ASSUME TaskTypes, TaskTypes', IdInv, WorkInv, NEW x \in Web, NEW op \in {"add", "config"},
           NEW c \in TaskIds, NEW p \in TaskPorts, NEW m \in Modes, T!NewTask(x, op, c, p, m)
    PROVE  WorkInv'
<1>1. /\ UNCHANGED <<dbTasks, runList, servers>>
      /\ tup /\ work[x].pc = "idle" /\ lastTask + 1 \in TaskIds
      /\ work' = [work EXCEPT ![x] = OnNew(op, lastTask + 1)]
      /\ tunnel' = [tunnel EXCEPT ![lastTask + 1] =
                       [status |-> TRUE, port |-> p, mode |-> m, client |-> c,
                        noStore |-> op = "config"]]
      /\ tangled' = IF \E y \in T!Handlers : work[y].op \in T!ClientOps /\ work[y].client = c
                    THEN tangled \cup {lastTask + 1} ELSE tangled \ {lastTask + 1}
  BY NewTaskDoes
<1>2. PICK u \in TaskIds : u = lastTask + 1
  BY <1>1
<1>3. /\ \A t \in TaskIds : t # u => tunnel'[t] = tunnel[t]
      /\ tunnel'[u].status = TRUE /\ tunnel'[u].client = c
  BY <1>1, <1>2 DEF TaskTypes
<1>4. x \in T!Handlers
  BY IdFacts
<1>5. PICK w : w = OnNew(op, u)
  OBVIOUS
<1>6. w.op = op /\ w.pc = "create" /\ w.task = u /\ w.todo = {}
  BY <1>5, OnNewFacts
<1>7. work'[x] = w /\ \A y \in T!Handlers : y # x => work'[y] = work[y]
  BY <1>1, <1>2, <1>4, <1>5 DEF TaskTypes
<1>8. ASSUME NEW t \in TaskIds, t \notin tangled' PROVE Alone(t)' /\ StateAt(t)'
  <2>1. CASE t # u
    <3>1. t \notin tangled /\ Alone(t) /\ StateAt(t)
      BY <1>1, <1>2, <1>8, <2>1 DEF WorkInv
    <3>2. Len(servers) \in Nat
      BY LenProperties DEF TaskTypes
    <3>6. dbTasks' = dbTasks /\ runList' = runList /\ servers' = servers
      BY <1>1
    <3>3. SameView(t)
      BY <1>3, <2>1, <3>2, <3>6 DEF SameView, SameServers
    <3>4. Aside(x, t)
      BY <1>1, <1>6, <1>7, <2>1 DEF Aside, On, Touches
    <3>5. QED
      BY <1>7, <3>1, <3>3, <3>4, Keep
  <2>2. CASE t = u
    <3>1. \A y \in T!Handlers : ~(work[y].op \in T!ClientOps /\ work[y].client = c)
      BY <1>1, <1>2, <1>8, <2>2
    <3>2. /\ t \notin dbTasks /\ Off(t)
          /\ \A y \in T!Handlers : work[y].task # t /\ t \notin work[y].todo
      BY <1>2, <2>2, NewIsOff
    <3>3. \A y \in T!Handlers : y # x => ~Touches(work'[y], tunnel'[t], t)
      BY <1>3, <1>7, <2>2, <3>1, <3>2 DEF Touches, T!ClientOps
    <3>4. Off(t)' /\ ~Starting(t)'
      <4>1. ~Starting(t)
        BY <3>2, OffFacts
      <4>2. QED
        BY <1>1, <3>2, <4>1 DEF Off, NoServer, Starting
    <3>5. AtWork(t, w)'
      BY <1>1, <1>3, <1>6, <2>2, <3>2, <3>4 DEF AtWork
    <3>6. Waits(t, w)' /\ w.pc # "idle" /\ w.task = t
      BY <1>6, <2>2 DEF Waits
    <3>7. QED
      BY <1>4, <1>7, <3>3, <3>4, <3>5, <3>6, Hold
  <2>3. QED
    BY <2>1, <2>2
<1>9. QED
  BY <1>8 DEF WorkInv

\* A task stays as expected over NewClient.
LEMMA NewClientWorks ==
    ASSUME TaskTypes, TaskTypes', WorkInv, NEW x \in Web, T!NewClient(x)
    PROVE  WorkInv'
<1>1. /\ UNCHANGED <<dbTasks, tunnel, runList, servers, tangled>>
      /\ tup /\ work[x].pc = "idle" /\ work' = [work EXCEPT ![x] = OnClient]
  BY NewClientDoes
<1>2. x \in T!Handlers
  BY IdFacts
<1>3. PICK w : w = OnClient
  OBVIOUS
<1>4. w.op = "client" /\ w.task = 0 /\ w.todo = {}
  BY <1>3, OnClientFacts
<1>5. work'[x] = w /\ \A y \in T!Handlers : y # x => work'[y] = work[y]
  BY <1>1, <1>2, <1>3 DEF TaskTypes
<1>6. ASSUME NEW t \in TaskIds, t \notin tangled' PROVE Alone(t)' /\ StateAt(t)'
  <2>1. Alone(t) /\ StateAt(t) /\ SameView(t)
    BY <1>1, <1>6, AllSame DEF WorkInv
  <2>2. Aside(x, t)
    BY <1>1, <1>4, <1>5, IdFacts DEF Aside, On, Touches
  <2>3. QED
    BY <1>5, <2>1, <2>2, Keep
<1>7. QED
  BY <1>6 DEF WorkInv

\* A request that deletes a client, or its tasks, touches those that nobody works on.
LEMMA EndsClient ==
    ASSUME TaskTypes, TaskTypes', WorkInv, tup, NEW x \in T!Handlers, work[x].pc = "idle",
           NEW w \in Job, work' = [work EXCEPT ![x] = w],
           w.task = 0, w.todo = {}, w.op # "boot", w.pc # "idle",
           UNCHANGED <<dbTasks, tunnel, runList, servers>>, tangled \subseteq tangled',
           \A t \in TaskIds : Touches(w, tunnel[t], t) /\ T!Busy(t) => t \in tangled'
    PROVE  WorkInv'
<1>1. work'[x] = w /\ \A y \in T!Handlers : y # x => work'[y] = work[y]
  BY DEF TaskTypes
<1>2. ASSUME NEW t \in TaskIds, t \notin tangled' PROVE Alone(t)' /\ StateAt(t)'
  <2>1. t \notin tangled /\ Alone(t) /\ StateAt(t) /\ SameView(t) /\ t # 0
    BY <1>2, AllSame, IdFacts DEF WorkInv
  <2>2. CASE ~Touches(w, tunnel[t], t)
    <3>1. Aside(x, t)
      BY <1>1, <2>1, <2>2 DEF Aside, On
    <3>2. QED
      BY <1>1, <2>1, <3>1, Keep
  <2>3. CASE Touches(w, tunnel[t], t)
    <3>1. ~T!Busy(t)
      BY <1>2, <2>3
    <3>2. /\ \A y \in T!Handlers : ~Touches(work[y], tunnel[t], t)
          /\ ~Starting(t) /\ Settled(t) /\ OwnPort(t)
      BY <2>1, <3>1, Unbusy
    <3>3. ~Starting(t)' /\ Settled(t)' /\ OwnPort(t)'
      BY <2>1, <3>2, ViewKept
    <3>4. \A y \in T!Handlers : y # x => ~Touches(work'[y], tunnel'[t], t)
      BY <1>1, <3>2
    <3>5. Waits(t, w)'
      BY DEF Waits
    <3>6. w.task # t
      BY <2>1
    <3>7. QED
      BY <1>1, <3>3, <3>4, <3>5, <3>6, Hold
  <2>4. QED
    BY <2>2, <2>3
<1>3. QED
  BY <1>2 DEF WorkInv

\* A task stays as expected over DelClient.
LEMMA DelClientWorks ==
    ASSUME TaskTypes, TaskTypes', WorkInv, NEW x \in Web, NEW c \in TaskIds, T!DelClient(x, c)
    PROVE  WorkInv'
<1>1. /\ UNCHANGED <<dbTasks, tunnel, runList, servers>> /\ tangled \subseteq tangled'
      /\ tup /\ work[x].pc = "idle" /\ work' = [work EXCEPT ![x] = OnDeleted(c)]
      /\ \A t \in TaskIds : tunnel[t].client = c /\ T!Busy(t) => t \in tangled'
  BY DelClientDoes
<1>2. PICK w : w = OnDeleted(c)
  OBVIOUS
<1>3. /\ w \in Job /\ w.op = "delClient" /\ w.pc = "saveClients" /\ w.task = 0 /\ w.todo = {}
      /\ w.client = c
  BY <1>2, OnDeletedFacts
<1>4. \A t \in TaskIds : Touches(w, tunnel[t], t) => tunnel[t].client = c
  BY <1>3, IdFacts DEF Touches
<1>5. x \in T!Handlers
  BY IdFacts
<1>6. QED
  BY <1>1, <1>2, <1>3, <1>4, <1>5, EndsClient

\* A task stays as expected over CloseClient.
LEMMA CloseClientWorks ==
    ASSUME TaskTypes, TaskTypes', WorkInv, NEW c \in TaskIds, T!CloseClient(c)
    PROVE  WorkInv'
<1>1. /\ UNCHANGED <<dbTasks, tunnel, runList, servers>> /\ tangled \subseteq tangled'
      /\ tup /\ work[T!Bridge].pc = "idle" /\ work' = [work EXCEPT ![T!Bridge] = OnClosed(c)]
      /\ \A t \in TaskIds : tunnel[t].client = c /\ tunnel[t].noStore /\ T!Busy(t) => t \in tangled'
  BY CloseClientDoes
<1>2. PICK w : w = OnClosed(c)
  OBVIOUS
<1>3. /\ w \in Job /\ w.op = "closeClient" /\ w.pc = "range" /\ w.task = 0 /\ w.todo = {}
      /\ w.client = c
  BY <1>2, OnClosedFacts
<1>4. \A t \in TaskIds : Touches(w, tunnel[t], t) => tunnel[t].client = c /\ tunnel[t].noStore
  BY <1>3, IdFacts DEF Touches
<1>5. T!Bridge \in T!Handlers
  BY IdFacts
<1>6. QED
  BY <1>1, <1>2, <1>3, <1>4, <1>5, EndsClient

\* After the start of the process only the stored tasks are worked on, each to be started.
LEMMA RestartWorks ==
    ASSUME TaskTypes, TaskTypes', IdInv, T!Restart
    PROVE  WorkInv'
<1>1. /\ ~tup /\ UNCHANGED <<runList, servers>>
      /\ work' = [work EXCEPT ![T!Main] = OnBoot(T!ToBoot)] /\ T!ToBoot \in SUBSET TaskIds
  BY RestartDoes
<1>2. /\ \A y \in T!Handlers : work[y].pc = "idle"
      /\ \A s \in 1 .. Len(servers) : servers[s].state \notin {"new", "open"}
      /\ \A t \in TaskIds : runList[t] = T!None
  BY <1>1 DEF IdInv
<1>3. T!Main \in T!Handlers
  BY IdFacts
<1>4. PICK w : w = OnBoot(T!ToBoot)
  OBVIOUS
<1>5. w.op = "boot" /\ w.pc = "next" /\ w.task = 0 /\ w.todo = T!ToBoot
  BY <1>1, <1>4, OnBootFacts
<1>6. work'[T!Main] = w /\ \A y \in T!Handlers : y # T!Main => work'[y].pc = "idle"
  BY <1>1, <1>2, <1>3, <1>4 DEF TaskTypes
<1>7. ASSUME NEW t \in TaskIds PROVE Alone(t)' /\ StateAt(t)'
  <2>1. t # 0
    BY IdFacts
  <2>2. Off(t)
    BY <1>2 DEF Off, NoServer, NoneRuns, Runs
  <2>3. Off(t)'
    BY <1>1, <2>2 DEF Off, NoServer
  <2>4. ~Starting(t)' /\ OwnPort(t)' /\ Listed(t)'
    <3>1. servers' \in Seq(Server) /\ runList'[t] \in Int /\ runList'[t] <= 0
      BY <1>1, <1>2, IdFacts DEF TaskTypes
    <3>2. QED
      BY <2>3, <3>1, RunFacts DEF Off, NoServer, Starting, OwnPort, Listed
  <2>5. Settled(t)'
    BY <2>3, <2>4 DEF Settled, Off
  <2>6. t \in T!ToBoot => t \in dbTasks' /\ tunnel'[t].status
    BY RestartDoes
  <2>7. Waits(t, w)'
    BY <1>5, <2>1, <2>3, <2>6 DEF Waits
  <2>8. \A y \in T!Handlers : y # T!Main => ~Touches(work'[y], tunnel'[t], t)
    BY <1>6 DEF Touches
  <2>9. QED
    BY <1>3, <1>5, <1>6, <2>1, <2>4, <2>5, <2>7, <2>8, Hold
<1>8. QED
  BY <1>7 DEF WorkInv

\* A task on which no two activities overlapped is as expected after every step.
LEMMA WorkStep ==
    ASSUME TaskTypes, IdInv, EntryInv, PauseInv, WorkInv, [T!Next]_(T!vars) PROVE WorkInv'
<1>1. TaskTypes'
  BY TypesKept
<1>2. CASE \E x \in T!Handlers : T!Step(x)
  BY <1>1, <1>2, StepWorks
<1>3. CASE Begun
  <2>1. ASSUME T!Down PROVE WorkInv'
    BY <2>1, DownDoes DEF WorkInv
  <2>2. QED
    BY <1>1, <1>3, <2>1, ListenWorks, RequestWorks, EditRefusedWorks, NewTaskWorks,
       NewClientWorks, DelClientWorks, CloseClientWorks, RestartWorks
       DEF Begun, T!Crash, T!BridgePanics
<1>4. CASE UNCHANGED <<tup, dbClients, dbTasks, tunnel, lastTask, lastClient, files, runList,
                       servers, work, tangled, acked>>
  <2>1. ASSUME tup', NEW t \in TaskIds, t \notin tangled' PROVE Alone(t)' /\ StateAt(t)'
    <3>1. Alone(t) /\ StateAt(t) /\ SameView(t)
      BY <1>4, <2>1, AllSame DEF WorkInv
    <3>2. QED
      BY <1>1, <1>4, <3>1, Keep
  <2>2. QED
    BY <2>1 DEF WorkInv
<1>5. QED
  BY <1>2, <1>3, <1>4, NextCases

-----------------------------------------------------------------------------
(* The file and the clients.                                               *)

\* What a step of a request changes in the file and in the status of a task.
LEMMA StepStores ==
    ASSUME TaskTypes, EntryInv, PauseInv, NEW x \in T!Handlers, T!Step(x)
    PROVE  /\ T!Save(x) \/ (files'.tasks = files.tasks /\ work[x].pc # "save")
           /\ \A t \in TaskIds :
                 \/ tunnel'[t].status = tunnel[t].status /\ (t \in dbTasks' => t \in dbTasks)
                 \/ /\ t = work[x].task /\ work[x].pc \in {"status", "unset", "create"}
                    /\ work'[x].pc = "save" /\ work'[x].task = t /\ t \in dbTasks'
                    /\ work[x].pc = "unset" => ~tunnel'[t].status
           /\ work[x].pc = "remove" => work[x].task \notin dbTasks'
           /\ work[x].pc = "create" => work'[x].pc = "save" /\ work'[x].task = work[x].task
<1>1. /\ work \in [T!Handlers -> Job] /\ work[x] \in Job /\ tunnel \in [TaskIds -> Tunnel]
      /\ files \in [clients : SUBSET TaskIds, tasks : SUBSET Record]
  BY DEF TaskTypes
<1>2. ASSUME files'.tasks = files.tasks, work[x].pc \notin {"save", "remove", "create"},
             tunnel' = tunnel, dbTasks' = dbTasks
      PROVE  /\ T!Save(x) \/ (files'.tasks = files.tasks /\ work[x].pc # "save")
             /\ \A t \in TaskIds :
                   tunnel'[t].status = tunnel[t].status /\ (t \in dbTasks' => t \in dbTasks)
             /\ work[x].pc # "remove" /\ work[x].pc # "create"
  BY <1>2
<1>3. ASSUME NEW then \in {"done", "add", "try", "load", "unlist", "range"},
             work' = [work EXCEPT ![x] = Saves(work[x], then)]
      PROVE  work'[x].pc = "save" /\ work'[x].task = work[x].task
  BY <1>1, <1>3, SavesFacts
<1>4. work[x].pc \notin {"idle", "next", "saveClients", "range"} => work[x].task \in TaskIds
  BY HasTask
<1>5. CASE T!Save(x)
  <2>1. work[x].pc = "save" /\ tunnel' = tunnel /\ dbTasks' = dbTasks
    BY <1>5, SaveDoes
  <2>2. QED
    BY <1>5, <2>1
<1>6. CASE T!SaveClients(x)
  <2>1. /\ work[x].pc = "saveClients" /\ tunnel' = tunnel /\ dbTasks' = dbTasks
        /\ files' = [files EXCEPT !.clients = dbClients]
    BY <1>6, SaveClientsDoes
  <2>2. files'.tasks = files.tasks
    BY <1>1, <2>1
  <2>3. QED
    BY <1>2, <2>1, <2>2
<1>7. CASE T!AddTask(x)
  <2>1. work[x].pc = "add" /\ tunnel' = tunnel /\ dbTasks' = dbTasks /\ files' = files
    BY <1>7, AddTaskDoes
  <2>2. QED
    BY <1>2, <2>1
<1>8. CASE T!ListServer(x)
  <2>1. work[x].pc = "list" /\ tunnel' = tunnel /\ dbTasks' = dbTasks /\ files' = files
    BY <1>8, ListServerDoes
  <2>2. QED
    BY <1>2, <2>1
<1>9. CASE T!FindToStart(x)
  <2>1. work[x].pc = "find" /\ tunnel' = tunnel /\ dbTasks' = dbTasks /\ files' = files
    BY <1>9, FindToStartDoes
  <2>2. QED
    BY <1>2, <2>1
<1>10. CASE T!StopLoad(x)
  <2>1. work[x].pc = "load" /\ tunnel' = tunnel /\ dbTasks' = dbTasks /\ files' = files
    BY <1>10, StopLoadDoes
  <2>2. QED
    BY <1>2, <2>1
<1>11. CASE T!StopClose(x)
  <2>1. work[x].pc = "close" /\ tunnel' = tunnel /\ dbTasks' = dbTasks /\ files' = files
    BY <1>11, StopCloseDoes
  <2>2. QED
    BY <1>2, <2>1
<1>12. CASE T!StopPanics(x)
  <2>1. work[x].pc = "close" /\ tunnel' = tunnel /\ dbTasks' = dbTasks /\ files' = files
    BY <1>12, StopPanicsDoes
  <2>2. QED
    BY <1>2, <2>1
<1>13. CASE T!StopLook(x)
  <2>1. work[x].pc = "look" /\ tunnel' = tunnel /\ dbTasks' = dbTasks /\ files' = files
    BY <1>13, StopLookDoes
  <2>2. QED
    BY <1>2, <2>1
<1>14. CASE T!Unlist(x)
  <2>1. work[x].pc = "unlist" /\ tunnel' = tunnel /\ dbTasks' = dbTasks /\ files' = files
    BY <1>14, UnlistDoes
  <2>2. QED
    BY <1>2, <2>1
<1>15. CASE T!DelLoad(x)
  <2>1. work[x].pc = "listed" /\ tunnel' = tunnel /\ dbTasks' = dbTasks /\ files' = files
    BY <1>15, DelLoadDoes
  <2>2. QED
    BY <1>2, <2>1
<1>16. CASE T!TryPort(x)
  <2>1. work[x].pc = "try" /\ tunnel' = tunnel /\ dbTasks' = dbTasks /\ files' = files
    BY <1>16, TryPortDoes
  <2>2. QED
    BY <1>2, <2>1
<1>17. CASE T!Range(x)
  <2>1. work[x].pc = "range" /\ tunnel' = tunnel /\ dbTasks' = dbTasks /\ files' = files
    BY <1>17, RangeDoes
  <2>2. QED
    BY <1>2, <2>1
<1>18. CASE T!NextTask(x)
  <2>1. work[x].pc = "next" /\ tunnel' = tunnel /\ dbTasks' = dbTasks /\ files' = files
    BY <1>18, NextTaskDoes
  <2>2. QED
    BY <1>2, <2>1
<1>19. CASE T!Started(x)
  <2>1. /\ work[x].pc = "status" /\ files' = files
        /\ work' = [work EXCEPT ![x] = Saves(work[x], "done")]
        /\ tunnel' = [tunnel EXCEPT ![work[x].task].status = TRUE]
        /\ dbTasks' = dbTasks \cup {work[x].task}
    BY <1>19, StartedDoes
  <2>2. work[x].task \in TaskIds /\ work'[x].pc = "save" /\ work'[x].task = work[x].task
    BY <1>3, <1>4, <2>1
  <2>3. \A t \in TaskIds : t # work[x].task => tunnel'[t] = tunnel[t]
    BY <1>1, <2>1
  <2>4. tunnel'[work[x].task].status = TRUE
    BY <1>1, <2>1, <2>2 DEF Tunnel
  <2>5. QED
    BY <2>1, <2>2, <2>3, <2>4
<1>20. CASE T!Stopped(x)
  <2>1. /\ work[x].pc = "unset" /\ files' = files
        /\ work' = [work EXCEPT ![x] = Saves(work[x], "unlist")]
        /\ tunnel' = [tunnel EXCEPT ![work[x].task].status = FALSE]
        /\ dbTasks' = dbTasks \cup {work[x].task}
    BY <1>20, StoppedDoes
  <2>2. work[x].task \in TaskIds /\ work'[x].pc = "save" /\ work'[x].task = work[x].task
    BY <1>3, <1>4, <2>1
  <2>3. \A t \in TaskIds : t # work[x].task => tunnel'[t] = tunnel[t]
    BY <1>1, <2>1
  <2>4. tunnel'[work[x].task].status = FALSE
    BY <1>1, <2>1, <2>2 DEF Tunnel
  <2>5. QED
    BY <2>1, <2>2, <2>3, <2>4
<1>21. CASE T!Remove(x)
  <2>1. /\ work[x].pc = "remove" /\ files' = files /\ tunnel' = tunnel
        /\ dbTasks' = dbTasks \ {work[x].task}
    BY <1>21, RemoveDoes
  <2>2. QED
    BY <2>1
<1>22. CASE T!Create(x)
  <2>1. /\ work[x].pc = "create" /\ files' = files /\ tunnel' = tunnel
        /\ dbTasks' = dbTasks \cup {work[x].task}
        /\ \E then \in {"try", "add"} : work' = [work EXCEPT ![x] = Saves(work[x], then)]
    BY <1>22, CreateDoes
  <2>2. work[x].task \in TaskIds /\ work'[x].pc = "save" /\ work'[x].task = work[x].task
    BY <1>3, <1>4, <2>1
  <2>3. QED
    BY <2>1, <2>2
<1>23. QED
  BY <1>5, <1>6, <1>7, <1>8, <1>9, <1>10, <1>11, <1>12, <1>13, <1>14, <1>15, <1>16, <1>17,
     <1>18, <1>19, <1>20, <1>21, <1>22 DEF T!Step

\* What a save writes.
LEMMA SavedStatus ==
    ASSUME TaskTypes, NEW x \in T!Handlers, T!Save(x), NEW t \in TaskIds
    PROVE  /\ t \in dbTasks /\ ~tunnel[t].noStore =>
                 \E r \in files'.tasks : r.id = t /\ r.status = tunnel[t].status
           /\ \A r \in files'.tasks : r.id = t => t \in dbTasks /\ r.status = tunnel[t].status
<1>1. files'.tasks = T!StoredTasks
  <2>1. files' = [files EXCEPT !.tasks = T!StoredTasks]
    BY SaveDoes
  <2>2. QED
    BY <2>1 DEF TaskTypes
<1>2. ASSUME t \in dbTasks, ~tunnel[t].noStore
      PROVE  \E r \in T!StoredTasks : r.id = t /\ r.status = tunnel[t].status
  <2>1. PICK r : r = [id |-> t, status |-> tunnel[t].status, port |-> tunnel[t].port,
                      mode |-> tunnel[t].mode, client |-> tunnel[t].client]
    OBVIOUS
  <2>2. r \in T!StoredTasks
    BY <1>2, <2>1 DEF T!StoredTasks
  <2>3. r.id = t /\ r.status = tunnel[t].status
    BY <2>1
  <2>4. QED
    BY <2>2, <2>3
<1>3. ASSUME NEW r \in T!StoredTasks, r.id = t PROVE t \in dbTasks /\ r.status = tunnel[t].status
  <2>1. PICK u \in dbTasks : r = [id |-> u, status |-> tunnel[u].status, port |-> tunnel[u].port,
                                  mode |-> tunnel[u].mode, client |-> tunnel[u].client]
    BY DEF T!StoredTasks
  <2>2. r.id = u /\ r.status = tunnel[u].status
    BY <2>1
  <2>3. QED
    BY <1>3, <2>2
<1>4. QED
  BY <1>1, <1>2, <1>3

\* The file does not change, and nobody goes on from creating or saving the task.
LEMMA FileKept ==
    ASSUME NEW t \in TaskIds, FileAt(t), files'.tasks = files.tasks,
           t \in dbTasks' => t \in dbTasks,
           tunnel'[t].status = tunnel[t].status, tunnel'[t].noStore = tunnel[t].noStore,
           \A y \in T!Handlers : On(y, t) /\ work[y].pc \in {"create", "save"} => work'[y] = work[y]
    PROVE  FileAt(t)'
<1>1. ASSUME t \in dbTasks', ~tunnel'[t].noStore,
             \A y \in T!Handlers : On(y, t)' => work'[y].pc \notin {"create", "save"}
      PROVE  \E r \in files'.tasks : r.id = t /\ r.status = tunnel'[t].status
  <2>1. \A y \in T!Handlers : On(y, t) => work[y].pc \notin {"create", "save"}
    BY <1>1 DEF On
  <2>2. QED
    BY <1>1, <2>1 DEF FileAt
<1>2. QED
  BY <1>1 DEF FileAt

\* A step of a request leaves in the file what the tasks are that nobody is about to save.
LEMMA StepFiles ==
    ASSUME TaskTypes, EntryInv, PauseInv, FileInv, NEW x \in T!Handlers, T!Step(x)
    PROVE  FileInv'
<1> SUFFICES ASSUME NEW t \in TaskIds, t \notin tangled' PROVE FileAt(t)'
  BY DEF FileInv
<1>1. /\ FileAt(t) /\ tunnel'[t].noStore = tunnel[t].noStore
  BY StepFrame DEF FileInv
<1>2. CASE T!Save(x)
  <2>1. dbTasks' = dbTasks /\ tunnel' = tunnel
    BY <1>2, SaveDoes
  <2>2. t \in dbTasks /\ ~tunnel[t].noStore =>
            \E r \in files'.tasks : r.id = t /\ r.status = tunnel[t].status
    BY <1>2, SavedStatus
  <2>3. QED
    BY <2>1, <2>2 DEF FileAt
<1>3. CASE files'.tasks = files.tasks /\ work[x].pc # "save"
  <2>1. CASE work'[x].pc = "save" /\ work'[x].task = t
    BY <2>1 DEF FileAt, On
  <2>2. CASE ~(work'[x].pc = "save" /\ work'[x].task = t)
    <3>1. tunnel'[t].status = tunnel[t].status /\ (t \in dbTasks' => t \in dbTasks)
      BY <2>2, StepStores
    <3>2. \A y \in T!Handlers : y # x /\ On(y, t) => work'[y] = work[y]
      BY StepGoesOn DEF On
    <3>3. ~(work[x].pc = "create" /\ work[x].task = t)
      BY <2>2, StepStores
    <3>4. \A y \in T!Handlers : On(y, t) /\ work[y].pc \in {"create", "save"} => work'[y] = work[y]
      BY <1>3, <3>2, <3>3 DEF On
    <3>5. QED
      BY <1>1, <1>3, <3>1, <3>4, FileKept
  <2>3. QED
    BY <2>1, <2>2
<1>4. QED
  BY <1>2, <1>3, StepStores

\* A request that begins, or a server that listens, and a task that it is not about to make.
Passes(t) ==
    /\ t \in tangled => t \in tangled'
    /\ tunnel'[t].status = tunnel[t].status /\ tunnel'[t].noStore = tunnel[t].noStore
    /\ tunnel'[t].client = tunnel[t].client
    /\ tunnel[t].client \in dbClients =>
          tunnel[t].client \in dbClients' \/ \E x \in T!Handlers : Leaves(x, t)'
    /\ NoServer(t) => NoServer(t)'
    /\ acked'[t] \in {acked[t], "nothing"}
    /\ \A y \in T!Handlers :
          \/ work'[y] = work[y]
          \/ /\ work[y].pc = "idle" /\ work'[y].pc # "unlist"
             /\ ~(On(y, t)' /\ work'[y].pc = "create")
             /\ Lists(y, t)' => acked'[t] = "nothing"
IsMade(t) ==
    /\ t \notin dbTasks /\ acked'[t] = "nothing" /\ tunnel'[t].client \in dbClients'
    /\ \A y \in T!Handlers : On(y, t)' => work'[y].pc # "unlist"

\* A server that listens passes every task by.
LEMMA ListenPasses ==
    ASSUME TaskTypes, NEW s \in 1 .. Len(servers), T!Listen(s), NEW t \in TaskIds
    PROVE  Passes(t)
<1>1. /\ UNCHANGED <<dbClients, tunnel, work, tangled, acked>>
      /\ servers[s].state = "new" /\ servers[s] \in Server
      /\ \E p, how : servers' = [servers EXCEPT ![s] = [task |-> servers[s].task, port |-> p,
                                                      state |-> how]]
  BY ListenDoes
<1>2. Len(servers) \in Nat /\ servers \in Seq(Server)
  BY LenProperties DEF TaskTypes
<1>3. NoServer(t) => NoServer(t)'
  <2>1. ASSUME NoServer(t) PROVE NoServer(t)'
    <3>1. servers[s].task # t
      BY <1>1, <2>1 DEF NoServer, NoneRuns, Runs
    <3>2. PICK made : servers' = [servers EXCEPT ![s] = made] /\ made.task = servers[s].task
      BY <1>1
    <3>3. Len(servers') = Len(servers) /\ servers'[s] = made
          /\ \A k \in 1 .. Len(servers) : k # s => servers'[k] = servers[k]
      BY <1>2, <3>2
    <3>4. QED
      BY <2>1, <3>1, <3>2, <3>3 DEF NoServer, NoneRuns, Runs
  <2>2. QED
    BY <2>1
<1>4. QED
  BY <1>1, <1>3 DEF Passes

\* A request that begins and leaves the database and the servers as they are.
LEMMA BeginPasses ==
    ASSUME TaskTypes, NEW x \in T!Handlers, NEW w, work' = [work EXCEPT ![x] = w],
           work[x].pc = "idle", dbClients \subseteq dbClients', servers' = servers, NEW t \in TaskIds,
           t \in tangled => t \in tangled',
           tunnel'[t].status = tunnel[t].status, tunnel'[t].noStore = tunnel[t].noStore,
           tunnel'[t].client = tunnel[t].client, acked'[t] \in {acked[t], "nothing"},
           w.pc # "unlist", w.task = t \/ t \in w.todo => acked'[t] = "nothing" /\ w.pc # "create"
    PROVE  Passes(t)
<1>1. work'[x] = w /\ \A y \in T!Handlers : y # x => work'[y] = work[y]
  BY DEF TaskTypes
<1>2. NoServer(t) => NoServer(t)'
  BY DEF NoServer
<1>3. QED
  BY <1>1, <1>2 DEF Passes, Lists, On

\* A request on a task passes every task by.
LEMMA RequestPasses ==
    ASSUME TaskTypes, NEW x \in Web, NEW u \in TaskIds,
           NEW op \in {"start", "stop", "delete", "edit"}, T!Request(x, op, u), NEW t \in TaskIds
    PROVE  Passes(t)
<1>1. /\ UNCHANGED <<dbClients, servers>>
      /\ work[x].pc = "idle" /\ work' = [work EXCEPT ![x] = OnTask(op, u)]
      /\ acked' = [acked EXCEPT ![u] = "nothing"]
      /\ tangled \subseteq tangled'
  BY RequestDoes
<1>2. PICK w : w = OnTask(op, u)
  OBVIOUS
<1>3. w.task = u /\ w.todo = {} /\ w.pc \in {"find", "load", "listed", "save"}
  BY <1>2, OnTaskFacts
<1>4. acked'[t] \in {acked[t], "nothing"} /\ acked'[u] = "nothing"
  BY <1>1 DEF TaskTypes
<1>5. /\ tunnel'[t].status = tunnel[t].status /\ tunnel'[t].noStore = tunnel[t].noStore
      /\ tunnel'[t].client = tunnel[t].client
  <2>1. tunnel' = tunnel \/ \E p \in TaskPorts : tunnel' = [tunnel EXCEPT ![u].port = p]
    BY RequestDoes
  <2>2. CASE tunnel' = tunnel
    BY <2>2
  <2>3. ASSUME NEW p \in TaskPorts, tunnel' = [tunnel EXCEPT ![u].port = p]
        PROVE  /\ tunnel'[t].status = tunnel[t].status /\ tunnel'[t].noStore = tunnel[t].noStore
               /\ tunnel'[t].client = tunnel[t].client
    <3>1. tunnel'[t] \in {tunnel[t], [tunnel[t] EXCEPT !.port = p]} /\ tunnel[t] \in Tunnel
      BY <2>3 DEF TaskTypes
    <3>2. QED
      BY <3>1 DEF Tunnel
  <2>4. QED
    BY <2>1, <2>2, <2>3
<1>6. x \in T!Handlers
  BY IdFacts
<1>7. QED
  BY <1>1, <1>2, <1>3, <1>4, <1>5, <1>6, BeginPasses

\* An edit that is refused passes every task by.
LEMMA EditRefusedPasses ==
    ASSUME TaskTypes, NEW x \in Web, NEW u \in TaskIds, NEW p \in TaskPorts \cup TakenPorts,
           T!EditRefused(x, u, p), NEW t \in TaskIds
    PROVE  Passes(t)
<1>1. /\ UNCHANGED <<dbClients, servers, work, acked>> /\ tangled \subseteq tangled'
      /\ tunnel' = [tunnel EXCEPT ![u].port = p]
  BY EditRefusedDoes
<1>2. tunnel'[t] \in {tunnel[t], [tunnel[t] EXCEPT !.port = p]} /\ tunnel[t] \in Tunnel
  BY <1>1 DEF TaskTypes
<1>3. /\ tunnel'[t].status = tunnel[t].status /\ tunnel'[t].noStore = tunnel[t].noStore
      /\ tunnel'[t].client = tunnel[t].client
  BY <1>2 DEF Tunnel
<1>4. NoServer(t) => NoServer(t)'
  BY <1>1 DEF NoServer
<1>5. QED
  BY <1>1, <1>3, <1>4 DEF Passes

\* A new task passes the other ones by, and is about to be made.
LEMMA NewTaskPasses ==
    ASSUME TaskTypes, IdInv, NEW x \in Web, NEW op \in {"add", "config"}, NEW c \in TaskIds,
           NEW p \in TaskPorts, NEW m \in Modes, T!NewTask(x, op, c, p, m), NEW t \in TaskIds
    PROVE  Passes(t) \/ IsMade(t)
<1>1. /\ UNCHANGED <<dbClients, servers>> /\ work[x].pc = "idle" /\ c \in dbClients
      /\ lastTask + 1 \in TaskIds
      /\ work' = [work EXCEPT ![x] = OnNew(op, lastTask + 1)]
      /\ tunnel' = [tunnel EXCEPT ![lastTask + 1] =
                       [status |-> TRUE, port |-> p, mode |-> m, client |-> c,
                        noStore |-> op = "config"]]
      /\ \A k : k # lastTask + 1 /\ k \in tangled => k \in tangled'
      /\ acked' = [acked EXCEPT ![lastTask + 1] = "nothing"]
  BY NewTaskDoes
<1>2. PICK w : w = OnNew(op, lastTask + 1)
  OBVIOUS
<1>3. w.task = lastTask + 1 /\ w.todo = {} /\ w.pc = "create"
  BY <1>1, <1>2, OnNewFacts
<1>4. x \in T!Handlers
  BY IdFacts
<1>5. CASE t # lastTask + 1
  <2>1. acked'[t] = acked[t] /\ tunnel'[t] = tunnel[t]
    BY <1>1, <1>5 DEF TaskTypes
  <2>2. QED
    BY <1>1, <1>2, <1>3, <1>4, <1>5, <2>1, BeginPasses
<1>6. CASE t = lastTask + 1
  <2>1. lastTask \in Nat /\ \A y \in T!Handlers : work[y].task <= lastTask
    BY DEF TaskTypes, IdInv
  <2>2. t \notin dbTasks
    BY <1>6, <2>1 DEF IdInv
  <2>3. acked'[t] = "nothing" /\ tunnel'[t].client \in dbClients'
    BY <1>1, <1>6 DEF TaskTypes
  <2>4. \A y \in T!Handlers : On(y, t)' => work'[y].pc # "unlist"
    <3>1. work'[x] = w /\ \A y \in T!Handlers : y # x => work'[y] = work[y]
      BY <1>1, <1>2, <1>4 DEF TaskTypes
    <3>2. QED
      BY <1>3, <1>6, <2>1, <3>1 DEF On
  <2>5. QED
    BY <2>2, <2>3, <2>4 DEF IsMade
<1>7. QED
  BY <1>5, <1>6

\* The requests on clients pass every task by.
LEMMA ClientPasses ==
    ASSUME TaskTypes, NEW t \in TaskIds,
           \/ \E x \in Web : T!NewClient(x)
           \/ \E x \in Web, c \in TaskIds : T!DelClient(x, c)
           \/ \E c \in TaskIds : T!CloseClient(c)
    PROVE  Passes(t)
<1>1. t # 0 /\ Web \subseteq T!Handlers /\ T!Bridge \in T!Handlers
  BY IdFacts
<1>2. ASSUME NEW x \in Web, T!NewClient(x) PROVE Passes(t)
  <2>1. /\ UNCHANGED <<tunnel, servers, tangled, acked>> /\ dbClients \subseteq dbClients'
        /\ work[x].pc = "idle" /\ work' = [work EXCEPT ![x] = OnClient]
    BY <1>2, NewClientDoes
  <2>2. QED
    BY <1>1, <2>1, OnClientFacts, BeginPasses
<1>3. ASSUME NEW c \in TaskIds, T!CloseClient(c) PROVE Passes(t)
  <2>1. /\ UNCHANGED <<dbClients, tunnel, servers, acked>> /\ tangled \subseteq tangled'
        /\ work[T!Bridge].pc = "idle" /\ work' = [work EXCEPT ![T!Bridge] = OnClosed(c)]
    BY <1>3, CloseClientDoes
  <2>2. PICK w : w = OnClosed(c)
    OBVIOUS
  <2>3. w.pc = "range" /\ w.task = 0 /\ w.todo = {}
    BY <2>2, OnClosedFacts
  <2>4. QED
    BY <1>1, <2>1, <2>2, <2>3, BeginPasses
<1>4. ASSUME NEW x \in Web, NEW c \in TaskIds, T!DelClient(x, c) PROVE Passes(t)
  <2>1. /\ UNCHANGED <<tunnel, servers>> /\ tangled \subseteq tangled'
        /\ work[x].pc = "idle" /\ work' = [work EXCEPT ![x] = OnDeleted(c)]
        /\ dbClients' = dbClients \ {c} /\ acked'[t] \in {acked[t], "nothing"}
    BY <1>4, DelClientDoes
  <2>2. PICK w : w = OnDeleted(c)
    OBVIOUS
  <2>3. /\ w.pc = "saveClients" /\ w.task = 0 /\ w.todo = {} /\ w.op = "delClient" /\ w.client = c
    BY <2>2, OnDeletedFacts
  <2>4. work'[x] = w /\ \A y \in T!Handlers : y # x => work'[y] = work[y]
    BY <1>1, <2>1, <2>2 DEF TaskTypes
  <2>5. tunnel[t].client \in dbClients => tunnel[t].client \in dbClients' \/ Leaves(x, t)'
    BY <2>1, <2>3, <2>4 DEF Leaves
  <2>6. NoServer(t) => NoServer(t)'
    BY <2>1 DEF NoServer
  <2>7. \A y \in T!Handlers :
            work'[y] = work[y] \/ (work[y].pc = "idle" /\ work'[y] = w)
    BY <2>1, <2>4
  <2>8. \A y \in T!Handlers : work'[y] = w => ~On(y, t)' /\ ~Lists(y, t)'
    BY <1>1, <2>3 DEF On, Lists
  <2>9. QED
    BY <1>1, <2>1, <2>3, <2>5, <2>6, <2>7, <2>8 DEF Passes
<1>5. QED
  BY <1>2, <1>3, <1>4

\* The steps other than those of requests keep the file, and the clients of tasks.
LEMMA BegunStores ==
    ASSUME TaskTypes, IdInv, Begun, ~T!Down, ~T!Restart
    PROVE  /\ tup /\ files' = files /\ dbTasks' = dbTasks
           /\ \A t \in TaskIds : Passes(t) \/ IsMade(t)
<1>1. ASSUME NEW s \in 1 .. Len(servers), T!Listen(s)
      PROVE  /\ tup /\ files' = files /\ dbTasks' = dbTasks
             /\ \A t \in TaskIds : Passes(t) \/ IsMade(t)
  BY <1>1, ListenDoes, ListenPasses
<1>2. ASSUME NEW x \in Web, NEW u \in TaskIds, NEW op \in {"start", "stop", "delete", "edit"},
             T!Request(x, op, u)
      PROVE  /\ tup /\ files' = files /\ dbTasks' = dbTasks
             /\ \A t \in TaskIds : Passes(t) \/ IsMade(t)
  BY <1>2, RequestDoes, RequestPasses
<1>3. ASSUME NEW x \in Web, NEW u \in TaskIds, NEW p \in TaskPorts \cup TakenPorts,
             T!EditRefused(x, u, p)
      PROVE  /\ tup /\ files' = files /\ dbTasks' = dbTasks
             /\ \A t \in TaskIds : Passes(t) \/ IsMade(t)
  BY <1>3, EditRefusedDoes, EditRefusedPasses
<1>4. ASSUME NEW x \in Web, NEW op \in {"add", "config"}, NEW c \in TaskIds, NEW p \in TaskPorts,
             NEW m \in Modes, T!NewTask(x, op, c, p, m)
      PROVE  /\ tup /\ files' = files /\ dbTasks' = dbTasks
             /\ \A t \in TaskIds : Passes(t) \/ IsMade(t)
  BY <1>4, NewTaskDoes, NewTaskPasses
<1>5. ASSUME NEW x \in Web, T!NewClient(x)
      PROVE  /\ tup /\ files' = files /\ dbTasks' = dbTasks
             /\ \A t \in TaskIds : Passes(t) \/ IsMade(t)
  BY <1>5, NewClientDoes, ClientPasses
<1>6. ASSUME NEW x \in Web, NEW c \in TaskIds, T!DelClient(x, c)
      PROVE  /\ tup /\ files' = files /\ dbTasks' = dbTasks
             /\ \A t \in TaskIds : Passes(t) \/ IsMade(t)
  BY <1>6, DelClientDoes, ClientPasses
<1>7. ASSUME NEW c \in TaskIds, T!CloseClient(c)
      PROVE  /\ tup /\ files' = files /\ dbTasks' = dbTasks
             /\ \A t \in TaskIds : Passes(t) \/ IsMade(t)
  BY <1>7, CloseClientDoes, ClientPasses
<1>8. QED
  BY <1>1, <1>2, <1>3, <1>4, <1>5, <1>6, <1>7 DEF Begun, T!Crash, T!BridgePanics

\* A request that deletes a client keeps the tasks it has still to delete.
LEMMA StepLeaves ==
    ASSUME TaskTypes, EntryInv, PauseInv, WorkInv, NEW x \in T!Handlers, T!Step(x),
           NEW t \in TaskIds, t \notin tangled', t \in dbTasks, t \in dbTasks', Leaves(x, t)
    PROVE  Leaves(x, t)'
<1>1. /\ tup /\ tunnel'[t].client = tunnel[t].client /\ t \notin tangled
      /\ GoesOn(work[x], work'[x]) /\ work \in [T!Handlers -> Job] /\ t # 0
  BY StepFrame, StepGoesOn, IdFacts DEF TaskTypes
<1>2. PICK v \in Job :
          /\ v = work[x] /\ v.pc # "idle" /\ v.op = "delClient" /\ v.client = tunnel[t].client
          /\ v.pc \in {"saveClients", "range"} \/ v.task = t \/ t \in v.todo
  BY <1>1 DEF Leaves
<1>3. PauseAt(v)
  BY <1>2 DEF PauseInv
<1>4. v.task = t => AtWork(t, v)
  BY <1>1, <1>2, WorkFacts
<1>5. ASSUME NEW w, work'[x] = w, w.pc # "idle",
             w.pc \in {"saveClients", "range"} \/ w.task = t \/ t \in w.todo
      PROVE  Leaves(x, t)'
  <2>1. GoesOn(v, w)
    BY <1>1, <1>2, <1>5
  <2>2. w.op = "delClient" /\ w.client = tunnel'[t].client
    BY <1>1, <1>2, <1>5, <2>1 DEF GoesOn
  <2>3. QED
    BY <1>5, <2>2 DEF Leaves
<1>6. ASSUME NEW goal \in (Pcs \ {"idle"}) \cup {"done", "failed"}, Fate(x, goal),
             t \in v.todo \/ (v.task = t /\ goal \notin {"done", "failed"})
      PROVE  Leaves(x, t)'
  <2>1. PICK w : w = Gone(v, goal) /\ work'[x] = w
    BY <1>1, <1>2, <1>6 DEF Fate
  <2>2. w.pc # "idle" /\ w.todo = v.todo /\ (goal \notin {"done", "failed"} => w.task = v.task)
    <3>1. CASE goal \in {"done", "failed"}
      BY <1>2, <2>1, <3>1 DEF Gone, Answered
    <3>2. CASE goal \notin {"done", "failed"}
      BY <1>6, <2>1, <3>2, GoneFacts DEF Pcs
    <3>3. QED
      BY <3>1, <3>2
  <2>3. QED
    BY <1>5, <1>6, <2>1, <2>2
<1>7. ASSUME NEW w \in Job, work' = [work EXCEPT ![x] = w], w.pc # "idle", w.task = v.task,
             w.todo = v.todo, t \in v.todo \/ v.task = t
      PROVE  Leaves(x, t)'
  BY <1>1, <1>5, <1>7
<1>8. CASE T!Save(x)
  <2>1. v.pc = "save" /\ Fate(x, v.then)
    BY <1>2, <1>8, SaveDoes
  <2>2. v.then = "done" => v.task # t
    BY <1>2, <1>4, <2>1 DEF AtWork, Saving, Starts
  <2>3. QED
    BY <1>2, <1>6, <2>1, <2>2 DEF Job, Pcs
<1>9. CASE T!SaveClients(x)
  <2>1. v.pc = "saveClients" /\ Fate(x, v.then)
    BY <1>2, <1>9, SaveClientsDoes
  <2>2. v.then = "range"
    BY <1>2, <1>3, <2>1 DEF PauseAt
  <2>3. PICK w : w = Gone(v, "range") /\ work'[x] = w
    BY <1>1, <1>2, <2>1, <2>2 DEF Fate
  <2>4. w.pc = "range"
    BY <2>3, GoneFacts
  <2>5. QED
    BY <1>5, <2>3, <2>4
<1>10. CASE T!AddTask(x)
  <2>1. v.pc = "add" /\ \E goal \in {"status", "done", "failed", "list"} : Fate(x, goal)
    BY <1>2, <1>10, AddTaskDoes
  <2>2. v.task # t
    BY <1>2, <1>4, <2>1 DEF AtWork, Starts, Adds
  <2>3. QED
    BY <1>2, <1>6, <2>1, <2>2 DEF Pcs
<1>11. CASE T!ListServer(x)
  <2>1. v.pc = "list" /\ \E goal \in {"status", "done"} : Fate(x, goal)
    BY <1>2, <1>11, ListServerDoes
  <2>2. v.task # t
    BY <1>2, <1>4, <2>1 DEF AtWork, Starts, Adds
  <2>3. QED
    BY <1>2, <1>6, <2>1, <2>2 DEF Pcs
<1>12. CASE T!FindToStart(x)
  <2>1. v.pc = "find" /\ \E goal \in {"add", "failed"} : Fate(x, goal)
    BY <1>2, <1>12, FindToStartDoes
  <2>2. v.task # t
    BY <1>2, <1>4, <2>1 DEF AtWork, Starts, Adds
  <2>3. QED
    BY <1>2, <1>6, <2>1, <2>2 DEF Pcs
<1>13. CASE T!Started(x)
  <2>1. v.pc = "status" /\ work' = [work EXCEPT ![x] = Saves(v, "done")]
    BY <1>2, <1>13, StartedDoes
  <2>2. QED
    BY <1>2, <1>7, <2>1, SavesFacts
<1>14. CASE T!StopLoad(x)
  <2>1. v.pc = "load"
    BY <1>2, <1>14, StopLoadDoes
  <2>2. CASE runList[v.task] # T!None /\ work' = [work EXCEPT ![x] = Closes(v, runList[v.task])]
    <3>1. runList[v.task] \in T!Entry
      BY <1>2, <2>1, HasTask DEF TaskTypes
    <3>2. PICK w : w = Closes(v, runList[v.task])
      OBVIOUS
    <3>3. w \in Job /\ w.pc = "close" /\ w.task = v.task /\ w.todo = v.todo
      BY <3>1, <3>2, ClosesFacts
    <3>4. QED
      BY <1>2, <1>7, <2>1, <2>2, <3>2, <3>3
  <2>3. CASE runList[v.task] = T!None /\ Fate(x, "failed")
    <3>1. v.task # t
      BY <1>2, <1>4, <2>1, <2>3 DEF AtWork, Ends
    <3>2. QED
      BY <1>2, <1>6, <2>1, <2>3, <3>1
  <2>4. QED
    BY <1>2, <1>14, <2>2, <2>3, StopLoadDoes
<1>15. v.pc = "close" /\ v.task = t =>
           /\ v.svr \notin 1 .. Len(servers) \/ servers[v.svr].state = "open"
           /\ v.svr = T!Secret \/ servers[v.svr].state = "open"
  <2>1. ASSUME v.pc = "close", v.task = t
        PROVE  v.svr = runList[t] /\ runList[t] # T!None /\ Listed(t) /\ ~Starting(t)
    BY <1>4, <2>1 DEF AtWork, Steady, Settled
  <2>2. ASSUME v.pc = "close", v.task = t, v.svr > 0 PROVE servers[v.svr].state = "open"
    BY <2>1, <2>2, ListedOpen
  <2>3. runList[t] \in T!Entry
    BY DEF TaskTypes
  <2>4. ASSUME v.pc = "close", v.task = t PROVE v.svr = T!Secret \/ v.svr > 0
    BY <2>1, <2>3, <2>4, IdFacts
  <2>5. T!Secret \notin 1 .. Len(servers)
    BY IdFacts
  <2>6. QED
    BY <2>2, <2>4, <2>5
<1>16. CASE T!StopClose(x)
  <2>1. /\ v.pc = "close"
        /\ \/ Fate(x, "look")
           \/ /\ v.svr \in 1 .. Len(servers) /\ servers[v.svr].state # "open" /\ Fate(x, "failed")
    BY <1>2, <1>16, StopCloseDoes
  <2>2. QED
    BY <1>2, <1>6, <1>15, <2>1 DEF Pcs
<1>17. CASE T!StopPanics(x)
  <2>1. /\ v.pc = "close" /\ v.svr # T!Secret /\ servers[v.svr].state \in {"new", "failed"}
        /\ tangled' = tangled \cup v.todo
    BY <1>2, <1>17, StopPanicsDoes
  <2>2. QED
    BY <1>2, <1>15, <2>1
<1>18. CASE T!StopLook(x)
  <2>1. /\ v.pc = "look"
        /\ Fate(x, "unset") \/ (v.task \notin dbTasks /\ Fate(x, "failed"))
    BY <1>2, <1>18, StopLookDoes
  <2>2. QED
    BY <1>2, <1>6, <2>1 DEF Pcs
<1>19. CASE T!Stopped(x)
  <2>1. v.pc = "unset" /\ work' = [work EXCEPT ![x] = Saves(v, "unlist")]
    BY <1>2, <1>19, StoppedDoes
  <2>2. QED
    BY <1>2, <1>7, <2>1, SavesFacts
<1>20. CASE T!Unlist(x)
  <2>1. v.pc = "unlist" /\ Fate(x, "remove")
    BY <1>2, <1>20, UnlistDoes
  <2>2. QED
    BY <1>2, <1>6, <2>1 DEF Pcs
<1>21. CASE T!DelLoad(x)
  <2>1. v.pc = "listed" /\ \E goal \in {"load", "remove"} : Fate(x, goal)
    BY <1>2, <1>21, DelLoadDoes
  <2>2. QED
    BY <1>2, <1>6, <2>1 DEF Pcs
<1>22. CASE T!Remove(x)
  <2>1. v.pc = "remove" /\ work' = [work EXCEPT ![x] = Saves(v, "done")]
    BY <1>2, <1>22, RemoveDoes
  <2>2. QED
    BY <1>2, <1>7, <2>1, SavesFacts
<1>23. CASE T!Create(x)
  <2>1. v.pc = "create" /\ \E then \in {"try", "add"} : work' = [work EXCEPT ![x] = Saves(v, then)]
    BY <1>2, <1>23, CreateDoes
  <2>2. PICK then \in {"try", "add"} : work' = [work EXCEPT ![x] = Saves(v, then)]
    BY <2>1
  <2>3. PICK w : w = Saves(v, then)
    OBVIOUS
  <2>4. w \in Job /\ w.pc = "save" /\ w.task = v.task /\ w.todo = v.todo
    BY <2>3, SavesFacts
  <2>5. QED
    BY <1>2, <1>7, <2>1, <2>2, <2>3, <2>4
<1>24. CASE T!TryPort(x)
  <2>1. v.pc = "try"
    BY <1>2, <1>24, TryPortDoes
  <2>2. QED
    BY <1>2, <1>3, <2>1 DEF PauseAt
<1>25. CASE T!Range(x)
  <2>1. v.pc = "range" /\ work' = [work EXCEPT ![x] = Ranges(v, OfClient(v))]
        /\ OfClient(v) \in SUBSET TaskIds
    BY <1>2, <1>25, RangeDoes
  <2>2. PICK w : w = Ranges(v, OfClient(v)) /\ work'[x] = w
    BY <1>1, <2>1
  <2>3. w.pc = "next" /\ w.todo = OfClient(v)
    BY <2>1, <2>2, RangesFacts
  <2>4. t \in OfClient(v)
    BY <1>2 DEF OfClient
  <2>5. QED
    BY <1>5, <2>2, <2>3, <2>4
<1>26. CASE T!NextTask(x)
  <2>1. v.pc = "next" /\ v.task # t /\ t \in v.todo
    <3>1. v.pc = "next"
      BY <1>2, <1>26, NextTaskDoes
    <3>2. QED
      BY <1>1, <1>2, <1>3, <3>1 DEF PauseAt
  <2>2. PICK u \in v.todo : u \in TaskIds /\ work' = [work EXCEPT ![x] = T!TakesUp(v, u)]
    BY <1>2, <1>26, <2>1, NextTaskDoes
  <2>3. PICK w : w = T!TakesUp(v, u) /\ work'[x] = w
    BY <1>1, <2>2
  <2>4. w.pc = "listed" /\ w.task = u /\ w.todo = v.todo \ {u}
    BY <1>2, <2>2, <2>3, TakenUp
  <2>5. QED
    BY <1>5, <2>1, <2>3, <2>4
<1>27. QED
  BY <1>8, <1>9, <1>10, <1>11, <1>12, <1>13, <1>14, <1>16, <1>17, <1>18, <1>19, <1>20, <1>21, <1>22,
     <1>23, <1>24, <1>25, <1>26 DEF T!Step

\* A step of a request leaves no task without a client and without who deletes it.
LEMMA StepClients ==
    ASSUME TaskTypes, EntryInv, PauseInv, WorkInv, OwnerInv, NEW x \in T!Handlers, T!Step(x)
    PROVE  OwnerInv'
<1> SUFFICES ASSUME NEW t \in TaskIds, t \notin tangled' PROVE ClientAt(t)'
  BY DEF OwnerInv
<1>1. /\ tup /\ dbClients' = dbClients /\ t \notin tangled
      /\ tunnel'[t].noStore = tunnel[t].noStore /\ tunnel'[t].client = tunnel[t].client
  BY StepFrame
<1>2. ClientAt(t) /\ Alone(t) /\ StateAt(t)
  BY <1>1 DEF OwnerInv, WorkInv
<1>3. /\ work[x].pc # "idle" /\ GoesOn(work[x], work'[x])
      /\ \A y \in T!Handlers : y # x =>
            \/ work'[y] = work[y]
            \/ /\ work[y].pc = "idle" /\ work[x].task \in TaskIds
               /\ work'[y] = OnOpen(work[x].task) \/ work'[y] = OnStart(work[x].task)
  BY StepGoesOn
<1>4. \A y \in T!Handlers : On(y, t)' /\ work'[y].pc = "create" => y # x /\ work'[y] = work[y]
  BY <1>3, OnOpenFacts DEF GoesOn
<1>5. t \in dbTasks' => t \in dbTasks \/ (On(x, t) /\ work[x].pc = "create")
  <2>1. CASE t \in dbTasks' => t \in dbTasks
    BY <2>1
  <2>2. CASE t = work[x].task /\ work[x].pc \in {"status", "unset", "create"}
    <3>1. On(x, t) /\ AtWork(t, work[x])
      BY <1>1, <1>3, <2>2, WorkFacts DEF On
    <3>2. QED
      BY <2>2, <3>1 DEF AtWork
  <2>3. QED
    BY <2>1, <2>2, StepStores
<1>6. ASSUME ~tunnel'[t].noStore,
             t \in dbTasks' \/ \E y \in T!Handlers : On(y, t)' /\ work'[y].pc = "create"
      PROVE  tunnel'[t].client \in dbClients' \/ \E y \in T!Handlers : Leaves(y, t)'
  <2>1. t \in dbTasks \/ \E y \in T!Handlers : On(y, t) /\ work[y].pc = "create"
    BY <1>4, <1>5, <1>6 DEF On
  <2>2. CASE tunnel[t].client \in dbClients
    BY <1>1, <2>2
  <2>3. ASSUME NEW y \in T!Handlers, Leaves(y, t) PROVE Leaves(y, t)'
    <3>1. CASE y # x
      BY <1>1, <1>3, <2>3, <3>1 DEF Leaves
    <3>2. CASE y = x
      <4>1. ASSUME NEW z \in T!Handlers, On(z, t), work[z].pc = "create" PROVE FALSE
        <5>1. Touches(work[z], tunnel[t], t) /\ Touches(work[x], tunnel[t], t)
          BY <2>3, <3>2, <4>1 DEF On, Touches, Leaves
        <5>2. z = x
          BY <1>2, <5>1 DEF Alone
        <5>3. AtWork(t, work[x])
          BY <1>2, <4>1, <5>2 DEF StateAt
        <5>4. QED
          BY <2>3, <3>2, <4>1, <5>2, <5>3 DEF AtWork, Leaves
      <4>2. t \in dbTasks /\ t \in dbTasks'
        BY <1>4, <1>6, <2>1, <4>1 DEF On
      <4>3. QED
        BY <2>3, <3>2, <4>2, StepLeaves
    <3>3. QED
      BY <3>1, <3>2
  <2>4. QED
    BY <1>1, <1>2, <1>6, <2>1, <2>2, <2>3 DEF ClientAt
<1>7. QED
  BY <1>6 DEF ClientAt

\* The file has the status of each task after every step.
LEMMA FileStep ==
    ASSUME TaskTypes, IdInv, EntryInv, PauseInv, FileInv, [T!Next]_(T!vars) PROVE FileInv'
<1>1. CASE \E x \in T!Handlers : T!Step(x)
  BY <1>1, StepFiles
<1>2. CASE T!Down
  BY <1>2, DownDoes DEF FileInv
<1>3. CASE T!Restart
  <2>1. /\ files' = files
        /\ \A r \in files.tasks : r.client \in dbClients' => tunnel'[r.id].status = r.status
        /\ \A t \in dbTasks' : \E r \in files.tasks : r.id = t /\ r.client \in dbClients'
    BY <1>3, RestartDoes
  <2>2. \A t \in dbTasks' : \E r \in files'.tasks : r.id = t /\ r.status = tunnel'[t].status
    BY <2>1
  <2>3. QED
    BY <2>2 DEF FileInv, FileAt
<1>4. CASE Begun /\ ~T!Down /\ ~T!Restart
  <2>1. /\ tup /\ files' = files /\ dbTasks' = dbTasks
        /\ \A t \in TaskIds : Passes(t) \/ IsMade(t)
    BY <1>4, BegunStores
  <2>2. ASSUME NEW t \in TaskIds, t \notin tangled' PROVE FileAt(t)'
    <3>1. CASE IsMade(t)
      BY <2>1, <3>1 DEF IsMade, FileAt
    <3>2. CASE Passes(t)
      <4>1. FileAt(t)
        BY <2>1, <2>2, <3>2 DEF FileInv, Passes
      <4>2. \A y \in T!Handlers : On(y, t) /\ work[y].pc \in {"create", "save"} => work'[y] = work[y]
        BY <3>2 DEF Passes, On
      <4>3. tunnel'[t].status = tunnel[t].status /\ tunnel'[t].noStore = tunnel[t].noStore
        BY <3>2 DEF Passes
      <4>4. QED
        BY <2>1, <4>1, <4>2, <4>3, FileKept
    <3>3. QED
      BY <2>1, <3>1, <3>2
  <2>3. QED
    BY <2>2 DEF FileInv
<1>5. CASE UNCHANGED <<tup, dbClients, dbTasks, tunnel, lastTask, lastClient, files, runList,
                       servers, work, tangled, acked>>
  BY <1>5 DEF FileInv, FileAt, On
<1>6. QED
  BY <1>1, <1>2, <1>3, <1>4, <1>5, NextCases

\* Each task has its client, or who deletes it, after every step.
LEMMA ClientStep ==
    ASSUME TaskTypes, IdInv, EntryInv, PauseInv, WorkInv, OwnerInv, [T!Next]_(T!vars)
    PROVE  OwnerInv'
<1>1. CASE \E x \in T!Handlers : T!Step(x)
  BY <1>1, StepClients
<1>2. CASE T!Down
  BY <1>2, DownDoes DEF OwnerInv
<1>3. CASE T!Restart
  <2>1. /\ ~tup /\ work' = [work EXCEPT ![T!Main] = OnBoot(T!ToBoot)]
        /\ T!ToBoot \in SUBSET TaskIds
        /\ \A r \in files.tasks : r.client \in dbClients' => tunnel'[r.id].client = r.client
        /\ \A t \in dbTasks' : \E r \in files.tasks : r.id = t /\ r.client \in dbClients'
    BY <1>3, RestartDoes
  <2>2. \A t \in dbTasks' : tunnel'[t].client \in dbClients'
    BY <2>1
  <2>3. PICK w : w = OnBoot(T!ToBoot)
    OBVIOUS
  <2>4. w.pc = "next"
    BY <2>1, <2>3, OnBootFacts
  <2>5. \A y \in T!Handlers : work'[y].pc # "create"
    BY <2>1, <2>3, <2>4 DEF IdInv, TaskTypes
  <2>6. QED
    BY <2>2, <2>5 DEF OwnerInv, ClientAt
<1>4. CASE Begun /\ ~T!Down /\ ~T!Restart
  <2>1. /\ tup /\ dbTasks' = dbTasks
        /\ \A t \in TaskIds : Passes(t) \/ IsMade(t)
    BY <1>4, BegunStores
  <2>2. ASSUME NEW t \in TaskIds, t \notin tangled' PROVE ClientAt(t)'
    <3>1. CASE IsMade(t)
      BY <3>1 DEF IsMade, ClientAt
    <3>2. CASE Passes(t)
      <4>1. ClientAt(t)
        BY <2>1, <2>2, <3>2 DEF OwnerInv, Passes
      <4>2. tunnel'[t].noStore = tunnel[t].noStore /\ tunnel'[t].client = tunnel[t].client
        BY <3>2 DEF Passes
      <4>3. \A y \in T!Handlers : On(y, t)' /\ work'[y].pc = "create" => On(y, t) /\ work[y].pc = "create"
        BY <3>2 DEF Passes, On
      <4>4. \A y \in T!Handlers : Leaves(y, t) => Leaves(y, t)'
        BY <3>2, <4>2 DEF Passes, Leaves
      <4>5. tunnel[t].client \in dbClients =>
                tunnel[t].client \in dbClients' \/ \E x \in T!Handlers : Leaves(x, t)'
        BY <3>2 DEF Passes
      <4>6. QED
        BY <2>1, <4>1, <4>2, <4>3, <4>4, <4>5 DEF ClientAt
    <3>3. QED
      BY <2>1, <3>1, <3>2
  <2>3. QED
    BY <2>2 DEF OwnerInv
<1>5. CASE UNCHANGED <<tup, dbClients, dbTasks, tunnel, lastTask, lastClient, files, runList,
                       servers, work, tangled, acked>>
  BY <1>5 DEF OwnerInv, ClientAt, On, Leaves
<1>6. QED
  BY <1>1, <1>2, <1>3, <1>4, <1>5, NextCases

-----------------------------------------------------------------------------
(* What was told.                                                          *)

\* A step of a request tells only of its own task, at the end of a stop, of a save, or of the
\* start of a new task.
LEMMA StepTells ==
    ASSUME TaskTypes, EntryInv, PauseInv, NEW x \in T!Handlers, T!Step(x), NEW t \in TaskIds,
           acked'[t] # acked[t]
    PROVE  /\ t = work[x].task /\ work[x].op # "boot" /\ acked'[t] = T!Outcome(x)
           /\ \/ work[x].pc = "unlist" /\ work[x].op = "stop"
              \/ T!Save(x) /\ work[x].then = "done"
              \/ work[x].pc \in {"add", "list"} /\ work[x].op \notin Starts
           /\ Fate(x, "done")
<1>1. acked \in [TaskIds -> {"nothing", "started", "stopped", "deleted"}]
  BY DEF TaskTypes
<1>2. ASSUME NEW goal, Fate(x, goal)
      PROVE  /\ goal = "done" /\ t = work[x].task /\ work[x].op # "boot" /\ work[x].task # 0
             /\ acked'[t] = T!Outcome(x)
  BY <1>1, <1>2 DEF Fate, Told
<1>3. CASE T!Save(x)
  BY <1>2, <1>3, SaveDoes
<1>4. CASE T!SaveClients(x)
  <2>1. work[x].pc = "saveClients" /\ Fate(x, work[x].then)
    BY <1>4, SaveClientsDoes
  <2>2. work[x].task = 0
    BY <2>1 DEF PauseInv, PauseAt
  <2>3. QED
    BY <1>2, <2>1, <2>2
<1>5. CASE T!AddTask(x)
  <2>1. /\ work[x].pc = "add"
        /\ \/ Fate(x, IF work[x].op \in Starts THEN "status" ELSE "done")
           \/ Fate(x, "list")
           \/ Fate(x, IF work[x].op \in Starts THEN "status" ELSE "failed")
    BY <1>5, AddTaskDoes
  <2>2. CASE work[x].op \in Starts
    <3>1. \E goal \in {"status", "list"} : Fate(x, goal)
      BY <2>1, <2>2
    <3>2. QED
      BY <1>2, <3>1
  <2>3. CASE work[x].op \notin Starts
    <3>1. \E goal \in {"done", "list", "failed"} : Fate(x, goal)
      BY <2>1, <2>3
    <3>2. QED
      BY <1>2, <2>1, <2>3, <3>1
  <2>4. QED
    BY <2>2, <2>3
<1>6. CASE T!ListServer(x)
  <2>1. /\ work[x].pc = "list" /\ Fate(x, IF work[x].op \in Starts THEN "status" ELSE "done")
    BY <1>6, ListServerDoes
  <2>2. CASE work[x].op \in Starts
    <3>1. Fate(x, "status")
      BY <2>1, <2>2
    <3>2. QED
      BY <1>2, <3>1
  <2>3. CASE work[x].op \notin Starts
    <3>1. Fate(x, "done")
      BY <2>1, <2>3
    <3>2. QED
      BY <1>2, <2>1, <2>3, <3>1
  <2>4. QED
    BY <2>2, <2>3
<1>7. CASE T!Unlist(x)
  BY <1>2, <1>7, UnlistDoes
<1>8. CASE T!FindToStart(x)
  BY <1>2, <1>8, FindToStartDoes
<1>9. CASE T!StopLoad(x)
  BY <1>2, <1>9, StopLoadDoes
<1>10. CASE T!StopClose(x)
  BY <1>2, <1>10, StopCloseDoes
<1>11. CASE T!StopLook(x)
  BY <1>2, <1>11, StopLookDoes
<1>12. CASE T!DelLoad(x)
  BY <1>2, <1>12, DelLoadDoes
<1>13. CASE \/ T!Started(x) \/ T!StopPanics(x) \/ T!Stopped(x) \/ T!Remove(x) \/ T!Create(x)
            \/ T!TryPort(x) \/ T!Range(x) \/ T!NextTask(x)
  BY <1>13, StartedDoes, StopPanicsDoes, StoppedDoes, RemoveDoes, CreateDoes, TryPortDoes,
     RangeDoes, NextTaskDoes
<1>14. QED
  BY <1>3, <1>4, <1>5, <1>6, <1>7, <1>8, <1>9, <1>10, <1>11, <1>12, <1>13 DEF T!Step

\* A task that has no server gets one only from a request that lists it.
LEMMA StepDown ==
    ASSUME TaskTypes, EntryInv, PauseInv, NEW x \in T!Handlers, T!Step(x), NEW t \in TaskIds,
           NoServer(t), work[x].pc = "list" => work[x].task # t
    PROVE  NoServer(t)'
<1>1. Len(servers) \in Nat
  BY LenProperties DEF TaskTypes
<1>2. CASE /\ Len(servers') = Len(servers)
           /\ \A s \in 1 .. Len(servers') :
                 /\ servers'[s].task = servers[s].task
                 /\ servers'[s].state \in {"new", "open"} => servers'[s] = servers[s]
  BY <1>2 DEF NoServer, NoneRuns, Runs
<1>3. CASE /\ work[x].pc = "list" /\ Len(servers') = Len(servers) + 1
           /\ \A s \in 1 .. Len(servers) : servers'[s] = servers[s]
           /\ servers'[Len(servers) + 1].task = work[x].task
  BY <1>1, <1>3 DEF NoServer, NoneRuns, Runs
<1>4. QED
  BY <1>2, <1>3, StepFrame

\* After a step a task is still with requests that it was with, with the request that
\* collects the tasks of a client, or with DealBridgeTask.
LEMMA StepLists ==
    ASSUME TaskTypes, EntryInv, PauseInv, NEW x \in T!Handlers, T!Step(x), NEW t \in TaskIds,
           NEW y \in T!Handlers, Lists(y, t)'
    PROVE  \/ Lists(y, t) /\ work'[y].op = work[y].op
           \/ work'[y].op \in {"delClient", "closeClient"}
           \/ Lists(x, t) /\ work[x].op = "config"
<1>1. t # 0 /\ work[x].pc # "idle"
  BY IdFacts, StepGoesOn
<1>2. CASE y = x
  <2>1. PICK w : w = work'[x] /\ GoesOn(work[x], w)
    BY StepGoesOn
  <2>2. /\ w.op = work[x].op
        /\ w.task = 0 \/ w.task = work[x].task \/ w.task \in work[x].todo
        /\ \A u \in w.todo : u \in work[x].todo \/ work[x].op \in {"delClient", "closeClient"}
    BY <1>2, <2>1 DEF GoesOn, Lists
  <2>3. QED
    BY <1>1, <1>2, <2>1, <2>2 DEF Lists
<1>3. CASE y # x /\ work'[y] = work[y]
  BY <1>3 DEF Lists
<1>4. CASE /\ work[x].task \in TaskIds /\ work[x].op = "config"
           /\ work'[y] = OnOpen(work[x].task) \/ work'[y] = OnStart(work[x].task)
  BY <1>1, <1>4, OnOpenFacts DEF Lists
<1>5. QED
  BY <1>2, <1>3, <1>4, StepGoesOn

\* What was stopped or deleted stays so over the steps of requests.
LEMMA StepAcks ==
    ASSUME TaskTypes, EntryInv, PauseInv, WorkInv, AckInv, UnlistInv, NEW x \in T!Handlers, T!Step(x)
    PROVE  AckInv'
<1> SUFFICES ASSUME NEW t \in TaskIds, t \notin tangled' PROVE AckAt(t)'
  BY DEF AckInv
<1>1. tup /\ t \notin tangled /\ work[x].pc # "idle" /\ t # 0
  BY StepFrame, StepGoesOn, IdFacts
<1>2. CASE acked'[t] = acked[t]
  <2> SUFFICES ASSUME acked[t] \in {"stopped", "deleted"}
               PROVE  /\ \A r \in files'.tasks : r.id = t => ~r.status
                      /\ NoServer(t)' /\ (t \in dbTasks' => ~tunnel'[t].status)
                      /\ \A y \in T!Handlers : Lists(y, t)' => work'[y].op \in Stops \ {"edit"}
    BY <1>2 DEF AckAt
  <2>1. /\ \A r \in files.tasks : r.id = t => ~r.status
        /\ NoServer(t) /\ (t \in dbTasks => ~tunnel[t].status)
        /\ \A y \in T!Handlers : Lists(y, t) => work[y].op \in Stops \ {"edit"}
    BY <1>1 DEF AckInv, AckAt
  <2>2. work[x].task = t => AtWork(t, work[x]) /\ work[x].op \in Stops \ {"edit"}
    BY <1>1, <2>1, WorkFacts DEF Lists
  <2>3. work[x].task = t => work[x].pc \notin {"list", "status", "create"}
    BY <2>2 DEF AtWork, Stops, Ends, Starts, Adds
  <2>4. \A r \in files'.tasks : r.id = t => ~r.status
    BY <2>1, StepStores, SavedStatus
  <2>5. NoServer(t)'
    BY <2>1, <2>3, StepDown
  <2>6. t \in dbTasks' => ~tunnel'[t].status
    BY <2>1, <2>3, StepStores
  <2>7. ASSUME NEW y \in T!Handlers, Lists(y, t)' PROVE work'[y].op \in Stops \ {"edit"}
    <3>1. \/ Lists(y, t) /\ work'[y].op = work[y].op
          \/ work'[y].op \in {"delClient", "closeClient"}
          \/ Lists(x, t) /\ work[x].op = "config"
      BY <2>7, StepLists
    <3>2. QED
      BY <2>1, <3>1 DEF Stops, Ends
  <2>8. QED
    BY <2>4, <2>5, <2>6, <2>7
<1>3. CASE acked'[t] # acked[t] /\ acked'[t] \in {"stopped", "deleted"}
  <2>1. /\ t = work[x].task /\ work[x].op # "boot" /\ acked'[t] = T!Outcome(x)
        /\ \/ work[x].pc = "unlist" /\ work[x].op = "stop"
           \/ T!Save(x) /\ work[x].then = "done"
           \/ work[x].pc \in {"add", "list"} /\ work[x].op \notin Starts
        /\ Fate(x, "done")
    BY <1>3, StepTells
  <2>2. work[x].op \notin {"add", "start", "edit", "open"}
    BY <1>3, <2>1 DEF T!Outcome
  <2>3. /\ AtWork(t, work[x])
        /\ \A y \in T!Handlers : y # x => ~Touches(work[y], tunnel[t], t)
    BY <1>1, <2>1, WorkFacts
  <2>4. \A y \in T!Handlers : y # x => work'[y] = work[y]
    BY <2>1 DEF Fate, TaskTypes
  <2>5. ASSUME NEW y \in T!Handlers, Lists(y, t)' PROVE FALSE
    <3>1. CASE y # x
      BY <2>3, <2>4, <2>5, <3>1 DEF Lists, Touches
    <3>2. CASE y = x
      <4>1. work[x] \in Job /\ work'[x] = Gone(work[x], "done")
        BY <2>1 DEF TaskTypes, Fate
      <4>2. PICK w : w = Gone(work[x], "done") /\ work'[x] = w
        BY <4>1
      <4>3. w.task = 0 /\ (w.pc = "idle" \/ w.todo = work[x].todo)
        BY <4>1, <4>2, GoneFacts
      <4>4. t \notin work[x].todo
        BY <2>3 DEF AtWork
      <4>5. QED
        BY <1>1, <2>5, <3>2, <4>2, <4>3, <4>4 DEF Lists
    <3>3. QED
      BY <3>1, <3>2
  <2>6. CASE work[x].pc = "unlist" /\ work[x].op = "stop"
    <3>1. NoServer(t) /\ ~tunnel[t].status
      BY <2>3, <2>6 DEF AtWork
    <3>2. \A r \in files.tasks : r.id = t => ~r.status
      BY <1>1, <2>1, <2>6 DEF UnlistInv
    <3>3. files'.tasks = files.tasks /\ ~tunnel'[t].status /\ NoServer(t)'
      <4>1. files'.tasks = files.tasks
        BY <2>6, StepStores, SaveDoes
      <4>2. tunnel'[t].status = tunnel[t].status
        BY <2>6, StepStores
      <4>3. NoServer(t)'
        BY <2>6, <3>1, StepDown
      <4>4. QED
        BY <3>1, <4>1, <4>2, <4>3
    <3>4. QED
      BY <2>5, <3>2, <3>3 DEF AckAt
  <2>7. CASE T!Save(x) /\ work[x].then = "done"
    <3>1. work[x].pc = "save" /\ dbTasks' = dbTasks
      BY <2>7, SaveDoes
    <3>2. t \notin dbTasks /\ NoServer(t)
      BY <2>2, <2>3, <2>7, <3>1 DEF AtWork, Saving, Starts, Off
    <3>3. \A r \in files'.tasks : r.id # t
      BY <2>7, <3>2, SavedStatus
    <3>4. NoServer(t)'
      BY <3>1, <3>2, StepDown
    <3>5. QED
      BY <2>5, <3>1, <3>2, <3>3, <3>4 DEF AckAt
  <2>8. CASE work[x].pc \in {"add", "list"} /\ work[x].op \notin Starts
    BY <2>1, <2>2, <2>3, <2>8 DEF AtWork, Starts, Adds
  <2>9. QED
    BY <2>1, <2>6, <2>7, <2>8
<1>4. QED
  BY <1>2, <1>3 DEF AckAt

\* A task about to be unlisted is stored as stopped.
LEMMA StepUnlists ==
    ASSUME TaskTypes, EntryInv, PauseInv, WorkInv, UnlistInv, NEW x \in T!Handlers, T!Step(x)
    PROVE  UnlistInv'
<1> SUFFICES ASSUME NEW y \in T!Handlers, work'[y].pc = "unlist", work'[y].task \notin tangled'
             PROVE  \A r \in files'.tasks : r.id = work'[y].task => ~r.status
  BY DEF UnlistInv
<1>1. tup /\ tangled \subseteq tangled' /\ work[x].pc # "idle"
  BY StepFrame, StepGoesOn
<1>2. CASE y = x
  <2>1. PICK w : w = work'[x] /\ GoesOn(work[x], w)
    BY StepGoesOn
  <2>2. work[x].pc = "save" /\ work[x].then = "unlist" /\ w.task = work[x].task
    BY <1>2, <2>1 DEF GoesOn
  <2>3. PICK t \in TaskIds : t = work[x].task
    BY <2>2, HasTask
  <2>4. ~tunnel[t].status
    <3>1. AtWork(t, work[x])
      BY <1>1, <1>2, <2>1, <2>2, <2>3, WorkFacts
    <3>2. QED
      BY <2>2, <3>1 DEF AtWork, Saving
  <2>5. T!Save(x)
    BY <2>2, StepStores
  <2>6. QED
    BY <1>2, <2>1, <2>2, <2>3, <2>4, <2>5, SavedStatus
<1>3. CASE y # x
  <2>1. work'[y] = work[y]
    BY <1>3, StepGoesOn, OnOpenFacts
  <2>2. PICK t \in TaskIds : t = work[y].task
    BY <2>1, HasTask
  <2>3. t \notin tangled /\ \A r \in files.tasks : r.id = t => ~r.status
    BY <1>1, <2>1, <2>2 DEF UnlistInv
  <2>4. ~tunnel[t].status
    <3>1. AtWork(t, work[y])
      BY <1>1, <2>1, <2>2, <2>3, WorkFacts
    <3>2. QED
      BY <2>1, <3>1 DEF AtWork
  <2>5. QED
    BY <2>1, <2>2, <2>3, <2>4, StepStores, SavedStatus
<1>4. QED
  BY <1>2, <1>3

\* What was stopped or deleted stays so over every step.
LEMMA AckStep ==
    ASSUME TaskTypes, IdInv, EntryInv, PauseInv, WorkInv, AckInv, UnlistInv, [T!Next]_(T!vars)
    PROVE  AckInv' /\ UnlistInv'
<1>1. CASE \E x \in T!Handlers : T!Step(x)
  BY <1>1, StepAcks, StepUnlists
<1>2. CASE T!Down
  BY <1>2, DownDoes DEF AckInv, AckAt, UnlistInv
<1>3. CASE T!Restart
  <2>1. /\ ~tup /\ work' = [work EXCEPT ![T!Main] = OnBoot(T!ToBoot)]
        /\ T!ToBoot \in SUBSET TaskIds
        /\ UNCHANGED <<files, servers, tangled, acked>>
        /\ \A r \in files.tasks : r.client \in dbClients' => tunnel'[r.id].status = r.status
        /\ \A t \in dbTasks' : \E r \in files.tasks : r.id = t /\ r.client \in dbClients'
        /\ \A t \in T!ToBoot : \E r \in files.tasks : r.id = t /\ r.status
    BY <1>3, RestartDoes
  <2>2. PICK w : w = OnBoot(T!ToBoot)
    OBVIOUS
  <2>3. w.pc = "next" /\ w.task = 0 /\ w.todo = T!ToBoot
    BY <2>1, <2>2, OnBootFacts
  <2>4. \A y \in T!Handlers : work'[y] = w \/ work'[y].pc = "idle"
    BY <2>1, <2>2 DEF IdInv, TaskTypes
  <2>5. UnlistInv'
    BY <2>3, <2>4 DEF UnlistInv
  <2>6. ASSUME NEW t \in TaskIds, t \notin tangled' PROVE AckAt(t)'
    <3>1. ASSUME acked[t] \in {"stopped", "deleted"} PROVE \A r \in files.tasks : r.id = t => ~r.status
      BY <2>1, <2>6, <3>1 DEF AckInv, AckAt
    <3>2. NoServer(t)'
      BY <2>1 DEF IdInv, NoServer, NoneRuns, Runs
    <3>3. ASSUME \A r \in files.tasks : r.id = t => ~r.status
          PROVE  /\ t \in dbTasks' => ~tunnel'[t].status
                 /\ \A y \in T!Handlers : ~Lists(y, t)'
      <4>1. t \notin T!ToBoot /\ t # 0
        BY <2>1, <3>3, IdFacts
      <4>2. QED
        BY <2>1, <2>3, <2>4, <3>3, <4>1 DEF Lists
    <3>4. QED
      BY <2>1, <3>1, <3>2, <3>3 DEF AckAt
  <2>7. QED
    BY <2>5, <2>6 DEF AckInv
<1>4. CASE Begun /\ ~T!Down /\ ~T!Restart
  <2>1. /\ tup /\ files' = files /\ dbTasks' = dbTasks
        /\ \A t \in TaskIds : Passes(t) \/ IsMade(t)
    BY <1>4, BegunStores
  <2>2. ASSUME NEW t \in TaskIds, t \notin tangled' PROVE AckAt(t)'
    <3>1. CASE acked'[t] = "nothing"
      BY <3>1 DEF AckAt
    <3>2. CASE Passes(t) /\ acked'[t] = acked[t] /\ acked'[t] # "nothing"
      <4>1. AckAt(t)
        BY <2>2, <3>2 DEF AckInv, Passes
      <4>2. tunnel'[t].status = tunnel[t].status /\ (NoServer(t) => NoServer(t)')
        BY <3>2 DEF Passes
      <4>3. \A y \in T!Handlers : Lists(y, t)' => Lists(y, t) /\ work'[y] = work[y]
        BY <3>2 DEF Passes, Lists
      <4>4. QED
        BY <2>1, <3>2, <4>1, <4>2, <4>3 DEF AckAt
    <3>3. QED
      BY <2>1, <3>1, <3>2 DEF Passes, IsMade
  <2>3. ASSUME NEW y \in T!Handlers, work'[y].pc = "unlist", work'[y].task \notin tangled'
        PROVE  \A r \in files'.tasks : r.id = work'[y].task => ~r.status
    <3>1. ASSUME NEW r \in files.tasks, r.id = work'[y].task PROVE ~r.status
      <4>1. PICK t \in TaskIds : t = r.id
        BY DEF TaskTypes, Record
      <4>2. ~IsMade(t)
        BY <2>3, <3>1, <4>1 DEF IsMade, On
      <4>3. Passes(t)
        BY <2>1, <4>2
      <4>4. work'[y] = work[y] /\ t \notin tangled
        BY <2>3, <3>1, <4>1, <4>3 DEF Passes
      <4>5. QED
        BY <2>1, <2>3, <3>1, <4>1, <4>4 DEF UnlistInv
    <3>2. QED
      BY <2>1, <3>1
  <2>4. QED
    BY <2>2, <2>3 DEF AckInv, UnlistInv
<1>5. CASE UNCHANGED <<tup, dbClients, dbTasks, tunnel, lastTask, lastClient, files, runList,
                       servers, work, tangled, acked>>
  BY <1>5 DEF AckInv, AckAt, UnlistInv, NoServer, Lists
<1>6. QED
  BY <1>1, <1>2, <1>3, <1>4, <1>5, NextCases

-----------------------------------------------------------------------------
\* The process starts with one client and no tasks.
LEMMA TaskInit == ASSUME T!Init PROVE TaskInv
<1>1. /\ tup = TRUE /\ dbClients = {1} /\ lastClient = 1 /\ dbTasks = {}
      /\ tunnel = [t \in TaskIds |-> T!NoTunnel] /\ lastTask = 0
      /\ files = [clients |-> {1}, tasks |-> {}]
      /\ runList = [t \in TaskIds |-> T!None] /\ servers = <<>>
      /\ work = [x \in T!Handlers |-> T!Idle]
      /\ tangled = {} /\ acked = [t \in TaskIds |-> "nothing"]
  BY DEF T!Init
<1>2. Len(servers) = 0 /\ 1 .. Len(servers) = {} /\ servers \in Seq(Server)
  BY <1>1, EmptySeq
<1>3. \A x \in T!Handlers : work[x] = T!Idle
  BY <1>1
<1>4. TaskTypes
  <2>1. T!NoTunnel \in Tunnel
    BY DEF T!NoTunnel, Tunnel, Port
  <2>2. files \in [clients : SUBSET TaskIds, tasks : SUBSET Record] /\ files.tasks = {}
    BY <1>1, IdFacts
  <2>3. runList \in [TaskIds -> T!Entry]
    BY <1>1, IdFacts
  <2>4. tunnel \in [TaskIds -> Tunnel]
    BY <1>1, <2>1
  <2>5. work \in [T!Handlers -> Job]
    BY <1>1, IdleFacts
  <2>6. Len(servers) <= MaxServers
    BY <1>2, IdFacts
  <2>7. QED
    BY <1>1, <1>2, <2>2, <2>3, <2>4, <2>5, <2>6, IdFacts DEF TaskTypes
<1>5. IdInv
  <2>1. \A t \in TaskIds : runList[t] = T!None
    BY <1>1
  <2>2. \A x \in T!Handlers :
           work[x] = T!Idle /\ work[x].task = 0 /\ work[x].todo = {} /\ work[x].op = "none"
    BY <1>3, IdleFacts
  <2>3. QED
    BY <1>1, <1>2, <2>1, <2>2 DEF IdInv
<1>6. EntryInv
  <2>1. \A t \in TaskIds : runList[t] = 0
    BY <1>1, IdFacts
  <2>2. \A x \in T!Handlers : work[x].pc = "idle"
    BY <1>3, IdleFacts
  <2>3. QED
    BY <1>2, <2>1, <2>2 DEF EntryInv
<1>7. WorkInv
  <2>1. \A x \in T!Handlers : work[x].pc = "idle"
    BY <1>3, IdleFacts
  <2>2. ASSUME NEW t \in TaskIds PROVE runList[t] = T!None /\ Off(t)
    BY <1>1, <1>2 DEF Off, NoServer, NoneRuns
  <2>3. ASSUME NEW t \in TaskIds PROVE Alone(t) /\ StateAt(t)
    BY <1>4, <2>1, <2>2, OffFacts DEF Alone, StateAt, Touches, On
  <2>4. QED
    BY <2>3 DEF WorkInv
<1>8. PauseInv
  BY <1>3, IdleFacts DEF PauseInv
<1>9. FileInv /\ OwnerInv
  <2>1. \A x \in T!Handlers : work[x].pc = "idle"
    BY <1>3, IdleFacts
  <2>2. QED
    BY <1>1, <2>1 DEF FileInv, FileAt, OwnerInv, ClientAt, On
<1>10. AckInv /\ UnlistInv
  <2>1. \A x \in T!Handlers : work[x].pc = "idle"
    BY <1>3, IdleFacts
  <2>2. \A t \in TaskIds : acked[t] = "nothing"
    BY <1>1
  <2>3. QED
    BY <2>1, <2>2 DEF AckInv, AckAt, UnlistInv
<1>11. QED
  BY <1>4, <1>5, <1>6, <1>7, <1>8, <1>9, <1>10 DEF TaskInv

\* The invariant of the tasks (server.go, db.go, file.go, controllers/index.go): whatever
\* requests, starts of servers and crashes interleave, a task on which no two activities
\* overlapped is, at each step of its one request, as that step expects it.
THEOREM TaskInvariant == Spec => [](part = "tasks" => TaskInv)
<1>1. Init => (part = "tasks" => TaskInv)
  BY TaskInit DEF Init
<1>2. (part = "tasks" => TaskInv) /\ [Next]_vars => (part = "tasks" => TaskInv)'
  <2> SUFFICES ASSUME part = "tasks" => TaskInv, [Next]_vars, part' = "tasks"
               PROVE  TaskInv'
    OBVIOUS
  <2>1. part = "tasks" /\ [T!Next]_(T!vars)
    BY DEF Next, vars, T!vars, T!dbvars, T!runvars, T!bounds
  <2>2. /\ TaskTypes /\ IdInv /\ EntryInv /\ WorkInv /\ PauseInv /\ FileInv /\ OwnerInv
        /\ AckInv /\ UnlistInv
    BY <2>1 DEF TaskInv
  <2>3. TaskTypes' /\ IdInv' /\ EntryInv' /\ PauseInv'
    BY <2>1, <2>2, RestKept
  <2>4. WorkInv'
    BY <2>1, <2>2, WorkStep
  <2>5. FileInv' /\ OwnerInv'
    BY <2>1, <2>2, FileStep, ClientStep
  <2>6. AckInv' /\ UnlistInv'
    BY <2>1, <2>2, AckStep
  <2>7. QED
    BY <2>3, <2>4, <2>5, <2>6 DEF TaskInv
<1>3. QED
  BY <1>1, <1>2, PTL DEF Spec

\* When nothing is done to a task, nobody is about to save it or to delete it: RunList, the
\* listeners, the database and the file agree on it (server.go RunList, AddTask, StopServer;
\* db.go UpdateTask; file.go StoreTasksToJsonFile).
THEOREM TasksAreSound == Spec => []TasksSound
<1>1. ASSUME TaskInv PROVE T!TypeOK
  <2>1. TaskTypes
    BY <1>1 DEF TaskInv
  <2>2. ASSUME NEW t \in TaskIds
        PROVE  tunnel[t].mode \in Modes \cup {"tcp"} /\ tunnel[t].status \in BOOLEAN
    <3>1. tunnel[t] \in Tunnel
      BY <2>1 DEF TaskTypes
    <3>2. tunnel[t].status \in BOOLEAN
      BY <3>1 DEF Tunnel
    <3>3. QED
      BY <3>1, <3>2 DEF Tunnel
  <2>3. files.clients \subseteq TaskIds /\ \A r \in files.tasks : r.id \in TaskIds
    BY <2>1 DEF TaskTypes, Record
  <2>4. \A s \in 1 .. Len(servers) : servers[s].state \in {"new", "open", "failed", "closed"}
    <3>1. \A s \in 1 .. Len(servers) : servers[s] \in Server
      BY <2>1, ElementOfSeq DEF TaskTypes
    <3>2. QED
      BY <3>1 DEF Server
  <2>5. ASSUME NEW x \in T!Handlers
        PROVE  work[x].task \in TaskIds \cup {0} /\ work[x].todo \subseteq TaskIds
    <3>1. work[x] \in Job
      BY <2>1 DEF TaskTypes
    <3>2. QED
      BY <3>1 DEF Job
  <2>6. QED
    BY <2>1, <2>2, <2>3, <2>4, <2>5 DEF T!TypeOK, TaskTypes
<1>2. ASSUME TaskInv, NEW t \in TaskIds, tup, ~T!Busy(t), t \notin tangled
      PROVE  /\ T!Open(t) = (IF runList[t] \in {T!None, T!Secret} THEN {} ELSE {runList[t]})
             /\ runList[t] # T!None => t \in dbTasks /\ tunnel[t].status
             /\ t \in dbTasks /\ ~tunnel[t].noStore =>
                   /\ \E r \in files.tasks : r.id = t /\ r.status = tunnel[t].status
                   /\ tunnel[t].client \in dbClients
  <2>1. TaskTypes /\ WorkInv /\ FileInv /\ OwnerInv
    BY <1>2 DEF TaskInv
  <2>2. /\ \A y \in T!Handlers : ~Touches(work[y], tunnel[t], t)
        /\ ~Starting(t) /\ Settled(t) /\ Listed(t)
    BY <1>2, <2>1, Unbusy
  <2>3. T!Open(t) = (IF runList[t] \in {T!None, T!Secret} THEN {} ELSE {runList[t]})
    <3>1. runList[t] \in {0, -1} \cup 1 .. MaxServers
      BY <2>1, IdFacts DEF TaskTypes
    <3>2. CASE runList[t] \in {0, -1}
      <4>1. NoServer(t)
        BY <2>1, <2>2, <3>2, OffFacts
      <4>2. QED
        BY <3>2, <4>1, IdFacts DEF T!Open, NoServer, NoneRuns, Runs
    <3>3. CASE runList[t] \in 1 .. MaxServers
      <4>1. runList[t] > 0 /\ runList[t] \notin {0, -1}
        BY <3>3, IdFacts
      <4>2. /\ runList[t] \in 1 .. Len(servers) /\ servers[runList[t]].task = t
            /\ servers[runList[t]].state = "open"
        BY <2>1, <2>2, <4>1, ListedOpen
      <4>3. \A s \in 1 .. Len(servers) :
               servers[s].task = t /\ servers[s].state = "open" => s = runList[t]
        BY <2>2 DEF Listed, ListsOwn, Runs
      <4>4. QED
        BY <4>1, <4>2, <4>3, IdFacts DEF T!Open
    <3>4. QED
      BY <3>1, <3>2, <3>3
  <2>4. runList[t] # T!None => t \in dbTasks /\ tunnel[t].status
    BY <2>2 DEF Settled
  <2>5. \A y \in T!Handlers : ~On(y, t) /\ ~Leaves(y, t)
    BY <2>2 DEF On, Leaves, Touches
  <2>6. ASSUME t \in dbTasks, ~tunnel[t].noStore
        PROVE  /\ \E r \in files.tasks : r.id = t /\ r.status = tunnel[t].status
               /\ tunnel[t].client \in dbClients
    <3>1. FileAt(t) /\ ClientAt(t)
      BY <1>2, <2>1 DEF FileInv, OwnerInv
    <3>2. \E r \in files.tasks : r.id = t /\ r.status = tunnel[t].status
      BY <2>5, <2>6, <3>1 DEF FileAt
    <3>3. tunnel[t].client \in dbClients
      BY <2>5, <2>6, <3>1 DEF ClientAt
    <3>4. QED
      BY <3>2, <3>3
  <2>7. QED
    BY <2>3, <2>4, <2>6
<1>3. ASSUME TaskInv PROVE T!TasksSound
  <2>1. T!Agree
    BY <1>2, <1>3 DEF T!Agree
  <2>2. QED
    BY <1>1, <1>3, <2>1 DEF T!TasksSound
<1>4. (part = "tasks" => TaskInv) => TasksSound
  BY <1>3 DEF TasksSound
<1>5. QED
  BY <1>4, TaskInvariant, PTL

\* A task that was stopped or deleted, and the request answered so, does not listen until
\* somebody starts it, also when the process crashes and starts the stored tasks (server.go
\* StopServer, DelTask, InitFromCsv).
THEOREM TasksStayDown == Spec => []StaysDown
<1>1. ASSUME TaskInv, NEW t \in TaskIds, acked[t] \in {"stopped", "deleted"}, t \notin tangled
      PROVE  T!Open(t) = {}
  <2>1. CASE tup
    <3>1. NoServer(t)
      BY <1>1, <2>1 DEF TaskInv, AckInv, AckAt
    <3>2. QED
      BY <3>1 DEF T!Open, NoServer, NoneRuns, Runs
  <2>2. CASE ~tup
    <3>1. \A s \in 1 .. Len(servers) : servers[s].state \notin {"new", "open"}
      BY <1>1, <2>2 DEF TaskInv, IdInv
    <3>2. QED
      BY <3>1 DEF T!Open
  <2>3. QED
    BY <2>1, <2>2
<1>2. ASSUME TaskInv PROVE T!StaysDown
  BY <1>1, <1>2 DEF T!StaysDown
<1>3. (part = "tasks" => TaskInv) => StaysDown
  BY <1>2 DEF StaysDown
<1>4. QED
  BY <1>3, TaskInvariant, PTL

=============================================================================
