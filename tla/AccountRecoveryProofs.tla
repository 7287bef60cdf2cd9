----------------------- MODULE AccountRecoveryProofs -----------------------
(***************************************************************************)
(* TLAPS proofs about AccountRecovery, for any number of pages, machines,  *)
(* codes, lost answers and crashes.                                        *)
(***************************************************************************)
EXTENDS AccountRecovery, TLAPS

PageRow == [vault : Key \cup {None}, code : Code \cup {None}, replaces : Code \cup {None},
            wrapped : BOOLEAN, sealing : BOOLEAN, pc : {"rest", "publish", "seal"},
            listed : Code \cup {None}]
CliRow == [key : Key \cup {None}, file : Code \cup {None, Torn}, code : Code \cup {None},
           pc : {"rest", "file", "publish", "show", "clean"}]

\* The account key, and the keys a CLI let go before it was established.
Good == ({account} \cup strays) \ {None}

\* The account is established with its first committed wrapper, for good.
Established ==
  /\ active = None => committed = {} /\ account = None
  /\ active # None => active \in committed /\ account # None

\* Every committed wrapper holds a good key, and so does every rotation.
WrapperInv ==
  /\ \A c \in committed : made[c] # None /\ made[c].key \in Good
  /\ \A c \in Code : made[c] # None /\ made[c].purpose = "rotation" => made[c].key \in Good
  /\ \A c \in net : made[c] # None

KeyInv ==
  /\ methods \subseteq Good
  /\ envelope # None => envelope.key \in Good
  /\ told \subseteq committed

\* The page q has good keys and codes that were made and shown; one it calls
\* wrapped is committed.
PageOk(q, good, com, made_, shown_) ==
  /\ q.vault \in good \cup {None}
  /\ q.listed \in com \cup {None}
  /\ q.code # None => made_[q.code] # None /\ q.code \in shown_
  /\ q.code # None /\ q.wrapped => q.code \in com
  /\ q.pc # "rest" => q.code # None
  /\ q.pc = "seal" => q.wrapped

Awaits(q, made_) == q.file \in Code /\ made_[q.file].purpose = "setup"

\* The machine q keeps the code it publishes in its file until it has shown it;
\* its key is good or is that of the account it is about to establish.
CliOk(q, good, com, made_, shown_) ==
  /\ q.file \in Code => made_[q.file] # None
  /\ q.pc # "rest" => q.code # None /\ made_[q.code] # None
  /\ q.pc \in {"publish", "show", "clean"} => q.file = q.code
  /\ q.pc \in {"show", "clean"} => q.code \in com
  /\ q.pc = "clean" => q.code \in shown_
  /\ q.pc = "file" => ~Awaits(q, made_) /\ q.key # None
  /\ \/ q.key \in good \cup {None}
     \/ q.pc = "file" /\ q.key = made_[q.code].key
     \/ Awaits(q, made_) /\ q.key = made_[q.file].key

PageInv == \A p \in Page : PageOk(page[p], Good, committed, made, shown)
CliInv == \A m \in Cli : CliOk(cli[m], Good, committed, made, shown)

\* The User has seen the code or a CLI still holds it, unless a setup wrote
\* over it.
Kept(c) == c \in shown \cup buried \/ \E m \in Cli : cli[m].file = c

\* A request that may still arrive is kept, was committed, or is the setup of
\* an account that is established.
Harmless(c) ==
  \/ Kept(c) \/ c \in committed
  \/ active # None /\ made[c].purpose = "setup"

KeptInv ==
  /\ active # None => Kept(active)
  /\ \A c \in net : Harmless(c)

IInv ==
  TypeOK /\ Established /\ WrapperInv /\ KeyInv /\ PageInv /\ CliInv /\ KeptInv

-----------------------------------------------------------------------------
(* Frames                                                                  *)

\* Nothing that was good, committed, shown or made ceases to be.
Grows ==
  /\ Good \subseteq Good' /\ committed \subseteq committed' /\ shown \subseteq shown'
  /\ \A c \in Code : made[c] # None => made'[c] = made[c]

LEMMA TypesOfRows ==
  ASSUME TypeOK
  PROVE  /\ page \in [Page -> PageRow] /\ cli \in [Cli -> CliRow]
         /\ made \in [Code -> Making \cup {None}]
BY DEF TypeOK, PageRow, CliRow

LEMMA PageMonotone ==
  ASSUME ConstantsAssumption, NEW q \in PageRow, NEW g, NEW g2, NEW com, NEW com2,
         NEW mk, NEW mk2, NEW sh, NEW sh2,
         g \subseteq g2, com \subseteq com2, sh \subseteq sh2,
         \A c \in Code : mk[c] # None => mk2[c] = mk[c],
         PageOk(q, g, com, mk, sh)
  PROVE  PageOk(q, g2, com2, mk2, sh2)
BY DEF PageOk, PageRow

LEMMA CliMonotone ==
  ASSUME ConstantsAssumption, NEW q \in CliRow, NEW g, NEW g2, NEW com, NEW com2,
         NEW mk, NEW mk2, NEW sh, NEW sh2,
         g \subseteq g2, com \subseteq com2, sh \subseteq sh2,
         \A c \in Code : mk[c] # None => mk2[c] = mk[c],
         CliOk(q, g, com, mk, sh)
  PROVE  CliOk(q, g2, com2, mk2, sh2)
<1>1. q.code # None => q.code \in Code
  BY DEF CliRow
<1>2. q.file \in Code => mk2[q.file] = mk[q.file]
  BY DEF CliOk
<1>3. q.pc # "rest" => mk2[q.code] = mk[q.code]
  BY <1>1 DEF CliOk
<1>4. Awaits(q, mk2) <=> Awaits(q, mk)
  BY <1>2 DEF Awaits
<1>5. \/ q.key \in g2 \cup {None}
      \/ q.pc = "file" /\ q.key = mk2[q.code].key
      \/ Awaits(q, mk2) /\ q.key = mk2[q.file].key
  BY <1>2, <1>3, <1>4 DEF CliOk, Awaits
<1> QED BY <1>1, <1>2, <1>3, <1>4, <1>5 DEF CliOk

\* Of the pages and machines only the one that moves is new.
LEMMA StepFrame ==
  ASSUME ConstantsAssumption, IInv, TypeOK', Grows,
         Established', WrapperInv', KeyInv', KeptInv',
         \A p \in Page : \/ page'[p] = page[p]
                         \/ PageOk(page'[p], Good', committed', made', shown'),
         \A m \in Cli : \/ cli'[m] = cli[m]
                        \/ CliOk(cli'[m], Good', committed', made', shown')
  PROVE  IInv'
<1>1. PageInv'
  <2> SUFFICES ASSUME NEW p \in Page, page'[p] = page[p]
               PROVE  PageOk(page[p], Good', committed', made', shown')
    BY DEF PageInv
  <2>1. page[p] \in PageRow /\ PageOk(page[p], Good, committed, made, shown)
    BY TypesOfRows DEF IInv, PageInv
  <2> QED BY <2>1, PageMonotone DEF Grows
<1>2. CliInv'
  <2> SUFFICES ASSUME NEW m \in Cli, cli'[m] = cli[m]
               PROVE  CliOk(cli[m], Good', committed', made', shown')
    BY DEF CliInv
  <2>1. cli[m] \in CliRow /\ CliOk(cli[m], Good, committed, made, shown)
    BY TypesOfRows DEF IInv, CliInv
  <2> QED BY <2>1, CliMonotone DEF Grows
<1> QED BY <1>1, <1>2 DEF IInv

\* Codes stay kept while a file is only given up for one that was shown or buried.
LEMMA SentFrame ==
  ASSUME IInv, UNCHANGED <<active, committed>>,
         NEW c \in Code, made[c] # None, Harmless(c), net' \subseteq net \cup {c},
         shown \subseteq shown', buried \subseteq buried',
         \A b \in Code : made[b] # None => made'[b] = made[b],
         \A m \in Cli : cli[m].file \in Code =>
                          cli'[m].file = cli[m].file \/ cli[m].file \in shown' \cup buried'
  PROVE  KeptInv'
<1>1. \A b \in Code : Kept(b) => Kept(b)'
  BY DEF Kept
<1>2. \A b \in net' : b \in Code /\ made'[b] = made[b] /\ Harmless(b)
  BY DEF IInv, WrapperInv, KeptInv, TypeOK
<1>3. active # None => active \in Code
  BY DEF IInv, TypeOK
<1> QED BY <1>1, <1>2, <1>3 DEF IInv, KeptInv, Harmless

LEMMA KeptFrame ==
  ASSUME IInv, UNCHANGED <<active, committed>>, net' \subseteq net,
         shown \subseteq shown', buried \subseteq buried',
         \A c \in Code : made[c] # None => made'[c] = made[c],
         \A m \in Cli : cli[m].file \in Code =>
                          cli'[m].file = cli[m].file \/ cli[m].file \in shown' \cup buried'
  PROVE  KeptInv'
<1>1. \A c \in Code : Kept(c) => Kept(c)'
  BY DEF Kept
<1>2. \A c \in net : c \in Code /\ made'[c] = made[c]
  BY DEF IInv, WrapperInv, TypeOK
<1>3. active # None => active \in Code
  BY DEF IInv, TypeOK
<1> QED BY <1>1, <1>2, <1>3 DEF IInv, KeptInv, Harmless

\* What the service has stays, and new keys it is given are good.
LEMMA ServiceFrame ==
  ASSUME IInv, UNCHANGED <<active, committed, account>>, strays \subseteq strays',
         made' = made, \A c \in net' : made[c] # None, told' \subseteq committed,
         methods' \subseteq Good', envelope' # None => envelope'.key \in Good'
  PROVE  Established' /\ WrapperInv' /\ KeyInv' /\ Good \subseteq Good'
<1>1. Good \subseteq Good'
  BY DEF Good
<1> QED BY <1>1 DEF IInv, Established, WrapperInv, KeyInv

-----------------------------------------------------------------------------
(* Pages                                                                   *)

\* A page moves alone; keys may leave their maker with it.
LEMMA PageOnly ==
  ASSUME ConstantsAssumption, IInv, NEW p \in Page, NEW now \in PageRow, Page_(p, now),
         PageOk(now, Good', committed, made, shown),
         UNCHANGED <<service, made, net, cli, shown, told, left, buried>>,
         strays \subseteq strays', strays' \subseteq Key
  PROVE  IInv'
<1>1. /\ page' \in [Page -> PageRow] /\ page'[p] = now
      /\ \A r \in Page : r # p => page'[r] = page[r]
  BY TypesOfRows DEF IInv, Page_
<1>2. TypeOK'
  BY <1>1 DEF IInv, TypeOK, PageRow, service
<1>3. Good \subseteq Good'
  BY DEF Good, service
<1>4. Established' /\ WrapperInv' /\ KeyInv'
  BY <1>3, ServiceFrame DEF IInv, KeyInv, WrapperInv, service
<1>5. KeptInv'
  <2>1. UNCHANGED <<active, committed, net, made, cli, buried, shown>>
    BY DEF service
  <2> QED BY <2>1, KeptFrame
<1>6. Grows
  BY <1>3 DEF Grows, service
<1> QED BY <1>1, <1>2, <1>4, <1>5, <1>6, StepFrame DEF service

LEMMA ListStep ==
  ASSUME ConstantsAssumption, IInv, NEW p \in Page, List(p)
  PROVE  IInv'
<1> DEFINE q == page[p]
           now == [q EXCEPT !.listed = active]
<1>1. q \in PageRow /\ PageOk(q, Good, committed, made, shown)
  BY TypesOfRows DEF IInv, PageInv
<1>2. active \in Code \cup {None} /\ active \in committed \cup {None}
  BY DEF IInv, TypeOK, Established
<1>3. now \in PageRow
  BY <1>1, <1>2 DEF PageRow
<1>4. Page_(p, now) /\ UNCHANGED <<service, made, net, cli, shown, told, strays, left, buried>>
  BY DEF List
<1>5. Good' = Good
  BY <1>4 DEF Good, service
<1>6. PageOk(now, Good', committed, made, shown)
  BY <1>1, <1>2, <1>5 DEF PageOk, PageRow
<1> HIDE DEF now
<1> QED BY <1>3, <1>4, <1>6, PageOnly DEF IInv, TypeOK

LEMMA ConfirmStep ==
  ASSUME ConstantsAssumption, IInv, NEW p \in Page, Confirm(p)
  PROVE  IInv'
<1> DEFINE q == page[p]
<1>1. q \in PageRow /\ PageOk(q, Good, committed, made, shown)
  BY TypesOfRows DEF IInv, PageInv
<1>2. q.code # None /\ UNCHANGED <<service, made, net, cli, shown, told, strays, left, buried>>
  BY DEF Confirm
<1>3. PICK now : /\ Page_(p, now)
                 /\ \/ now = [q EXCEPT !.code = None, !.pc = "rest"]
                    \/ now = [q EXCEPT !.pc = IF q.wrapped THEN "seal" ELSE "publish"]
  BY DEF Confirm, Drop
<1>4. now \in PageRow
  BY <1>1, <1>3 DEF PageRow
<1>5. Good' = Good
  BY <1>2 DEF Good, service
<1>6. PageOk(now, Good', committed, made, shown)
  BY <1>1, <1>2, <1>3, <1>5 DEF PageOk, PageRow
<1> QED BY <1>2, <1>3, <1>4, <1>6, PageOnly DEF IInv, TypeOK

LEMMA DiscardStep ==
  ASSUME ConstantsAssumption, IInv, NEW p \in Page, Discard(p)
  PROVE  IInv'
<1> DEFINE q == page[p]
           now == [q EXCEPT !.code = None, !.pc = "rest"]
<1>1. q \in PageRow /\ PageOk(q, Good, committed, made, shown)
  BY TypesOfRows DEF IInv, PageInv
<1>2. Page_(p, now) /\ UNCHANGED <<service, made, net, cli, shown, told, strays, left, buried>>
  BY DEF Discard, Drop
<1>3. now \in PageRow
  BY <1>1 DEF PageRow
<1>4. Good' = Good
  BY <1>2 DEF Good, service
<1>5. PageOk(now, Good', committed, made, shown)
  BY <1>1, <1>4 DEF PageOk, PageRow
<1> HIDE DEF now
<1> QED BY <1>2, <1>3, <1>5, PageOnly DEF IInv, TypeOK

\* A page that comes to hold a good key.
LEMMA HoldsStep ==
  ASSUME ConstantsAssumption, IInv, NEW p \in Page, NEW key \in Good', key \in Key,
         Holds(p, key), strays \subseteq strays', strays' \subseteq Key
  PROVE  IInv'
<1> DEFINE q == page[p]
           now == [q EXCEPT !.vault = key]
<1>1. q \in PageRow /\ PageOk(q, Good, committed, made, shown)
  BY TypesOfRows DEF IInv, PageInv
<1>2. Page_(p, now) /\ UNCHANGED <<service, made, net, cli, shown, told, left, buried>>
  BY DEF Holds
<1>3. now \in PageRow
  BY <1>1 DEF PageRow
<1>4. Good \subseteq Good'
  BY <1>2 DEF Good, service
<1>5. PageOk(now, Good', committed, made, shown)
  BY <1>1, <1>4 DEF PageOk, PageRow
<1> HIDE DEF now
<1> QED BY <1>2, <1>3, <1>5, PageOnly

LEMMA UnlockStep ==
  ASSUME ConstantsAssumption, IInv, NEW p \in Page, Unlock(p)
  PROVE  IInv'
<1> DEFINE q == page[p]
<1>1. q.listed # None /\ strays' = strays
  BY DEF Unlock
<1>2. PICK key \in methods \cup {made[c].key : c \in {q.listed} \cap shown} : Holds(p, key)
  BY DEF Unlock
<1>3. q.listed \in committed
  BY <1>1 DEF IInv, PageInv, PageOk
<1>4. key \in Good
  BY <1>2, <1>3 DEF IInv, WrapperInv, KeyInv
<1>5. Good' = Good
  BY <1>1, <1>2 DEF Good, Holds, service
<1>6. Good \subseteq Key /\ strays \subseteq Key
  BY DEF Good, IInv, TypeOK
<1> QED BY <1>1, <1>2, <1>4, <1>5, <1>6, HoldsStep

LEMMA TransferToPageStep ==
  ASSUME ConstantsAssumption, IInv, NEW m \in Cli, NEW p \in Page, TransferToPage(m, p)
  PROVE  IInv'
<1>1. /\ cli[m].key # None /\ Holds(p, cli[m].key)
      /\ strays' = strays \cup ({cli[m].key} \ {account})
  BY DEF TransferToPage, Leaves
<1>2. cli[m].key \in Key
  BY <1>1, TypesOfRows DEF CliRow, IInv
<1>3. account' = account
  BY <1>1 DEF Holds, service
<1>4. cli[m].key \in Good' /\ strays \subseteq strays' /\ strays' \subseteq Key
  BY <1>1, <1>2, <1>3 DEF Good, IInv, TypeOK
<1> QED BY <1>1, <1>2, <1>4, HoldsStep

\* A fresh code belongs to nobody yet.
LEMMA MadeFrame ==
  ASSUME ConstantsAssumption, IInv, NEW c \in Fresh, NEW key \in Key,
         NEW purpose \in {"setup", "rotation"}, Made(c, key, purpose),
         purpose = "rotation" => key \in Good,
         UNCHANGED <<service, net, told, strays>>
  PROVE  /\ made' \in [Code -> Making \cup {None}] /\ made'[c] # None
         /\ made'[c].key = key /\ made'[c].purpose = purpose
         /\ \A b \in Code : made[b] # None => made'[b] = made[b]
         /\ Established' /\ WrapperInv' /\ KeyInv' /\ Good' = Good
<1>1. c \in Code /\ made[c] = None
  BY DEF Fresh
<1>2. [key |-> key, purpose |-> purpose] \in Making
  BY DEF Making
<1>3. made \in [Code -> Making \cup {None}]
  BY TypesOfRows DEF IInv
<1>4. None \notin Making
  BY DEF ConstantsAssumption
<1>5. /\ made' \in [Code -> Making \cup {None}]
      /\ made'[c] = [key |-> key, purpose |-> purpose]
      /\ \A b \in Code : b # c => made'[b] = made[b]
  BY <1>1, <1>2, <1>3 DEF Made
<1>6. Good' = Good
  BY DEF Good, service
<1>7. WrapperInv'
  BY <1>1, <1>4, <1>5, <1>6 DEF IInv, WrapperInv, TypeOK, service
<1>8. Established' /\ KeyInv'
  BY <1>6 DEF IInv, Established, KeyInv, service
<1> QED BY <1>1, <1>2, <1>4, <1>5, <1>6, <1>7, <1>8

\* A code is made, and the page shows it.
LEMMA PreparedStep ==
  ASSUME ConstantsAssumption, IInv, NEW p \in Page, NEW c \in Fresh, NEW key \in Key,
         NEW purpose \in {"setup", "rotation"}, NEW sealing \in BOOLEAN,
         Prepared(p, c, key, purpose, sealing), page[p].pc = "rest",
         purpose = "rotation" => key \in Good
  PROVE  IInv'
<1> DEFINE q == page[p]
           now == [q EXCEPT !.code = c, !.replaces = q.listed, !.wrapped = FALSE,
                            !.sealing = sealing]
<1>1. q \in PageRow /\ PageOk(q, Good, committed, made, shown)
  BY TypesOfRows DEF IInv, PageInv
<1>2. /\ Page_(p, now) /\ Made(c, key, purpose) /\ shown' = shown \cup {c}
      /\ UNCHANGED <<service, net, cli, told, strays, left, buried>>
  BY DEF Prepared
<1>3. c \in Code
  BY DEF Fresh
<1>4. now \in PageRow
  BY <1>1, <1>3 DEF PageRow
<1>5. /\ now.vault = q.vault /\ now.listed = q.listed /\ now.code = c /\ ~now.wrapped
      /\ now.pc = "rest"
  BY <1>1 DEF PageRow
<1> HIDE DEF now
<1>6. /\ made' \in [Code -> Making \cup {None}] /\ made'[c] # None
      /\ \A b \in Code : made[b] # None => made'[b] = made[b]
      /\ Established' /\ WrapperInv' /\ KeyInv' /\ Good' = Good
  BY <1>2, MadeFrame
<1>7. PageOk(now, Good', committed', made', shown')
  BY <1>1, <1>2, <1>5, <1>6 DEF PageOk, service
<1>8. /\ page' \in [Page -> PageRow] /\ page'[p] = now
      /\ \A r \in Page : r # p => page'[r] = page[r]
  BY <1>2, <1>4, TypesOfRows DEF IInv, Page_
<1>9. TypeOK'
  BY <1>2, <1>3, <1>6, <1>8 DEF IInv, TypeOK, PageRow, service
<1>10. KeptInv'
  <2>1. /\ UNCHANGED <<active, committed, net, cli, buried>>
        /\ shown \subseteq shown'
    BY <1>2 DEF service
  <2> QED BY <1>6, <2>1, KeptFrame
<1>11. Grows
  BY <1>2, <1>6 DEF Grows, service
<1> QED BY <1>2, <1>6, <1>7, <1>8, <1>9, <1>10, <1>11, StepFrame

LEMMA CodeStep ==
  ASSUME ConstantsAssumption, IInv, NEW p \in Page, SetUp(p) \/ Rotate(p)
  PROVE  IInv'
<1>1. CASE SetUp(p)
  <2>1. PICK c \in Fresh, sealing \in {FALSE, envelope = None} :
          Prepared(p, c, c, "setup", sealing)
    BY <1>1 DEF SetUp
  <2>2. c \in Key /\ sealing \in BOOLEAN
    BY DEF Fresh, Key
  <2>3. page[p].pc = "rest"
    BY <1>1 DEF SetUp
  <2> QED BY <2>1, <2>2, <2>3, PreparedStep
<1>2. CASE Rotate(p)
  <2>1. PICK c \in Fresh : Prepared(p, c, page[p].vault, "rotation", FALSE)
    BY <1>2 DEF Rotate
  <2>2. page[p].vault # None /\ page[p].pc = "rest"
    BY <1>2 DEF Rotate
  <2>3. page[p].vault \in Good /\ Good \subseteq Key
    BY <2>2 DEF IInv, PageInv, PageOk, Good, TypeOK
  <2> QED BY <2>1, <2>2, <2>3, PreparedStep
<1> QED BY <1>1, <1>2

-----------------------------------------------------------------------------
(* The service                                                             *)

\* The wrapper of c arrives.  A file is given up only by the loser of a setup.
LEMMA Publication ==
  ASSUME ConstantsAssumption, IInv, NEW c \in Code, made[c] # None, Harmless(c), Publishes(c),
         UNCHANGED <<made, strays, shown, buried>>,
         net' \subseteq net \cup {c}, told' \subseteq committed',
         \A m \in Cli : \/ cli[m].file \notin Code
                        \/ cli'[m].file = cli[m].file
                        \/ cli[m].file \in shown \cup buried
                        \/ cli[m].file = c /\ ~Accepts(c) /\ made[c].purpose = "setup"
  PROVE  /\ active' \in Code \cup {None} /\ committed' \subseteq Code
         /\ account' \in Key \cup {None}
         /\ UNCHANGED <<envelope, methods>>
         /\ Accepts(c) => c \in committed'
         /\ Grows /\ Established' /\ WrapperInv' /\ KeyInv' /\ KeptInv'
<1>1. made[c] \in Making
  BY TypesOfRows DEF IInv
<1>2. made[c].key \in Key /\ made[c].purpose \in {"setup", "rotation"}
  BY <1>1 DEF Making
<1>3. None \notin Code /\ None \notin Key
  BY DEF ConstantsAssumption, Key
<1>4. UNCHANGED <<envelope, methods>>
  BY DEF Publishes
<1>5. CASE c \notin committed /\ Accepts(c)
  <2>1. /\ active' = c /\ committed' = committed \cup {c}
        /\ account' = IF account = None THEN made[c].key ELSE account
    BY <1>5 DEF Publishes
  <2>2. /\ active' \in Code \cup {None} /\ committed' \subseteq Code
        /\ account' \in Key \cup {None} /\ account' # None
    BY <1>2, <1>3, <2>1 DEF IInv, TypeOK
  <2>3. Good \subseteq Good'
    BY <2>1 DEF Good
  <2>4. made[c].key \in Good'
    <3>1. CASE made[c].purpose = "rotation"
      BY <2>3, <3>1 DEF IInv, WrapperInv
    <3>2. CASE made[c].purpose = "setup"
      <4>1. active = None
        BY <1>5, <3>2 DEF Accepts
      <4>2. account' = made[c].key
        BY <2>1, <4>1 DEF IInv, Established
      <4> QED BY <1>2, <1>3, <4>2 DEF Good
    <3> QED BY <1>2, <3>1, <3>2
  <2>5. Established'
    BY <1>3, <2>1, <2>2 DEF Established
  <2>6. WrapperInv'
    BY <2>1, <2>3, <2>4 DEF IInv, WrapperInv
  <2>7. KeyInv'
    BY <1>4, <2>3 DEF IInv, KeyInv
  <2>8. \A m \in Cli : \/ cli[m].file \notin Code
                       \/ cli'[m].file = cli[m].file
                       \/ cli[m].file \in shown \cup buried
    BY <1>5
  <2>9. \A b \in Code : Kept(b) => Kept(b)'
    BY <2>8 DEF Kept
  <2>10. Kept(c)
    BY <1>5, <1>2 DEF Harmless, Accepts
  <2>11. KeptInv'
    BY <1>3, <2>1, <2>9, <2>10 DEF IInv, KeptInv, Harmless, TypeOK
  <2>12. Grows
    BY <2>1, <2>3 DEF Grows
  <2> QED BY <1>4, <2>1, <2>2, <2>5, <2>6, <2>7, <2>11, <2>12
<1>6. CASE c \in committed \/ ~Accepts(c)
  <2>1. UNCHANGED <<active, committed, account>>
    BY <1>6 DEF Publishes
  <2>2. Good' = Good
    BY <2>1 DEF Good
  <2>3. Established' /\ WrapperInv' /\ KeyInv' /\ Grows
    BY <1>4, <2>1, <2>2 DEF IInv, Established, WrapperInv, KeyInv, Grows
  <2>4. Accepts(c) => c \in committed'
    BY <1>6, <2>1
  <2>5. ~Accepts(c) /\ made[c].purpose = "setup" => c \notin committed /\ active # None
    BY DEF Accepts
  <2>6. \A b \in Code : \/ Kept(b) => Kept(b)'
                        \/ b = c /\ ~Accepts(c) /\ made[c].purpose = "setup"
    BY DEF Kept
  <2>7. active # None => active \in Code /\ active \in committed
    BY DEF IInv, TypeOK, Established
  <2>8. active' # None => Kept(active)'
    BY <2>1, <2>5, <2>6, <2>7 DEF IInv, KeptInv
  <2>9. \A b \in net' : b \in Code /\ Harmless(b)
    BY DEF IInv, KeptInv, TypeOK
  <2>10. \A b \in net' : Harmless(b)'
    BY <2>1, <2>5, <2>6, <2>9 DEF Harmless
  <2> QED BY <1>4, <2>1, <2>3, <2>4, <2>8, <2>10 DEF KeptInv, IInv, TypeOK
<1> QED BY <1>5, <1>6

LEMMA LateStep ==
  ASSUME ConstantsAssumption, IInv, NEW c \in net, Late(c)
  PROVE  IInv'
<1>1. c \in Code /\ made[c] # None /\ Harmless(c)
  BY DEF IInv, TypeOK, WrapperInv, KeptInv
<1>2. /\ Publishes(c) /\ net' = net \ {c}
      /\ UNCHANGED <<made, page, cli, shown, told, strays, left, buried>>
  BY DEF Late
<1>3. told' \subseteq committed'
  BY <1>2 DEF IInv, KeyInv, Publishes
<1>4. /\ active' \in Code \cup {None} /\ committed' \subseteq Code
      /\ account' \in Key \cup {None}
      /\ UNCHANGED <<envelope, methods>>
      /\ Grows /\ Established' /\ WrapperInv' /\ KeyInv' /\ KeptInv'
  BY <1>1, <1>2, <1>3, Publication
<1>5. TypeOK'
  BY <1>2, <1>4 DEF IInv, TypeOK
<1> QED BY <1>2, <1>4, <1>5, StepFrame

-----------------------------------------------------------------------------
(* A page and the service                                                  *)

LEMMA Lost ==
  ASSUME ConstantsAssumption, TypeOK, Lose \/ Killed
  PROVE  left' \in [lost : 0..MaxLost, crashes : 0..MaxCrashes]
<1>1. left \in [lost : 0..MaxLost, crashes : 0..MaxCrashes]
  BY DEF TypeOK
<1>2. CASE Lose
  <2>1. left.lost - 1 \in 0..MaxLost /\ left' = [left EXCEPT !.lost = left.lost - 1]
    BY <1>1, <1>2 DEF Lose, ConstantsAssumption
  <2> QED BY <1>1, <2>1
<1>3. CASE Killed
  <2>1. left.crashes - 1 \in 0..MaxCrashes /\ left' = [left EXCEPT !.crashes = left.crashes - 1]
    BY <1>1, <1>3 DEF Killed, ConstantsAssumption
  <2> QED BY <1>1, <2>1
<1> QED BY <1>2, <1>3

\* A page whose code's wrapper arrives, and one whose request went nowhere yet.
LEMMA PageAnswered ==
  ASSUME ConstantsAssumption, IInv, NEW p \in Page, NEW now \in PageRow, Page_(p, now),
         NEW c \in Code, made[c] # None, c \in shown, Publishes(c),
         UNCHANGED <<made, cli, shown, strays, buried>>, net' \subseteq net \cup {c},
         told' \subseteq committed', left' \in [lost : 0..MaxLost, crashes : 0..MaxCrashes],
         Grows => PageOk(now, Good', committed', made', shown')
  PROVE  IInv'
<1>1. Harmless(c)
  BY DEF Harmless, Kept
<1>2. /\ active' \in Code \cup {None} /\ committed' \subseteq Code
      /\ account' \in Key \cup {None}
      /\ UNCHANGED <<envelope, methods>>
      /\ Grows /\ Established' /\ WrapperInv' /\ KeyInv' /\ KeptInv'
  BY <1>1, Publication
<1>3. /\ page' \in [Page -> PageRow] /\ page'[p] = now
      /\ \A r \in Page : r # p => page'[r] = page[r]
  BY TypesOfRows DEF IInv, Page_
<1>4. TypeOK'
  <2>1. net' \subseteq Code /\ told' \subseteq Code
    BY <1>2 DEF IInv, TypeOK
  <2> QED BY <1>2, <1>3, <2>1 DEF IInv, TypeOK, PageRow
<1> QED BY <1>2, <1>3, <1>4, StepFrame

LEMMA PageUnanswered ==
  ASSUME ConstantsAssumption, IInv, NEW p \in Page, NEW now \in PageRow, Page_(p, now),
         UNCHANGED <<service, made, cli, shown, told, strays, buried>>,
         \/ net' \subseteq net
         \/ \E c \in Code : made[c] # None /\ c \in shown /\ net' \subseteq net \cup {c},
         left' \in [lost : 0..MaxLost, crashes : 0..MaxCrashes],
         PageOk(now, Good, committed, made, shown)
  PROVE  IInv'
<1>1. /\ page' \in [Page -> PageRow] /\ page'[p] = now
      /\ \A r \in Page : r # p => page'[r] = page[r]
  BY TypesOfRows DEF IInv, Page_
<1>2. UNCHANGED <<active, committed, account, envelope, methods>>
  BY DEF service
<1>3. Good' = Good /\ Grows
  BY <1>2 DEF Good, Grows
<1>4. TypeOK'
  BY <1>1, <1>2 DEF IInv, TypeOK, PageRow
<1>5. Established' /\ WrapperInv' /\ KeyInv'
  BY <1>2, <1>3 DEF IInv, Established, WrapperInv, KeyInv
<1>6. KeptInv'
  <2>1. CASE net' \subseteq net
    BY <1>2, <2>1, KeptFrame
  <2>2. ASSUME NEW c \in Code, made[c] # None, c \in shown, net' \subseteq net \cup {c}
        PROVE  KeptInv'
    <3>1. Harmless(c)
      BY <2>2 DEF Harmless, Kept
    <3> QED BY <1>2, <2>2, <3>1, SentFrame
  <2> QED BY <2>1, <2>2
<1> QED BY <1>1, <1>2, <1>3, <1>4, <1>5, <1>6, StepFrame

LEMMA PublishedStep ==
  ASSUME ConstantsAssumption, IInv, NEW p \in Page, Published(p)
  PROVE  IInv'
<1> DEFINE q == page[p]
           c == page[p].code
<1>1. q \in PageRow /\ PageOk(q, Good, committed, made, shown)
  BY TypesOfRows DEF IInv, PageInv
<1>2. q.pc = "publish" /\ Publishes(c) /\ UNCHANGED <<made, net, cli, shown, strays, left, buried>>
  BY DEF Published
<1>3. c \in Code /\ made[c] # None /\ c \in shown
  BY <1>1, <1>2 DEF PageOk, PageRow
<1>4. made[c] \in Making
  BY <1>3, TypesOfRows DEF IInv
<1>5. PICK now :
        /\ Page_(p, now)
        /\ \/ told' = told /\ now = [q EXCEPT !.code = None, !.vault = None, !.pc = "rest"]
           \/ told' = told /\ now = [q EXCEPT !.pc = "rest"]
           \/ /\ told' = told /\ Accepts(c)
              /\ now = [q EXCEPT !.pc = "seal", !.wrapped = TRUE]
           \/ /\ told' = told \cup {c} /\ Accepts(c)
              /\ now = [q EXCEPT !.vault = made[c].key, !.code = None, !.pc = "rest"]
  <2>1. made[c].purpose \in {"setup", "rotation"}
    BY <1>4 DEF Making
  <2> QED BY <2>1 DEF Published, Finished
<1>6. now \in PageRow
  <2>1. made[c].key \in Key
    BY <1>4 DEF Making
  <2> QED BY <1>1, <1>5, <2>1 DEF PageRow
<1>7. Accepts(c) => c \in committed' /\ made'[c].key \in Good'
  <2>1. Harmless(c) /\ told \subseteq committed
    BY <1>3 DEF Harmless, Kept, IInv, KeyInv
  <2>2. UNCHANGED <<envelope, methods>> /\ (Accepts(c) => c \in committed')
    BY <1>2 DEF Publishes
  <2>3. ASSUME Accepts(c)
        PROVE  made[c].key \in Good'
    <3>1. CASE c \in committed \/ made[c].purpose = "rotation"
      <4>1. made[c].key \in Good
        BY <1>3, <3>1 DEF IInv, WrapperInv
      <4>2. Good \subseteq Good'
        BY <1>2 DEF Good, Publishes
      <4> QED BY <4>1, <4>2
    <3>2. CASE c \notin committed /\ made[c].purpose # "rotation"
      <4>1. made[c].purpose = "setup" /\ made[c].key \in Key
        BY <1>4, <3>2 DEF Making
      <4>2. active = None /\ account = None
        BY <2>3, <3>2, <4>1 DEF Accepts, IInv, Established
      <4>3. account' = made[c].key
        BY <1>2, <2>3, <3>2, <4>2 DEF Publishes
      <4> QED BY <4>1, <4>3 DEF Good, ConstantsAssumption, Key
    <3> QED BY <3>1, <3>2
  <2> QED BY <1>2, <2>2, <2>3
<1>8. told' \subseteq committed'
  BY <1>2, <1>5, <1>7 DEF IInv, KeyInv, Publishes
<1>9. ASSUME Grows
      PROVE  PageOk(now, Good', committed', made', shown')
  <2>1. /\ now.vault \in Good' \cup {None} /\ now.listed = q.listed
        /\ now.code \in {None, c} /\ now.pc \in {"rest", "seal"}
        /\ now.pc = "seal" => now.code = c /\ now.wrapped
        /\ now.code # None /\ now.wrapped => Accepts(c) \/ q.wrapped
    BY <1>1, <1>2, <1>3, <1>5, <1>7, <1>9 DEF PageOk, PageRow, Grows
  <2>2. /\ made'[c] # None /\ c \in shown' /\ committed \subseteq committed'
        /\ q.listed \in committed \cup {None} /\ (q.wrapped => c \in committed)
    BY <1>1, <1>2, <1>3, <1>9 DEF PageOk, Grows
  <2>3. None \notin Code
    BY DEF ConstantsAssumption
  <2> QED BY <1>3, <1>7, <2>1, <2>2, <2>3 DEF PageOk
<1>10. left' \in [lost : 0..MaxLost, crashes : 0..MaxCrashes]
  BY <1>2 DEF IInv, TypeOK
<1> QED BY <1>2, <1>3, <1>5, <1>6, <1>8, <1>9, <1>10, PageAnswered

LEMMA PublishUnansweredStep ==
  ASSUME ConstantsAssumption, IInv, NEW p \in Page, PublishUnanswered(p)
  PROVE  IInv'
<1> DEFINE q == page[p]
           c == page[p].code
           now == [q EXCEPT !.pc = "rest"]
<1>1. q \in PageRow /\ PageOk(q, Good, committed, made, shown)
  BY TypesOfRows DEF IInv, PageInv
<1>2. /\ q.pc = "publish" /\ Lose /\ Unanswered(c) /\ Page_(p, now)
      /\ UNCHANGED <<made, cli, shown, told, strays, buried>>
  BY DEF PublishUnanswered
<1>3. c \in Code /\ made[c] # None /\ c \in shown
  BY <1>1, <1>2 DEF PageOk, PageRow
<1>4. now \in PageRow
  BY <1>1 DEF PageRow
<1>5. left' \in [lost : 0..MaxLost, crashes : 0..MaxCrashes]
  BY <1>2, Lost DEF IInv
<1>6. PageOk(now, Good, committed, made, shown)
  BY <1>1, <1>3 DEF PageOk, PageRow
<1> HIDE DEF now
<1>7. CASE Publishes(c) /\ net' = net
  <2>1. told' \subseteq committed'
    BY <1>2, <1>7 DEF IInv, KeyInv, Publishes
  <2>2. Grows => PageOk(now, Good', committed', made', shown')
    BY <1>4, <1>6, PageMonotone DEF Grows
  <2> QED BY <1>2, <1>3, <1>4, <1>5, <1>7, <2>1, <2>2, PageAnswered
<1>8. CASE net' \subseteq net \cup {c} /\ UNCHANGED service
  BY <1>2, <1>3, <1>4, <1>5, <1>6, <1>8, PageUnanswered
<1> QED BY <1>2, <1>7, <1>8 DEF Unanswered

LEMMA CloseStep ==
  ASSUME ConstantsAssumption, IInv, NEW p \in Page, Close(p)
  PROVE  IInv'
<1> DEFINE q == page[p]
           c == page[p].code
<1>1. q \in PageRow /\ PageOk(q, Good, committed, made, shown)
  BY TypesOfRows DEF IInv, PageInv
<1>2. /\ Killed /\ Page_(p, NoPage)
      /\ UNCHANGED <<service, made, cli, shown, told, strays, buried>>
      /\ net' = net \/ (q.pc = "publish" /\ net' = net \cup {c})
  BY DEF Close
<1>3. q.pc = "publish" => c \in Code /\ made[c] # None /\ c \in shown
  BY <1>1 DEF PageOk, PageRow
<1>4. NoPage \in PageRow /\ PageOk(NoPage, Good, committed, made, shown)
  BY DEF NoPage, PageRow, PageOk
<1>5. left' \in [lost : 0..MaxLost, crashes : 0..MaxCrashes]
  BY <1>2, Lost DEF IInv
<1>6. \/ net' \subseteq net
      \/ \E b \in Code : made[b] # None /\ b \in shown /\ net' \subseteq net \cup {b}
  BY <1>2, <1>3
<1> QED BY <1>2, <1>4, <1>5, <1>6, PageUnanswered

-----------------------------------------------------------------------------
(* Envelopes and methods                                                   *)

\* The service is given good keys while a page moves or none does.
LEMMA StoredStep ==
  ASSUME ConstantsAssumption, IInv,
         UNCHANGED <<active, committed, account, made, net, cli, shown, buried>>,
         strays \subseteq strays', strays' \subseteq Key, told' \subseteq committed,
         methods' \subseteq Good', methods' \subseteq Key,
         envelope' \in [key : Key, code : Code \cup {None}] \cup {None},
         envelope' # None => envelope'.key \in Good',
         left' \in [lost : 0..MaxLost, crashes : 0..MaxCrashes],
         \/ page' = page
         \/ \E p \in Page, now \in PageRow :
              Page_(p, now) /\ PageOk(now, Good, committed, made, shown)
  PROVE  IInv'
<1>1. Established' /\ WrapperInv' /\ KeyInv' /\ Good \subseteq Good'
  <2>1. \A c \in net' : made[c] # None
    BY DEF IInv, WrapperInv
  <2> QED BY <2>1, ServiceFrame
<1>2. Grows
  BY <1>1 DEF Grows
<1>3. KeptInv'
  BY KeptFrame
<1>4. /\ page' \in [Page -> PageRow]
      /\ \A r \in Page : \/ page'[r] = page[r]
                         \/ PageOk(page'[r], Good', committed', made', shown')
  <2>1. CASE page' = page
    BY <2>1, TypesOfRows DEF IInv
  <2>2. ASSUME NEW p \in Page, NEW now \in PageRow, Page_(p, now),
               PageOk(now, Good, committed, made, shown)
        PROVE  <1>4!1 /\ <1>4!2
    <3>1. /\ page' \in [Page -> PageRow] /\ page'[p] = now
          /\ \A r \in Page : r # p => page'[r] = page[r]
      BY <2>2, TypesOfRows DEF IInv, Page_
    <3>2. PageOk(now, Good', committed', made', shown')
      <4>1. \A c \in Code : made[c] # None => made[c] = made[c]
        OBVIOUS
      <4>2. PageOk(now, Good', committed, made, shown)
        BY <1>1, <2>2, <4>1, PageMonotone
      <4> QED BY <4>2
    <3> QED BY <3>1, <3>2
  <2> QED BY <2>1, <2>2
<1>5. TypeOK'
  <2>1. told' \subseteq Code
    BY DEF IInv, TypeOK
  <2> QED BY <1>4, <2>1 DEF IInv, TypeOK, PageRow
<1> QED BY <1>1, <1>2, <1>3, <1>4, <1>5, StepFrame

LEMMA SealedStep ==
  ASSUME ConstantsAssumption, IInv, NEW p \in Page, Sealed(p) \/ SealUnanswered(p)
  PROVE  IInv'
<1> DEFINE q == page[p]
           c == page[p].code
           own == [key |-> made[c].key, code |-> c]
<1>1. q \in PageRow /\ PageOk(q, Good, committed, made, shown)
  BY TypesOfRows DEF IInv, PageInv
<1>2. /\ q.pc = "seal" /\ envelope' \in {envelope, own}
      /\ UNCHANGED <<active, committed, methods, account, made, net, cli, shown, strays,
                     buried>>
  BY DEF Sealed, SealUnanswered
<1>3. c \in committed /\ c \in Code
  BY <1>1, <1>2 DEF PageOk, PageRow
<1>4. made[c] # None /\ made[c].key \in Good
  BY <1>3 DEF IInv, WrapperInv
<1>5. made[c].key \in Key
  BY <1>4 DEF IInv, TypeOK, Good
<1>6. Good' = Good
  BY <1>2 DEF Good
<1>7. /\ envelope' \in [key : Key, code : Code \cup {None}] \cup {None}
      /\ envelope' # None => envelope'.key \in Good'
  BY <1>2, <1>3, <1>4, <1>5, <1>6 DEF IInv, TypeOK, KeyInv
<1>8. methods' \subseteq Good' /\ methods' \subseteq Key
  BY <1>2, <1>6 DEF IInv, TypeOK, KeyInv
<1>9. left' \in [lost : 0..MaxLost, crashes : 0..MaxCrashes]
  <2>1. CASE SealUnanswered(p)
    BY <2>1, Lost DEF SealUnanswered, IInv
  <2>2. CASE Sealed(p)
    BY <2>2 DEF Sealed, IInv, TypeOK
  <2> QED BY <2>1, <2>2
<1>10. PICK now :
         /\ Page_(p, now)
         /\ \/ told' = told /\ now = [q EXCEPT !.pc = "rest"]
            \/ /\ told' = told \cup {c}
               /\ now = [q EXCEPT !.vault = made[c].key, !.code = None, !.pc = "rest"]
  BY DEF Sealed, SealUnanswered, Finished
<1>11. now \in PageRow
  BY <1>1, <1>5, <1>10 DEF PageRow
<1>12. PageOk(now, Good, committed, made, shown)
  <2>1. /\ now.vault \in Good \cup {None} /\ now.listed = q.listed
        /\ now.wrapped = q.wrapped /\ now.code \in {None, c} /\ now.pc = "rest"
    BY <1>1, <1>4, <1>10 DEF PageOk, PageRow
  <2> QED BY <1>1, <1>3, <2>1 DEF PageOk
<1>13. told' \subseteq committed
  BY <1>3, <1>10 DEF IInv, KeyInv
<1>14. strays \subseteq strays' /\ strays' \subseteq Key
  BY <1>2 DEF IInv, TypeOK
<1> HIDE DEF own
<1> QED BY <1>2, <1>7, <1>8, <1>9, <1>10, <1>11, <1>12, <1>13, <1>14, StoredStep

LEMMA MethodStep ==
  ASSUME ConstantsAssumption, IInv,
         \/ \E p \in Page : AddMethod(p)
         \/ \E key \in methods : RemoveMethod(key)
  PROVE  IInv'
<1>1. /\ UNCHANGED <<active, committed, envelope, account, made, net, page, cli, shown, told,
                     strays, left, buried>>
      /\ \/ methods' \subseteq methods
         \/ \E p \in Page : page[p].vault # None /\ methods' = methods \cup {page[p].vault}
  BY DEF AddMethod, RemoveMethod
<1>2. Good' = Good
  BY <1>1 DEF Good
<1>3. \A p \in Page : page[p].vault # None => page[p].vault \in Good
  BY DEF IInv, PageInv, PageOk
<1>4. Good \subseteq Key
  BY DEF Good, IInv, TypeOK
<1>5. methods' \subseteq Good' /\ methods' \subseteq Key
  BY <1>1, <1>2, <1>3, <1>4 DEF IInv, KeyInv
<1>6. /\ envelope' \in [key : Key, code : Code \cup {None}] \cup {None}
      /\ envelope' # None => envelope'.key \in Good'
      /\ left' \in [lost : 0..MaxLost, crashes : 0..MaxCrashes]
      /\ strays \subseteq strays' /\ strays' \subseteq Key /\ told' \subseteq committed
  BY <1>1, <1>2 DEF IInv, TypeOK, KeyInv
<1> QED BY <1>1, <1>5, <1>6, StoredStep

LEMMA SealsStep ==
  ASSUME ConstantsAssumption, IInv, NEW key \in Key \cup {None}, Seals(key)
  PROVE  IInv'
<1>1. /\ key \in Key /\ envelope' = [key |-> key, code |-> None]
      /\ strays' = strays \cup ({key} \ {account})
      /\ UNCHANGED <<active, committed, methods, account, made, net, page, cli, shown, told,
                     left, buried>>
  BY DEF Seals, Leaves
<1>2. Good \subseteq Good' /\ key \in Good'
  BY <1>1 DEF Good, ConstantsAssumption, Key
<1>3. methods' \subseteq Good' /\ methods' \subseteq Key
  BY <1>1, <1>2 DEF IInv, TypeOK, KeyInv
<1>4. /\ envelope' \in [key : Key, code : Code \cup {None}] \cup {None}
      /\ envelope' # None => envelope'.key \in Good'
  BY <1>1, <1>2
<1>5. /\ left' \in [lost : 0..MaxLost, crashes : 0..MaxCrashes]
      /\ strays \subseteq strays' /\ strays' \subseteq Key /\ told' \subseteq committed
  BY <1>1 DEF IInv, TypeOK, KeyInv
<1> QED BY <1>1, <1>3, <1>4, <1>5, StoredStep

-----------------------------------------------------------------------------
(* Machines                                                                *)

\* A machine moves, and nothing is published or made.
LEMMA CliOnly ==
  ASSUME ConstantsAssumption, IInv, NEW m \in Cli, NEW now \in CliRow, Cli_(m, now),
         UNCHANGED <<service, made, page>>,
         strays \subseteq strays', strays' \subseteq Key,
         shown \subseteq shown', shown' \subseteq Code, told' \subseteq committed,
         buried \subseteq buried', buried' \subseteq Code,
         left' \in [lost : 0..MaxLost, crashes : 0..MaxCrashes],
         CliOk(now, Good', committed, made, shown'),
         cli[m].file \in Code => now.file = cli[m].file \/ cli[m].file \in shown' \cup buried',
         \/ net' \subseteq net
         \/ \E c \in Code : made[c] # None /\ Harmless(c) /\ net' \subseteq net \cup {c}
  PROVE  IInv'
<1>1. /\ cli' \in [Cli -> CliRow] /\ cli'[m] = now
      /\ \A r \in Cli : r # m => cli'[r] = cli[r]
  BY TypesOfRows DEF IInv, Cli_
<1>2. UNCHANGED <<active, committed, account, envelope, methods>>
  BY DEF service
<1>3. Good \subseteq Good'
  BY <1>2 DEF Good
<1>4. /\ net' \subseteq Code
      /\ \A c \in net' : made[c] # None
  BY DEF IInv, TypeOK, WrapperInv
<1>5. Established' /\ WrapperInv' /\ KeyInv'
  BY <1>2, <1>3, <1>4, ServiceFrame DEF IInv, KeyInv
<1>6. Grows
  BY <1>2, <1>3 DEF Grows
<1>7. \A r \in Cli : cli[r].file \in Code =>
                       cli'[r].file = cli[r].file \/ cli[r].file \in shown' \cup buried'
  BY <1>1
<1>8. KeptInv'
  <2>1. CASE net' \subseteq net
    BY <1>2, <1>7, <2>1, KeptFrame
  <2>2. ASSUME NEW c \in Code, made[c] # None, Harmless(c), net' \subseteq net \cup {c}
        PROVE  KeptInv'
    BY <1>2, <1>7, <2>2, SentFrame
  <2> QED BY <2>1, <2>2
<1>9. TypeOK'
  <2>1. told' \subseteq Code
    BY DEF IInv, TypeOK
  <2> QED BY <1>1, <1>2, <1>4, <2>1 DEF IInv, TypeOK, CliRow
<1>10. \A r \in Cli : \/ cli'[r] = cli[r]
                      \/ CliOk(cli'[r], Good', committed', made', shown')
  BY <1>1, <1>2
<1> QED BY <1>5, <1>6, <1>8, <1>9, <1>10, StepFrame

\* Only the machine changes.
LEMMA CliAlone ==
  ASSUME ConstantsAssumption, IInv, NEW m \in Cli, NEW now \in CliRow, Cli_(m, now), Still,
         CliOk(now, Good, committed, made, shown),
         cli[m].file \in Code => now.file = cli[m].file \/ cli[m].file \in shown
  PROVE  IInv'
<1>1. UNCHANGED <<service, made, net, page, shown, told, strays, left, buried>>
  BY DEF Still
<1>2. Good' = Good
  BY <1>1 DEF Good, service
<1> QED BY <1>1, <1>2, CliOnly DEF IInv, TypeOK, KeyInv

LEMMA ResumeStep ==
  ASSUME ConstantsAssumption, IInv, NEW m \in Cli, cli[m].pc = "rest",
         cli[m].file \in Code, Resumes(m), Still
  PROVE  IInv'
<1> DEFINE q == cli[m]
           now == [q EXCEPT !.code = q.file, !.pc = IF active = q.file THEN "show" ELSE "publish"]
<1>1. q \in CliRow /\ CliOk(q, Good, committed, made, shown)
  BY TypesOfRows DEF IInv, CliInv
<1>2. Cli_(m, now)
  BY DEF Resumes
<1>3. now \in CliRow
  BY <1>1 DEF CliRow
<1>4. /\ now.key = q.key /\ now.file = q.file /\ now.code = q.file
      /\ now.pc \in {"show", "publish"} /\ (now.pc = "show" => active = q.file)
  BY <1>1 DEF CliRow
<1> HIDE DEF now
<1>5. None \notin Code
  BY DEF ConstantsAssumption
<1>6. active # None => active \in committed
  BY DEF IInv, Established
<1>7. CliOk(now, Good, committed, made, shown)
  BY <1>1, <1>4, <1>5, <1>6 DEF CliOk, Awaits
<1> QED BY <1>2, <1>3, <1>4, <1>7, CliAlone

\* A code is made, and the machine saves its key.
LEMMA PreparesStep ==
  ASSUME ConstantsAssumption, IInv, NEW m \in Cli, NEW c \in Fresh, NEW key \in Key,
         NEW purpose \in {"setup", "rotation"}, Prepares(m, c, key, purpose),
         purpose = "rotation" => key \in Good,
         ~Awaits(cli[m], made)
  PROVE  IInv'
<1> DEFINE q == cli[m]
           now == [q EXCEPT !.key = key, !.code = c, !.pc = "file"]
<1>1. q \in CliRow /\ CliOk(q, Good, committed, made, shown)
  BY TypesOfRows DEF IInv, CliInv
<1>2. /\ Cli_(m, now) /\ Made(c, key, purpose)
      /\ UNCHANGED <<service, net, page, shown, told, strays, left, buried>>
  BY DEF Prepares
<1>3. c \in Code /\ made[c] = None
  BY DEF Fresh
<1>4. now \in CliRow
  BY <1>1, <1>3 DEF CliRow
<1>5. now.key = key /\ now.file = q.file /\ now.code = c /\ now.pc = "file"
  BY <1>1 DEF CliRow
<1> HIDE DEF now
<1>6. /\ made' \in [Code -> Making \cup {None}] /\ made'[c] # None
      /\ made'[c].key = key
      /\ \A b \in Code : made[b] # None => made'[b] = made[b]
      /\ Established' /\ WrapperInv' /\ KeyInv' /\ Good' = Good
  BY <1>2, MadeFrame
<1>7. None \notin Key
  BY DEF ConstantsAssumption, Key
<1>8. q.file \in Code => made[q.file] # None
  BY <1>1 DEF CliOk
<1>9. CliOk(now, Good', committed', made', shown')
  BY <1>3, <1>5, <1>6, <1>7, <1>8 DEF CliOk, Awaits, ConstantsAssumption
<1>10. /\ cli' \in [Cli -> CliRow] /\ cli'[m] = now
       /\ \A r \in Cli : r # m => cli'[r] = cli[r]
  BY <1>2, <1>4, TypesOfRows DEF IInv, Cli_
<1>11. TypeOK'
  BY <1>2, <1>3, <1>6, <1>10 DEF IInv, TypeOK, CliRow, service
<1>12. KeptInv'
  <2>1. UNCHANGED <<active, committed, net, shown, buried>>
    BY <1>2 DEF service
  <2>2. \A r \in Cli : cli'[r].file = cli[r].file
    BY <1>5, <1>10
  <2> QED BY <1>6, <2>1, <2>2, KeptFrame
<1>13. Grows
  BY <1>2, <1>6 DEF Grows, service
<1>14. /\ \A r \in Page : page'[r] = page[r]
       /\ \A r \in Cli : \/ cli'[r] = cli[r]
                         \/ CliOk(cli'[r], Good', committed', made', shown')
  BY <1>2, <1>9, <1>10
<1> QED BY <1>6, <1>11, <1>12, <1>13, <1>14, StepFrame

LEMMA SetupStep ==
  ASSUME ConstantsAssumption, IInv, NEW m \in Cli, Setup(m) \/ Backup(m)
  PROVE  IInv'
<1>1. cli[m] \in CliRow /\ CliOk(cli[m], Good, committed, made, shown)
  BY TypesOfRows DEF IInv, CliInv
<1>2. cli[m].pc = "rest"
  BY DEF Setup, Backup
<1>3. CASE cli[m].file \in Code /\ Resumes(m) /\ Still
  BY <1>2, <1>3, ResumeStep
<1>4. CASE Setup(m) /\ ~(cli[m].file \in Code /\ Resumes(m) /\ Still)
  <2>1. PICK c \in Fresh :
          Prepares(m, c, IF cli[m].key = None THEN c ELSE cli[m].key, "setup")
    BY <1>4 DEF Setup, Pending
  <2>2. ~Awaits(cli[m], made)
    BY <1>4 DEF Setup, Pending, Awaits
  <2>3. (IF cli[m].key = None THEN c ELSE cli[m].key) \in Key
    BY <1>1 DEF CliRow, Fresh, Key
  <2> QED BY <2>1, <2>2, <2>3, PreparesStep
<1>5. CASE Backup(m) /\ ~(cli[m].file \in Code /\ Resumes(m) /\ Still)
  <2>1. cli[m].key # None /\ cli[m].file = None
    BY <1>5 DEF Backup, Pending
  <2>2. PICK c \in Fresh : Prepares(m, c, cli[m].key, "rotation")
    BY <1>5 DEF Backup, Pending
  <2>3. ~Awaits(cli[m], made)
    BY <2>1 DEF Awaits, ConstantsAssumption
  <2>4. cli[m].key \in Good /\ cli[m].key \in Key
    BY <1>1, <1>2, <2>1, <2>3 DEF CliOk, CliRow
  <2> QED BY <2>2, <2>3, <2>4, PreparesStep
<1> QED BY <1>3, <1>4, <1>5

-----------------------------------------------------------------------------
(* A machine's command                                                     *)

LEMMA WriteFileStep ==
  ASSUME ConstantsAssumption, IInv, NEW m \in Cli, WriteFile(m)
  PROVE  IInv'
<1> DEFINE q == cli[m]
           now == [q EXCEPT !.file = q.code, !.pc = "publish"]
<1>1. q \in CliRow /\ CliOk(q, Good, committed, made, shown)
  BY TypesOfRows DEF IInv, CliInv
<1>2. /\ q.pc = "file" /\ Cli_(m, now)
      /\ buried' = buried \cup (IF Pending(m, "rotation") THEN {q.file} ELSE {})
      /\ UNCHANGED <<service, made, net, page, shown, told, strays, left>>
  BY DEF WriteFile
<1>3. q.code \in Code /\ made[q.code] # None /\ q.key # None
  BY <1>1, <1>2 DEF CliOk, CliRow
<1>4. now \in CliRow
  BY <1>1, <1>3 DEF CliRow
<1>5. now.key = q.key /\ now.file = q.code /\ now.code = q.code /\ now.pc = "publish"
  BY <1>1 DEF CliRow
<1> HIDE DEF now
<1>6. Good' = Good
  BY <1>2 DEF Good, service
<1>7. \/ q.key \in Good \cup {None}
      \/ Awaits(now, made) /\ q.key = made[q.code].key
  <2>1. made[q.code].purpose \in {"setup", "rotation"}
    BY <1>3, TypesOfRows DEF IInv, Making
  <2>2. q.key \in Good \cup {None} \/ q.key = made[q.code].key
    BY <1>1, <1>2 DEF CliOk
  <2>3. made[q.code].purpose = "rotation" => made[q.code].key \in Good
    BY <1>3 DEF IInv, WrapperInv
  <2> QED BY <1>3, <1>5, <2>1, <2>2, <2>3 DEF Awaits
<1>8. CliOk(now, Good', committed, made, shown')
  <2>1. now.key \in Good' \cup {None} \/ (Awaits(now, made) /\ now.key = made[now.file].key)
    BY <1>5, <1>6, <1>7
  <2> QED BY <1>3, <1>5, <2>1 DEF CliOk, ConstantsAssumption
<1>9. buried \subseteq buried' /\ buried' \subseteq Code
  BY <1>2 DEF IInv, TypeOK, Pending
<1>10. q.file \in Code => q.file \in buried'
  <2>1. q.file \in Code => made[q.file].purpose \in {"setup", "rotation"}
    BY <1>1, TypesOfRows DEF IInv, Making, CliOk
  <2> QED BY <1>1, <1>2, <2>1 DEF CliOk, Awaits, Pending
<1> QED BY <1>2, <1>4, <1>8, <1>9, <1>10, CliOnly DEF IInv, TypeOK, KeyInv

LEMMA ShowStep ==
  ASSUME ConstantsAssumption, IInv, NEW m \in Cli, Show(m)
  PROVE  IInv'
<1> DEFINE q == cli[m]
           now == [q EXCEPT !.pc = "clean"]
<1>1. q \in CliRow /\ CliOk(q, Good, committed, made, shown)
  BY TypesOfRows DEF IInv, CliInv
<1>2. /\ q.pc = "show" /\ Cli_(m, now)
      /\ shown' = shown \cup {q.code} /\ told' = told \cup {q.code}
      /\ UNCHANGED <<service, made, net, page, strays, left, buried>>
  BY DEF Show, Goes
<1>3. q.code \in Code /\ q.code \in committed
  BY <1>1, <1>2 DEF CliOk, CliRow
<1>4. now \in CliRow
  BY <1>1 DEF CliRow
<1>5. now.key = q.key /\ now.file = q.file /\ now.code = q.code /\ now.pc = "clean"
  BY <1>1 DEF CliRow
<1> HIDE DEF now
<1>6. Good' = Good
  BY <1>2 DEF Good, service
<1>7. CliOk(now, Good', committed, made, shown')
  BY <1>1, <1>2, <1>3, <1>5, <1>6 DEF CliOk, Awaits
<1>8. shown' \subseteq Code /\ told' \subseteq committed
  BY <1>2, <1>3 DEF IInv, TypeOK, KeyInv
<1> QED BY <1>2, <1>4, <1>5, <1>7, <1>8, CliOnly DEF IInv, TypeOK

LEMMA CleanStep ==
  ASSUME ConstantsAssumption, IInv, NEW m \in Cli, Clean(m)
  PROVE  IInv'
<1> DEFINE q == cli[m]
           now == [q EXCEPT !.file = None, !.pc = "rest"]
<1>1. q \in CliRow /\ CliOk(q, Good, committed, made, shown)
  BY TypesOfRows DEF IInv, CliInv
<1>2. q.pc = "clean" /\ Cli_(m, now) /\ Still
  BY DEF Clean
<1>3. q.file = q.code /\ q.code \in committed /\ q.code \in shown
  BY <1>1, <1>2 DEF CliOk
<1>4. now \in CliRow
  BY <1>1 DEF CliRow
<1>5. now.key = q.key /\ now.file = None /\ now.pc = "rest"
  BY <1>1 DEF CliRow
<1> HIDE DEF now
<1>6. q.key \in Good \cup {None}
  BY <1>1, <1>2, <1>3 DEF CliOk, IInv, WrapperInv
<1>7. CliOk(now, Good, committed, made, shown)
  BY <1>5, <1>6 DEF CliOk, Awaits, ConstantsAssumption
<1> QED BY <1>2, <1>3, <1>4, <1>7, CliAlone

\* A machine that comes to hold a good key, recovered or transferred.
LEMMA TakesKey ==
  ASSUME ConstantsAssumption, IInv, NEW m \in Cli, NEW key \in Good, cli[m].pc = "rest",
         Cli_(m, [cli[m] EXCEPT !.key = key]), Still
  PROVE  IInv'
<1> DEFINE q == cli[m]
           now == [q EXCEPT !.key = key]
<1>1. q \in CliRow /\ CliOk(q, Good, committed, made, shown)
  BY TypesOfRows DEF IInv, CliInv
<1>2. key \in Key
  BY DEF Good, IInv, TypeOK
<1>3. now \in CliRow
  BY <1>1, <1>2 DEF CliRow
<1>4. now.key = key /\ now.file = q.file /\ now.code = q.code /\ now.pc = "rest"
  BY <1>1 DEF CliRow
<1>5. Cli_(m, now)
  OBVIOUS
<1> HIDE DEF now
<1>6. CliOk(now, Good, committed, made, shown)
  BY <1>1, <1>4 DEF CliOk
<1> QED BY <1>3, <1>4, <1>5, <1>6, CliAlone

LEMMA RecoverStep ==
  ASSUME ConstantsAssumption, IInv, NEW m \in Cli,
         Recover(m) \/ \E p \in Page : TransferToCli(p, m)
  PROVE  IInv'
<1>1. PICK key : /\ cli[m].pc = "rest" /\ Cli_(m, [cli[m] EXCEPT !.key = key]) /\ Still
                 /\ \/ active \in shown /\ key = made[active].key
                    \/ \E p \in Page : page[p].vault # None /\ key = page[p].vault
  BY DEF Recover, TransferToCli
<1>2. CASE active \in shown /\ key = made[active].key
  <2>1. active # None
    BY <1>2 DEF IInv, TypeOK, ConstantsAssumption
  <2>2. active \in committed
    BY <2>1 DEF IInv, Established
  <2>3. key \in Good
    BY <1>2, <2>2 DEF IInv, WrapperInv
  <2> QED BY <1>1, <2>3, TakesKey
<1>3. CASE \E p \in Page : page[p].vault # None /\ key = page[p].vault
  <2>1. key \in Good
    BY <1>3 DEF IInv, PageInv, PageOk
  <2> QED BY <1>1, <2>1, TakesKey
<1> QED BY <1>1, <1>2, <1>3

LEMMA KillStep ==
  ASSUME ConstantsAssumption, IInv, NEW m \in Cli, Kill(m)
  PROVE  IInv'
<1> DEFINE q == cli[m]
<1>1. q \in CliRow /\ CliOk(q, Good, committed, made, shown)
  BY TypesOfRows DEF IInv, CliInv
<1>2. /\ q.pc # "rest" /\ Killed
      /\ UNCHANGED <<service, made, page, shown, told>>
      /\ strays' = strays \cup (IF q.pc = "file" THEN {q.key} \ {account} ELSE {})
      /\ net' = net \/ (q.pc = "publish" /\ net' = net \cup {q.code})
  BY DEF Kill
<1>3. PICK file \in {q.file} \cup (IF q.pc = "file" THEN {Torn} ELSE {}) :
        /\ Cli_(m, [q EXCEPT !.pc = "rest", !.file = file])
        /\ buried' = buried \cup (IF file = Torn /\ Pending(m, "rotation")
                                  THEN {q.file} ELSE {})
  BY DEF Kill
<1> DEFINE now == [q EXCEPT !.pc = "rest", !.file = file]
<1>4. file = q.file \/ (q.pc = "file" /\ file = Torn)
  OBVIOUS
<1>5. now \in CliRow
  BY <1>1, <1>4 DEF CliRow
<1>6. now.key = q.key /\ now.file = file /\ now.code = q.code /\ now.pc = "rest"
  BY <1>1 DEF CliRow
<1>7. Cli_(m, now)
  BY <1>3
<1> HIDE DEF now
<1>8. strays \subseteq strays' /\ strays' \subseteq Key
  <2>1. q.pc = "file" => q.key \in Key
    BY <1>1 DEF CliOk, CliRow
  <2> QED BY <1>2, <2>1 DEF IInv, TypeOK
<1>9. Good \subseteq Good' /\ (q.pc = "file" => q.key \in Good')
  <2>1. account' = account
    BY <1>2 DEF service
  <2>2. q.pc = "file" => q.key # None
    BY <1>1 DEF CliOk
  <2> QED BY <1>2, <2>1, <2>2 DEF Good
<1>10. CliOk(now, Good', committed, made, shown')
  <2>1. shown' = shown
    BY <1>2
  <2>2. CASE q.pc = "file"
    <3>1. file \in Code => file = q.file
      BY <1>4 DEF ConstantsAssumption
    <3> QED BY <1>1, <1>6, <1>9, <2>1, <2>2, <3>1 DEF CliOk
  <2>3. CASE q.pc # "file"
    <3>1. file = q.file
      BY <1>4, <2>3
    <3> QED BY <1>1, <1>6, <1>9, <2>1, <2>3, <3>1 DEF CliOk, Awaits
  <2> QED BY <2>2, <2>3
<1>11. buried \subseteq buried' /\ buried' \subseteq Code
  BY <1>3 DEF IInv, TypeOK, Pending
<1>12. q.file \in Code => file = q.file \/ q.file \in buried'
  <2>1. q.file \in Code => made[q.file].purpose \in {"setup", "rotation"}
    BY <1>1, TypesOfRows DEF IInv, Making, CliOk
  <2> QED BY <1>1, <1>3, <1>4, <2>1 DEF CliOk, Awaits, Pending
<1>13. \/ net' \subseteq net
       \/ \E c \in Code : made[c] # None /\ Harmless(c) /\ net' \subseteq net \cup {c}
  <2>1. q.pc = "publish" => q.code \in Code /\ made[q.code] # None /\ q.file = q.code
    BY <1>1 DEF CliOk, CliRow
  <2>2. q.pc = "publish" => Harmless(q.code)
    BY <2>1 DEF Harmless, Kept
  <2> QED BY <1>2, <2>1, <2>2
<1>14. left' \in [lost : 0..MaxLost, crashes : 0..MaxCrashes]
  BY <1>2, Lost DEF IInv
<1>15. shown \subseteq shown' /\ shown' \subseteq Code /\ told' \subseteq committed
  BY <1>2 DEF IInv, TypeOK, KeyInv
<1> QED BY <1>2, <1>5, <1>6, <1>7, <1>8, <1>10, <1>11, <1>12, <1>13, <1>14, <1>15, CliOnly

\* The machine's request arrives, with its answer or without.
LEMMA CliPublishes ==
  ASSUME ConstantsAssumption, IInv, NEW m \in Cli, NEW now \in CliRow, Cli_(m, now),
         cli[m].pc = "publish", Publishes(cli[m].code),
         UNCHANGED <<made, net, page, shown, told, strays, buried>>,
         left' \in [lost : 0..MaxLost, crashes : 0..MaxCrashes],
         \/ now.key = cli[m].key /\ now.file = cli[m].file
         \/ /\ ~Accepts(cli[m].code) /\ made[cli[m].code].purpose = "setup"
            /\ now.key = None /\ now.file = None,
         now.code = cli[m].code,
         now.pc = "rest" \/ (now.pc = "show" /\ now.file = cli[m].file /\ Accepts(now.code))
  PROVE  IInv'
<1> DEFINE q == cli[m]
           c == cli[m].code
<1>1. q \in CliRow /\ CliOk(q, Good, committed, made, shown)
  BY TypesOfRows DEF IInv, CliInv
<1>2. c \in Code /\ made[c] # None /\ q.file = c
  BY <1>1 DEF CliOk, CliRow
<1>3. Harmless(c)
  BY <1>2 DEF Harmless, Kept
<1>4. told' \subseteq committed'
  BY DEF IInv, KeyInv, Publishes
<1>5. /\ cli' \in [Cli -> CliRow] /\ cli'[m] = now
      /\ \A r \in Cli : r # m => cli'[r] = cli[r]
  BY TypesOfRows DEF IInv, Cli_
<1>6. \A r \in Cli : \/ cli[r].file \notin Code
                     \/ cli'[r].file = cli[r].file
                     \/ cli[r].file \in shown \cup buried
                     \/ cli[r].file = c /\ ~Accepts(c) /\ made[c].purpose = "setup"
  BY <1>2, <1>5
<1>7. /\ active' \in Code \cup {None} /\ committed' \subseteq Code
      /\ account' \in Key \cup {None}
      /\ UNCHANGED <<envelope, methods>>
      /\ Accepts(c) => c \in committed'
      /\ Grows /\ Established' /\ WrapperInv' /\ KeyInv' /\ KeptInv'
  BY <1>2, <1>3, <1>4, <1>6, Publication
<1>8. TypeOK'
  BY <1>5, <1>7 DEF IInv, TypeOK, CliRow
<1>9. None \notin Code
  BY DEF ConstantsAssumption
<1>10. CliOk(now, Good', committed', made', shown')
  <2>1. CASE now.key = q.key /\ now.file = q.file
    <3>1. Good \subseteq Good' /\ committed \subseteq committed'
      BY <1>7 DEF Grows
    <3>2. \/ now.key \in Good' \cup {None}
          \/ Awaits(now, made) /\ now.key = made[now.file].key
      BY <1>1, <2>1, <3>1 DEF CliOk, Awaits
    <3> QED BY <1>2, <1>7, <1>9, <2>1, <3>2 DEF CliOk
  <2>2. CASE now.key = None /\ now.file = None
    BY <1>2, <1>9, <2>2 DEF CliOk
  <2> QED BY <2>1, <2>2
<1>11. \A r \in Cli : \/ cli'[r] = cli[r]
                      \/ CliOk(cli'[r], Good', committed', made', shown')
  BY <1>5, <1>10
<1> QED BY <1>7, <1>8, <1>11, StepFrame

LEMMA AnsweredStep ==
  ASSUME ConstantsAssumption, IInv, NEW m \in Cli, Answered(m)
  PROVE  IInv'
<1> DEFINE q == cli[m]
           c == cli[m].code
<1>1. q \in CliRow
  BY TypesOfRows DEF IInv
<1>2. /\ q.pc = "publish" /\ Publishes(c)
      /\ UNCHANGED <<made, net, page, shown, told, strays, left, buried>>
  BY DEF Answered
<1>3. left' \in [lost : 0..MaxLost, crashes : 0..MaxCrashes]
  BY <1>2 DEF IInv, TypeOK
<1>4. CASE Accepts(c)
  <2> DEFINE now == [q EXCEPT !.pc = "show"]
  <2>1. Cli_(m, now)
    BY <1>4 DEF Answered, Goes
  <2>2. /\ now \in CliRow /\ now.key = q.key /\ now.file = q.file /\ now.code = c
        /\ now.pc = "show"
    BY <1>1 DEF CliRow
  <2> HIDE DEF now
  <2> QED BY <1>2, <1>3, <1>4, <2>1, <2>2, CliPublishes
<1>5. CASE ~Accepts(c)
  <2>1. PICK now : /\ Cli_(m, now)
                   /\ \/ /\ made[c].purpose = "setup"
                         /\ now = [q EXCEPT !.key = None, !.file = None, !.pc = "rest"]
                      \/ now = [q EXCEPT !.pc = "rest"]
    BY <1>5 DEF Answered, Goes
  <2>2. /\ now \in CliRow /\ now.code = c /\ now.pc = "rest"
        /\ \/ now.key = q.key /\ now.file = q.file
           \/ made[c].purpose = "setup" /\ now.key = None /\ now.file = None
    BY <1>1, <2>1 DEF CliRow
  <2> QED BY <1>2, <1>3, <1>5, <2>1, <2>2, CliPublishes
<1> QED BY <1>4, <1>5

LEMMA AnswerLostStep ==
  ASSUME ConstantsAssumption, IInv, NEW m \in Cli, AnswerLost(m)
  PROVE  IInv'
<1> DEFINE q == cli[m]
           c == cli[m].code
           now == [q EXCEPT !.pc = "rest"]
<1>1. q \in CliRow /\ CliOk(q, Good, committed, made, shown)
  BY TypesOfRows DEF IInv, CliInv
<1>2. /\ q.pc = "publish" /\ Lose /\ Unanswered(c) /\ Cli_(m, now)
      /\ UNCHANGED <<made, page, shown, told, strays, buried>>
  BY DEF AnswerLost, Goes
<1>3. /\ now \in CliRow /\ now.key = q.key /\ now.file = q.file /\ now.code = c
      /\ now.pc = "rest"
  BY <1>1 DEF CliRow
<1> HIDE DEF now
<1>4. left' \in [lost : 0..MaxLost, crashes : 0..MaxCrashes]
  BY <1>2, Lost DEF IInv
<1>5. CASE Publishes(c) /\ net' = net
  BY <1>2, <1>3, <1>4, <1>5, CliPublishes
<1>6. CASE net' \subseteq net \cup {c} /\ UNCHANGED service
  <2>1. c \in Code /\ made[c] # None /\ Harmless(c)
    BY <1>1, <1>2 DEF CliOk, CliRow, Harmless, Kept
  <2>2. Good' = Good
    BY <1>2, <1>6 DEF Good, service
  <2>3. CliOk(now, Good', committed, made, shown')
    BY <1>1, <1>2, <1>3, <2>2 DEF CliOk, Awaits
  <2>4. /\ strays \subseteq strays' /\ strays' \subseteq Key
        /\ shown \subseteq shown' /\ shown' \subseteq Code /\ told' \subseteq committed
        /\ buried \subseteq buried' /\ buried' \subseteq Code
    BY <1>2 DEF IInv, TypeOK, KeyInv
  <2>5. /\ UNCHANGED <<service, made, page>>
        /\ now.file = q.file
        /\ \E b \in Code : made[b] # None /\ Harmless(b) /\ net' \subseteq net \cup {b}
    BY <1>2, <1>3, <1>6, <2>1
  <2> QED BY <1>2, <1>3, <1>4, <2>3, <2>4, <2>5, CliOnly
<1> QED BY <1>2, <1>5, <1>6 DEF Unanswered

-----------------------------------------------------------------------------
(* The theorems                                                            *)

LEMMA Initially ==
  ASSUME ConstantsAssumption, Init
  PROVE  IInv
<1>1. TypeOK
  BY DEF Init, TypeOK, NoPage, NoCli, ConstantsAssumption
<1>2. Established /\ WrapperInv /\ KeyInv /\ KeptInv
  BY DEF Init, Established, WrapperInv, KeyInv, KeptInv
<1>3. PageInv /\ CliInv
  BY DEF Init, PageInv, CliInv, PageOk, CliOk, Awaits, NoPage, NoCli, ConstantsAssumption
<1> QED BY <1>1, <1>2, <1>3 DEF IInv

LEMMA Stuttering ==
  ASSUME ConstantsAssumption, IInv, UNCHANGED vars
  PROVE  IInv'
<1>1. UNCHANGED <<active, committed, envelope, methods, account, made, net, page, cli, shown,
                  told, strays, buried, left>>
  BY DEF vars, service
<1>2. Good' = Good
  BY <1>1 DEF Good
<1>3. Grows
  BY <1>1, <1>2 DEF Grows
<1>4. TypeOK' /\ Established' /\ WrapperInv' /\ KeyInv'
  BY <1>1, <1>2 DEF IInv, TypeOK, Established, WrapperInv, KeyInv
<1>5. KeptInv'
  BY <1>1, KeptFrame
<1> QED BY <1>1, <1>3, <1>4, <1>5, StepFrame

LEMMA Invariance == ConstantsAssumption /\ IInv /\ [Next]_vars => IInv'
<1> SUFFICES ASSUME ConstantsAssumption, IInv, [Next]_vars
             PROVE  IInv'
  OBVIOUS
<1>1. ASSUME NEW p \in Page, PageStep(p)
      PROVE  IInv'
  <2>1. page[p].vault \in Key \cup {None}
    BY TypesOfRows DEF IInv, PageRow
  <2> QED BY <1>1, <2>1, ListStep, CodeStep, ConfirmStep, PublishedStep, PublishUnansweredStep,
             SealedStep, DiscardStep, CloseStep, UnlockStep, MethodStep, SealsStep DEF PageStep
<1>2. ASSUME NEW m \in Cli, CliStep(m)
      PROVE  IInv'
  <2>1. cli[m].key \in Key \cup {None}
    BY TypesOfRows DEF IInv, CliRow
  <2> QED BY <1>2, <2>1, SetupStep, WriteFileStep, AnsweredStep, AnswerLostStep, ShowStep,
             CleanStep, KillStep, RecoverStep, SealsStep DEF CliStep
<1>3. ASSUME NEW p \in Page, NEW m \in Cli, TransferToPage(m, p) \/ TransferToCli(p, m)
      PROVE  IInv'
  BY <1>3, TransferToPageStep, RecoverStep
<1> QED BY <1>1, <1>2, <1>3, MethodStep, LateStep, Stuttering DEF Next

\* The Recovery Code that opens the account has been seen or is still held.
LEMMA CodesAreKept ==
  ASSUME IInv
  PROVE  CodeIsKept
BY DEF IInv, KeptInv, Kept, CodeIsKept

\* Only the key of a machine that is about to establish the account may be bad.
LEMMA KeysAgree ==
  ASSUME ConstantsAssumption, IInv
  PROVE  OneAccountKey
<1>1. ASSUME NEW m \in Cli, ~Candidate(m)
      PROVE  cli[m].key \in Good \cup {None}
  <2>1. cli[m] \in CliRow /\ CliOk(cli[m], Good, committed, made, shown)
    BY TypesOfRows DEF IInv, CliInv
  <2>2. cli[m].pc # "file" /\ (Awaits(cli[m], made) => cli[m].file \in committed)
    BY <1>1 DEF Candidate, Awaits
  <2> QED BY <2>1, <2>2 DEF CliOk, IInv, WrapperInv
<1>2. \A c \in {active} \ {None} : made[c].key \in Good
  BY DEF IInv, Established, WrapperInv
<1>3. \A p \in Page : page[p].vault \in Good \cup {None}
  BY DEF IInv, PageInv, PageOk
<1>4. methods \subseteq Good /\ (envelope # None => envelope.key \in Good)
  BY DEF IInv, KeyInv
<1> QED BY <1>1, <1>2, <1>3, <1>4 DEF OneAccountKey, Good

\* However many pages and machines set up, rotate, transfer and seal, and
\* whatever is lost or crashes: the active code is kept, one account key is in
\* use, and a code that is called active was.
THEOREM SafetyHolds ==
  ASSUME ConstantsAssumption
  PROVE  Spec => []Safety
<1>1. Init => IInv
  BY Initially
<1>2. IInv /\ [Next]_vars => IInv'
  BY Invariance
<1>3. IInv => Safety
  BY CodesAreKept, KeysAgree DEF IInv, KeyInv, Safety, ToldWasActive
<1> QED BY <1>1, <1>2, <1>3, PTL DEF Spec

=============================================================================
