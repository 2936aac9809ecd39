---------------------------- MODULE ServicesProofs ----------------------------
(***************************************************************************)
(* Theorems about ClientRegistration, ServiceOwnership and ServiceCache,   *)
(* for every number of clients, users, handlers and versions, stated of    *)
(* the specification of MCSessions, as those of BrowserProofs; and that    *)
(* its seven modules are typed.                                            *)
(***************************************************************************)
EXTENDS BrowserProofs

---------------------------------------------------------------------------
(* ClientRegistration: the invariant.                                      *)

\* An undisturbed handler is alone.  What it was asked for and has not added, it still
\* wants; and no rows are there but those it has added and those it is to delete.
Kept(w) == {u \in Registration!Present : idOf[u] \notin writer[w].drop}
Progress(w) ==
  LET h == writer[w] IN
  /\ h.pc \in {"insert", "update", "list"} => h.want = h.all /\ h.drop = {}
  /\ h.pc = "insert" => registration = "absent"
  /\ h.pc = "write" => h.want \subseteq h.all /\ h.all \ h.want = Kept(w)
Undisturbed(w) == Registration!Busy = {w} /\ Progress(w)

RegistrationInv ==
  /\ Registration!RegistrationTypeOK
  /\ registration = "absent" => Registration!Present = {}
  /\ \A w \in Registration!Busy : ~writer[w].disturbed => Undisturbed(w)
  /\ settled # {} => Registration!Busy = {} /\ settled = Registration!Present

Row == [pc : {"free", "insert", "update", "list", "write", "add", "delete", "end"},
        want : SUBSET Key, drop : SUBSET Registration!Id, all : SUBSET Key, disturbed : BOOLEAN]

LEMMA RegistrationFacts ==
  ASSUME RegistrationInv
  PROVE  /\ writer \in [Request -> Row] /\ MaxId \in Nat /\ ids \in 0..MaxId
         /\ idOf \in [Key -> 0..MaxId] /\ \A w \in Request : writer[w] \in Row
         /\ \A w \in Request : w \in Registration!Busy <=> writer[w].pc # "free"
BY PartsAssumption
DEF RegistrationInv, Registration!RegistrationTypeOK, Row, Registration!RegistrationAssumption,
    Registration!Busy, Registration!IsAt

LEMMA FreeRow ==
  /\ Registration!Free \in Row /\ Registration!Free.pc = "free"
  /\ Registration!Free = [pc |-> "free", want |-> {}, drop |-> {}, all |-> {}, disturbed |-> FALSE]
BY DEF Registration!Free, Row

\* A handler begins.
LEMMA ArriveStep ==
  ASSUME RegistrationInv, NEW w \in Request, NEW h \in Row, Registration!Arrive(w, h),
         h.pc \notin {"free", "write"},
         h.pc \in {"insert", "update", "list"} => h.want = h.all /\ h.drop = {},
         h.pc = "insert" => registration = "absent"
  PROVE  RegistrationInv'
<1>1. /\ writer[w].pc = "free" /\ settled' = {} /\ UNCHANGED <<registration, idOf, ids>>
      /\ writer' = [v \in Request |->
           IF v = w THEN [h EXCEPT !.disturbed = Registration!Busy # {}]
           ELSE [writer[v] EXCEPT !.disturbed = v \in Registration!Busy]]
  BY DEF Registration!Arrive, Registration!IsAt, Registration!Unsettled
<1>2. PICK b \in BOOLEAN : b = (Registration!Busy # {})
  OBVIOUS
<1>3. /\ writer'[w] = [h EXCEPT !.disturbed = b] /\ writer'[w] \in Row
      /\ writer'[w].pc = h.pc /\ writer'[w].want = h.want /\ writer'[w].all = h.all
      /\ writer'[w].drop = h.drop /\ writer'[w].disturbed = b
  BY <1>1, <1>2 DEF Row
<1>4. ASSUME NEW v \in Request, v # w
      PROVE  /\ writer'[v] \in Row /\ writer'[v].pc = writer[v].pc
             /\ writer'[v].disturbed <=> v \in Registration!Busy
  <2>1. writer[v] \in Row /\ (v \in Registration!Busy) \in BOOLEAN
    BY RegistrationFacts
  <2> PICK d \in BOOLEAN : d = (v \in Registration!Busy)
    BY <2>1
  <2>2. writer'[v] = [writer[v] EXCEPT !.disturbed = d]
    BY <1>1, <1>4
  <2> QED BY <2>1, <2>2 DEF Row
<1>5. writer' \in [Request -> Row]
  <2>1. \A v \in Request : writer'[v] \in Row
    BY <1>3, <1>4
  <2> QED BY <1>1, <2>1
<1>6. Registration!RegistrationTypeOK'
  BY <1>1, <1>5 DEF RegistrationInv, Registration!RegistrationTypeOK, Row
<1>7. Registration!Present' = Registration!Present
  BY <1>1 DEF Registration!Present
<1>8. Registration!Busy' = Registration!Busy \cup {w}
  BY <1>3, <1>4 DEF Registration!Busy, Registration!IsAt
<1>9. \A v \in Registration!Busy' : ~writer'[v].disturbed => Undisturbed(v)'
  <2> SUFFICES ASSUME NEW v \in Request, v \in Registration!Busy', ~writer'[v].disturbed
               PROVE  Undisturbed(v)'
    BY DEF Registration!Busy
  <2>1. v = w /\ Registration!Busy = {}
    BY <1>2, <1>3, <1>4, <1>8
  <2> QED BY <1>1, <1>3, <1>8, <2>1 DEF Undisturbed, Progress
<1> QED BY <1>1, <1>6, <1>7, <1>9 DEF RegistrationInv

\* A handler goes on, or ends.
LEMMA WorkStep ==
  ASSUME RegistrationInv, NEW w \in Request, NEW h \in Row, writer[w].pc # "free",
         Registration!Becomes(w, h),
         h.pc = "free" \/ h.disturbed = writer[w].disturbed,
         registration' \in {"absent", "unknown", "registered", "gone"}, ids' \in 0..MaxId,
         idOf' \in [Key -> 0..MaxId],
         registration' = "absent" => Registration!Present' = {},
         \/ settled' = settled
         \/ /\ settled' \subseteq Key /\ h.pc = "free" /\ Registration!Busy = {w}
            /\ settled' = Registration!Present',
         ~h.disturbed /\ h.pc # "free" /\ Undisturbed(w) => Progress(w)'
  PROVE  RegistrationInv'
<1>1. /\ writer' = [writer EXCEPT ![w] = h] /\ writer'[w] = h /\ writer' \in [Request -> Row]
      /\ \A v \in Request \ {w} : writer'[v] = writer[v]
  BY RegistrationFacts DEF Registration!Becomes
<1>2. w \in Registration!Busy
  BY RegistrationFacts
<1>3. settled = {}
  BY <1>2 DEF RegistrationInv
<1>4. Registration!Busy' = IF h.pc = "free" THEN Registration!Busy \ {w} ELSE Registration!Busy
  BY <1>1, <1>2 DEF Registration!Busy, Registration!IsAt
<1>5. Registration!RegistrationTypeOK'
  BY <1>1, <1>3 DEF RegistrationInv, Registration!RegistrationTypeOK, Row
<1>6. \A v \in Registration!Busy' : ~writer'[v].disturbed => Undisturbed(v)'
  <2> SUFFICES ASSUME NEW v \in Request, v \in Registration!Busy', ~writer'[v].disturbed
               PROVE  Undisturbed(v)'
    BY DEF Registration!Busy
  <2>1. CASE v = w
    <3>1. h.pc # "free" /\ Registration!Busy' = Registration!Busy /\ ~writer[w].disturbed
      BY <1>1, <1>4, <2>1
    <3>2. Undisturbed(w)
      BY <1>2, <3>1 DEF RegistrationInv
    <3> QED BY <1>1, <2>1, <3>1, <3>2 DEF Undisturbed
  <2>2. CASE v # w
    <3>1. v \in Registration!Busy /\ ~writer[v].disturbed
      BY <1>1, <1>4, <2>2
    <3> QED BY <1>2, <2>2, <3>1 DEF RegistrationInv, Undisturbed
  <2> QED BY <2>1, <2>2
<1>7. settled' # {} => Registration!Busy' = {} /\ settled' = Registration!Present'
  BY <1>3, <1>4
<1> QED BY <1>5, <1>6, <1>7 DEF RegistrationInv

LEMMA BusySlot ==
  ASSUME RegistrationInv, NEW w \in Request, writer[w].pc # "free"
  PROVE  /\ writer[w] \in Row /\ settled = {} /\ w \in Registration!Busy
         /\ ~writer[w].disturbed => Undisturbed(w)
BY RegistrationFacts DEF RegistrationInv

LEMMA Arrivals ==
  ASSUME RegistrationInv, NEW w \in Request
  PROVE  /\ \A uris \in SUBSET Key : Registration!PostClient(w, uris) => RegistrationInv'
         /\ \A uris \in SUBSET Key : Registration!PutClient(w, uris) => RegistrationInv'
         /\ \A u \in Key : Registration!AddUri(w, u) => RegistrationInv'
         /\ \A u \in Key : Registration!DeleteUri(w, u) => RegistrationInv'
         /\ Registration!DeleteClient(w) => RegistrationInv'
<1>1. ASSUME NEW uris \in SUBSET Key, Registration!PostClient(w, uris) PROVE RegistrationInv'
  <2>1. PICK h : /\ h = [pc |-> "insert", want |-> uris, drop |-> {}, all |-> uris,
                         disturbed |-> FALSE]
                 /\ Registration!Arrive(w, h)
    <3> PICK h : h = [Registration!Free EXCEPT !.pc = "insert", !.want = uris, !.all = uris]
      OBVIOUS
    <3>1. h = [pc |-> "insert", want |-> uris, drop |-> {}, all |-> uris, disturbed |-> FALSE]
      BY FreeRow
    <3> QED BY <1>1, <3>1 DEF Registration!PostClient
  <2>2. h \in Row
    BY <2>1 DEF Row
  <2> QED BY <1>1, <2>1, <2>2, ArriveStep DEF Registration!PostClient
<1>2. ASSUME NEW uris \in SUBSET Key, Registration!PutClient(w, uris) PROVE RegistrationInv'
  <2>1. PICK h : /\ h = [pc |-> "update", want |-> uris, drop |-> {}, all |-> uris,
                         disturbed |-> FALSE]
                 /\ Registration!Arrive(w, h)
    <3> PICK h : h = [Registration!Free EXCEPT !.pc = "update", !.want = uris, !.all = uris]
      OBVIOUS
    <3>1. h = [pc |-> "update", want |-> uris, drop |-> {}, all |-> uris, disturbed |-> FALSE]
      BY FreeRow
    <3> QED BY <1>2, <3>1 DEF Registration!PutClient
  <2>2. h \in Row
    BY <2>1 DEF Row
  <2> QED BY <2>1, <2>2, ArriveStep
<1>3. ASSUME NEW u \in Key, Registration!AddUri(w, u) PROVE RegistrationInv'
  <2>1. PICK h : /\ h = [pc |-> "add", want |-> {u}, drop |-> {}, all |-> {}, disturbed |-> FALSE]
                 /\ Registration!Arrive(w, h)
    <3> PICK h : h = [Registration!Free EXCEPT !.pc = "add", !.want = {u}]
      OBVIOUS
    <3>1. h = [pc |-> "add", want |-> {u}, drop |-> {}, all |-> {}, disturbed |-> FALSE]
      BY FreeRow
    <3> QED BY <1>3, <3>1 DEF Registration!AddUri
  <2>2. h \in Row
    BY <2>1 DEF Row
  <2> QED BY <2>1, <2>2, ArriveStep
<1>4. ASSUME NEW u \in Key, Registration!DeleteUri(w, u) PROVE RegistrationInv'
  <2>1. PICK h : /\ h = [pc |-> "delete", want |-> {}, drop |-> {idOf[u]}, all |-> {},
                         disturbed |-> FALSE]
                 /\ Registration!Arrive(w, h)
    <3> PICK h : h = [Registration!Free EXCEPT !.pc = "delete", !.drop = {idOf[u]}]
      OBVIOUS
    <3>1. h = [pc |-> "delete", want |-> {}, drop |-> {idOf[u]}, all |-> {}, disturbed |-> FALSE]
      BY FreeRow
    <3> QED BY <1>4, <3>1 DEF Registration!DeleteUri
  <2>2. idOf[u] \in Registration!Id
    BY <1>4, RegistrationFacts
    DEF Registration!DeleteUri, Registration!Present, Registration!NoRow, Registration!Id
  <2>3. h \in Row
    BY <2>1, <2>2 DEF Row
  <2> QED BY <2>1, <2>3, ArriveStep
<1>5. ASSUME Registration!DeleteClient(w) PROVE RegistrationInv'
  <2>1. PICK h : /\ h = [pc |-> "end", want |-> {}, drop |-> {}, all |-> {}, disturbed |-> FALSE]
                 /\ Registration!Arrive(w, h)
    <3> PICK h : h = [Registration!Free EXCEPT !.pc = "end"]
      OBVIOUS
    <3>1. h = [pc |-> "end", want |-> {}, drop |-> {}, all |-> {}, disturbed |-> FALSE]
      BY FreeRow
    <3> QED BY <1>5, <3>1 DEF Registration!DeleteClient
  <2>2. h \in Row
    BY <2>1 DEF Row
  <2> QED BY <2>1, <2>2, ArriveStep
<1> QED BY <1>1, <1>2, <1>3, <1>4, <1>5

\* A handler that leaves without settling anything.
LEMMA LeaveStep ==
  ASSUME RegistrationInv, NEW w \in Request, writer[w].pc # "free", Registration!Leave(w),
         registration' \in {"absent", "unknown", "registered", "gone"}, ids' \in 0..MaxId,
         idOf' \in [Key -> 0..MaxId],
         registration' = "absent" => Registration!Present' = {}, settled' = settled
  PROVE  RegistrationInv'
BY FreeRow, WorkStep DEF Registration!Leave

LEMMA ClientRowSteps ==
  ASSUME RegistrationInv, NEW w \in Request
  PROVE  /\ Registration!InsertClient(w) => RegistrationInv'
         /\ Registration!UpdateClient(w) => RegistrationInv'
         /\ Registration!ListUris(w) => RegistrationInv'
<1>1. /\ registration \in {"absent", "unknown", "registered", "gone"}
      /\ registration = "absent" => Registration!Present = {}
  BY DEF RegistrationInv, Registration!RegistrationTypeOK
<1>2. ASSUME Registration!InsertClient(w) PROVE RegistrationInv'
  <2>1. /\ writer[w].pc = "insert" /\ registration' = "unknown"
        /\ UNCHANGED <<idOf, ids, settled>>
    BY <1>2 DEF Registration!InsertClient, Registration!IsAt
  <2>2. PICK h : h = [writer[w] EXCEPT !.pc = "write"] /\ Registration!Becomes(w, h)
    BY <1>2 DEF Registration!InsertClient
  <2>3. /\ h \in Row /\ h.pc = "write" /\ h.want = writer[w].want /\ h.drop = writer[w].drop
        /\ h.all = writer[w].all /\ h.disturbed = writer[w].disturbed /\ writer'[w] = h
    BY <2>1, <2>2, RegistrationFacts DEF Row, Registration!Becomes
  <2>4. Undisturbed(w) => Progress(w)'
    <3> SUFFICES ASSUME Undisturbed(w) PROVE Progress(w)'
      OBVIOUS
    <3>1. h.want = h.all /\ h.drop = {} /\ Registration!Present = {}
      BY <1>1, <2>1, <2>3 DEF Undisturbed, Progress
    <3>2. Registration!Present' = {}
      BY <2>1, <3>1 DEF Registration!Present
    <3> QED BY <2>3, <3>1, <3>2 DEF Progress, Kept
  <2> QED BY <2>1, <2>2, <2>3, <2>4, RegistrationFacts, WorkStep
<1>3. ASSUME Registration!UpdateClient(w) PROVE RegistrationInv'
  <2>1. writer[w].pc = "update" /\ UNCHANGED <<registration, idOf, ids, settled>>
        /\ Registration!Present' = Registration!Present
    BY <1>3 DEF Registration!UpdateClient, Registration!IsAt, Registration!Present
  <2>2. CASE Registration!Leave(w)
    BY <1>1, <2>1, <2>2, RegistrationFacts, LeaveStep
  <2>3. CASE ~Registration!Leave(w)
    <3>1. PICK h : h = [writer[w] EXCEPT !.pc = "list"] /\ Registration!Becomes(w, h)
      BY <1>3, <2>3 DEF Registration!UpdateClient
    <3>2. /\ h \in Row /\ h.pc = "list" /\ h.want = writer[w].want /\ h.drop = writer[w].drop
          /\ h.all = writer[w].all /\ h.disturbed = writer[w].disturbed /\ writer'[w] = h
      BY <2>1, <3>1, RegistrationFacts DEF Row, Registration!Becomes
    <3>3. Undisturbed(w) => Progress(w)'
      BY <2>1, <3>2 DEF Undisturbed, Progress
    <3> QED BY <1>1, <2>1, <3>1, <3>2, <3>3, RegistrationFacts, WorkStep
  <2> QED BY <2>2, <2>3
<1>4. ASSUME Registration!ListUris(w) PROVE RegistrationInv'
  <2>1. writer[w].pc = "list" /\ UNCHANGED <<registration, idOf, ids, settled>>
        /\ Registration!Present' = Registration!Present
    BY <1>4 DEF Registration!ListUris, Registration!IsAt, Registration!Present
  <2>2. PICK h, listed : /\ listed = {idOf[u] : u \in Registration!Present}
                         /\ h = [writer[w] EXCEPT !.pc = "write", !.drop = listed]
                         /\ Registration!Becomes(w, h)
    BY <1>4 DEF Registration!ListUris, Registration!Listed
  <2>3. listed \subseteq Registration!Id
    BY <2>2, RegistrationFacts DEF Registration!Present, Registration!NoRow, Registration!Id
  <2>4. /\ h \in Row /\ h.pc = "write" /\ h.want = writer[w].want /\ h.drop = listed
        /\ h.all = writer[w].all /\ h.disturbed = writer[w].disturbed /\ writer'[w] = h
    BY <2>1, <2>2, <2>3, RegistrationFacts DEF Row, Registration!Becomes
  <2>5. Undisturbed(w) => Progress(w)'
    BY <2>1, <2>2, <2>4 DEF Undisturbed, Progress, Kept
  <2> QED BY <1>1, <2>1, <2>2, <2>4, <2>5, RegistrationFacts, WorkStep
<1> QED BY <1>2, <1>3, <1>4

LEMMA WithoutRow ==
  ASSUME RegistrationInv, NEW id \in Registration!Id, idOf' = Registration!Without(id)
  PROVE  /\ idOf' \in [Key -> 0..MaxId] /\ 0 \notin Registration!Id
         /\ \A u \in Key : idOf'[u] = IF idOf[u] = id THEN 0 ELSE idOf[u]
         /\ Registration!Present' = {u \in Registration!Present : idOf[u] # id}
<1>1. \A u \in Key : idOf'[u] = IF idOf[u] = id THEN 0 ELSE idOf[u]
  BY DEF Registration!Without, Registration!NoRow
<1>2. idOf' \in [Key -> 0..MaxId] /\ 0 \notin Registration!Id
  BY RegistrationFacts DEF Registration!Without, Registration!NoRow, Registration!Id
<1>3. Registration!Present' = {u \in Registration!Present : idOf[u] # id}
  BY <1>1, <1>2 DEF Registration!Present, Registration!NoRow
<1> QED BY <1>1, <1>2, <1>3

LEMMA InsertedRow ==
  ASSUME RegistrationInv, NEW u \in Key, u \notin Registration!Present, Registration!Insert(u)
  PROVE  /\ ids' \in 0..MaxId /\ idOf' \in [Key -> 0..MaxId]
         /\ idOf'[u] # 0 /\ \A v \in Key \ {u} : idOf'[v] = idOf[v]
         /\ Registration!Present' = Registration!Present \cup {u}
<1>1. ids' = ids + 1 /\ ids < MaxId /\ idOf' = [idOf EXCEPT ![u] = ids']
  BY DEF Registration!Insert
<1>2. ids' \in 0..MaxId /\ ids' # 0
  BY <1>1, RegistrationFacts
<1>3. /\ idOf' \in [Key -> 0..MaxId] /\ idOf'[u] # 0
      /\ \A v \in Key \ {u} : idOf'[v] = idOf[v]
  BY <1>1, <1>2, RegistrationFacts
<1> QED BY <1>2, <1>3 DEF Registration!Present, Registration!NoRow

LEMMA DeleteListedStep ==
  ASSUME RegistrationInv, NEW w \in Request, Registration!DeleteListed(w)
  PROVE  RegistrationInv'
<1>1. writer[w].pc = "write" /\ UNCHANGED <<registration, ids, settled>>
  BY DEF Registration!DeleteListed, Registration!IsAt
<1>2. PICK id, h : /\ id \in writer[w].drop /\ idOf' = Registration!Without(id)
                   /\ h = [writer[w] EXCEPT !.drop = @ \ {id}] /\ Registration!Becomes(w, h)
  BY DEF Registration!DeleteListed
<1>3. writer[w] \in Row /\ id \in Registration!Id
  BY <1>2, RegistrationFacts DEF Row
<1>4. /\ h \in Row /\ h.pc = "write" /\ h.want = writer[w].want /\ h.drop = writer[w].drop \ {id}
      /\ h.all = writer[w].all /\ h.disturbed = writer[w].disturbed /\ writer'[w] = h
  BY <1>1, <1>2, <1>3, RegistrationFacts DEF Row, Registration!Becomes
<1>5. Undisturbed(w) => Progress(w)'
  <2> SUFFICES ASSUME Undisturbed(w) PROVE Progress(w)'
    OBVIOUS
  <2>1. h.want \subseteq h.all /\ h.all \ h.want = Kept(w)
    BY <1>1, <1>4 DEF Undisturbed, Progress
  <2>2. Kept(w)' = Kept(w)
    BY <1>2, <1>3, <1>4, WithoutRow DEF Kept, Registration!Present
  <2> QED BY <1>4, <2>1, <2>2 DEF Progress
<1>6. registration' = "absent" => Registration!Present' = {}
  BY <1>1, <1>2, <1>3, WithoutRow DEF RegistrationInv
<1>7. registration \in {"absent", "unknown", "registered", "gone"}
  BY DEF RegistrationInv, Registration!RegistrationTypeOK
<1> QED BY <1>1, <1>2, <1>3, <1>4, <1>5, <1>6, <1>7, RegistrationFacts, WithoutRow, WorkStep

LEMMA AddWantedStep ==
  ASSUME RegistrationInv, NEW w \in Request, Registration!AddWanted(w)
  PROVE  RegistrationInv'
<1>1. /\ writer[w].pc = "write" /\ writer[w].drop = {} /\ UNCHANGED <<registration, settled>>
      /\ writer[w] \in Row
  BY RegistrationFacts DEF Registration!AddWanted, Registration!IsAt
<1>2. /\ registration \in {"absent", "unknown", "registered", "gone"}
      /\ registration = "absent" => Registration!Present = {}
  BY DEF RegistrationInv, Registration!RegistrationTypeOK
<1>3. CASE Registration!Leave(w) /\ UNCHANGED <<idOf, ids>>
  <2>1. Registration!Present' = Registration!Present
    BY <1>3 DEF Registration!Present
  <2> QED BY <1>1, <1>2, <1>3, <2>1, RegistrationFacts, LeaveStep
<1>4. CASE ~(Registration!Leave(w) /\ UNCHANGED <<idOf, ids>>)
  <2>1. PICK u, h :
          /\ u \in writer[w].want /\ Registration!Exists /\ u \notin Registration!Present /\ Registration!Insert(u)
          /\ h = [writer[w] EXCEPT !.want = @ \ {u}] /\ Registration!Becomes(w, h)
    BY <1>4 DEF Registration!AddWanted
  <2>2. u \in Key
    BY <1>1, <2>1 DEF Row
  <2>3. /\ h \in Row /\ h.pc = "write" /\ h.want = writer[w].want \ {u} /\ h.drop = {}
        /\ h.all = writer[w].all /\ h.disturbed = writer[w].disturbed /\ writer'[w] = h
    BY <1>1, <2>1, RegistrationFacts DEF Row, Registration!Becomes
  <2>4. Registration!Present' = Registration!Present \cup {u}
    BY <2>1, <2>2, InsertedRow
  <2>5. Undisturbed(w) => Progress(w)'
    <3> SUFFICES ASSUME Undisturbed(w) PROVE Progress(w)'
      OBVIOUS
    <3>1. writer[w].want \subseteq writer[w].all /\ writer[w].all \ writer[w].want = Registration!Present
      BY <1>1 DEF Undisturbed, Progress, Kept
    <3>2. Kept(w)' = Registration!Present'
      BY <2>3 DEF Kept
    <3>3. h.all \ h.want = Registration!Present \cup {u} /\ h.want \subseteq h.all
      BY <2>1, <2>3, <3>1
    <3> QED BY <2>3, <2>4, <3>2, <3>3 DEF Progress
  <2>6. registration' # "absent"
    BY <1>1, <2>1 DEF Registration!Exists
  <2> QED BY <1>1, <1>2, <2>1, <2>2, <2>3, <2>5, <2>6, InsertedRow, WorkStep
<1> QED BY <1>3, <1>4

LEMMA AnswerClientStep ==
  ASSUME RegistrationInv, NEW w \in Request, Registration!AnswerClient(w)
  PROVE  RegistrationInv'
<1>1. /\ writer[w].pc = "write" /\ writer[w].drop = {} /\ writer[w].want = {}
      /\ settled' = IF writer[w].disturbed THEN settled ELSE writer[w].all
      /\ registration' = IF Registration!Exists THEN "registered" ELSE registration
      /\ Registration!Becomes(w, Registration!Free) /\ UNCHANGED <<idOf, ids>>
  BY DEF Registration!AnswerClient, Registration!IsAt, Registration!Leave
<1>2. /\ registration \in {"absent", "unknown", "registered", "gone"}
      /\ registration = "absent" => Registration!Present = {}
  BY DEF RegistrationInv, Registration!RegistrationTypeOK
<1>3. Registration!Present' = Registration!Present
  BY <1>1 DEF Registration!Present
<1>4. /\ registration' \in {"absent", "unknown", "registered", "gone"}
      /\ registration' = "absent" => Registration!Present' = {}
  BY <1>1, <1>2, <1>3 DEF Registration!Exists
<1>5. ~writer[w].disturbed => Registration!Busy = {w} /\ writer[w].all = Registration!Present
  BY <1>1, BusySlot DEF Undisturbed, Progress, Kept
<1>6. writer[w] \in Row /\ writer[w].disturbed \in BOOLEAN /\ writer[w].all \subseteq Key
  BY RegistrationFacts DEF Row
<1> QED BY <1>1, <1>3, <1>4, <1>5, <1>6, FreeRow, RegistrationFacts, WorkStep

LEMMA Departures ==
  ASSUME RegistrationInv, NEW w \in Request
  PROVE  /\ Registration!FailClient(w) => RegistrationInv'
         /\ Registration!InsertUri(w) => RegistrationInv'
         /\ Registration!DeleteUriRow(w) => RegistrationInv'
         /\ Registration!DeleteClientRow(w) => RegistrationInv'
<1>1. /\ registration \in {"absent", "unknown", "registered", "gone"}
      /\ registration = "absent" => Registration!Present = {}
  BY DEF RegistrationInv, Registration!RegistrationTypeOK
<1>2. writer[w] \in Row
  BY RegistrationFacts
<1>3. ASSUME Registration!FailClient(w) PROVE RegistrationInv'
  <2>1. /\ writer[w].pc # "free" /\ Registration!Leave(w)
        /\ UNCHANGED <<registration, idOf, ids, settled>>
        /\ Registration!Present' = Registration!Present
    BY <1>3 DEF Registration!FailClient, Registration!Busy, Registration!IsAt,
       Registration!Present
  <2> QED BY <1>1, <2>1, RegistrationFacts, LeaveStep
<1>4. ASSUME Registration!InsertUri(w) PROVE RegistrationInv'
  <2>1. /\ writer[w].pc = "add" /\ Registration!Leave(w) /\ UNCHANGED <<registration, settled>>
    BY <1>4 DEF Registration!InsertUri, Registration!IsAt
  <2>2. CASE UNCHANGED <<idOf, ids>>
    <3>1. Registration!Present' = Registration!Present
      BY <2>2 DEF Registration!Present
    <3> QED BY <1>1, <2>1, <2>2, <3>1, RegistrationFacts, LeaveStep
  <2>3. CASE ~UNCHANGED <<idOf, ids>>
    <3>1. PICK u \in writer[w].want :
            Registration!Exists /\ u \notin Registration!Present /\ Registration!Insert(u)
      BY <1>4, <2>3 DEF Registration!InsertUri
    <3>2. u \in Key /\ registration' # "absent"
      BY <1>2, <2>1, <3>1 DEF Row, Registration!Exists
    <3> QED BY <1>1, <2>1, <3>1, <3>2, InsertedRow, LeaveStep
  <2> QED BY <2>2, <2>3
<1>5. ASSUME Registration!DeleteUriRow(w) PROVE RegistrationInv'
  <2>1. /\ writer[w].pc = "delete" /\ Registration!Leave(w)
        /\ UNCHANGED <<registration, ids, settled>>
    BY <1>5 DEF Registration!DeleteUriRow, Registration!IsAt
  <2>2. PICK id \in writer[w].drop : idOf' = Registration!Without(id)
    BY <1>5 DEF Registration!DeleteUriRow
  <2>3. id \in Registration!Id
    BY <1>2, <2>2 DEF Row
  <2>4. registration' = "absent" => Registration!Present' = {}
    BY <1>1, <2>1, <2>2, <2>3, WithoutRow
  <2> QED BY <1>1, <2>1, <2>2, <2>3, <2>4, WithoutRow, RegistrationFacts, LeaveStep
<1>6. ASSUME Registration!DeleteClientRow(w) PROVE RegistrationInv'
  <2>1. /\ writer[w].pc = "end" /\ Registration!Leave(w) /\ registration' = "gone"
        /\ idOf' = [u \in Key |-> 0] /\ UNCHANGED <<ids, settled>>
    BY <1>6 DEF Registration!DeleteClientRow, Registration!IsAt, Registration!NoRow
  <2>2. idOf' \in [Key -> 0..MaxId]
    BY <2>1, RegistrationFacts
  <2> QED BY <2>1, <2>2, RegistrationFacts, LeaveStep
<1> QED BY <1>3, <1>4, <1>5, <1>6

LEMMA RegistrationInvInit ==
  ASSUME Registration!RegistrationInit
  PROVE  RegistrationInv
<1>1. /\ registration = "absent" /\ idOf = [u \in Key |-> 0] /\ ids = 0
      /\ writer = [w \in Request |-> Registration!Free] /\ settled = {} /\ MaxId \in Nat
  BY PartsAssumption DEF Registration!RegistrationInit, Registration!RegistrationAssumption,
     Registration!NoRow, Registration!Unsettled
<1>2. Registration!RegistrationTypeOK
  <2>1. writer \in [Request -> Row]
    BY <1>1, FreeRow
  <2> QED BY <1>1, <2>1 DEF Registration!RegistrationTypeOK, Row
<1>3. Registration!Present = {} /\ Registration!Busy = {}
  BY <1>1, FreeRow DEF Registration!Present, Registration!NoRow, Registration!Busy,
     Registration!IsAt
<1> QED BY <1>1, <1>2, <1>3 DEF RegistrationInv

LEMMA RegistrationInvNext ==
  ASSUME RegistrationInv, Registration!RegistrationNext
  PROVE  RegistrationInv'
BY Arrivals, ClientRowSteps, DeleteListedStep, AddWantedStep, AnswerClientStep, Departures
DEF Registration!RegistrationNext

LEMMA RegistrationFrame ==
  ASSUME RegistrationInv, UNCHANGED registrationVars
  PROVE  RegistrationInv'
BY DEF registrationVars, RegistrationInv, Registration!RegistrationTypeOK, Registration!Present,
   Registration!Busy, Registration!IsAt, Undisturbed, Progress, Kept

---------------------------------------------------------------------------
(* Behaviours of MCSessions: ClientRegistration.                           *)

RegistrationWorld == world = "registration" => RegistrationInv

LEMMA RegistrationSteps ==
  [SessionsNext]_sessionsVars
    => world' = world /\ (world = "registration"
                            => Registration!RegistrationNext \/ UNCHANGED registrationVars)
BY DEF SessionsNext, sessionsVars

LEMMA RegistrationHolds == SessionsSpec => []RegistrationWorld
<1>1. SessionsInit => RegistrationWorld
  BY RegistrationInvInit DEF SessionsInit, RegistrationWorld
<1>2. RegistrationWorld /\ [SessionsNext]_sessionsVars => RegistrationWorld'
  BY RegistrationSteps, RegistrationInvNext, RegistrationFrame DEF RegistrationWorld
<1> QED BY <1>1, <1>2, PTL DEF SessionsSpec, sessionsVars

\* A client that was told its registration or its update is done has exactly the redirect
\* URIs it asked for, until somebody begins to change them, unless two handlers were at
\* work at the same time (routes/register.ts, routes/services/redirect-uris.ts).
THEOREM SettledMeansThere == SessionsSpec => []SettledIsWhatIsThere
<1>1. RegistrationWorld => SettledIsWhatIsThere
  BY DEF RegistrationWorld, RegistrationInv, SettledIsWhatIsThere,
     Registration!SettledIsWhatIsThere, Registration!Unsettled
<1> QED BY <1>1, RegistrationHolds, PTL

---------------------------------------------------------------------------
(* ServiceOwnership: the invariant.                                        *)

\* The user and the thing of a handler are there from its first step on; a deletion
\* that has counted goes on for a user without services, unless one was given since,
\* and the MCP sessions it finds when it comes to the row are late ones.
OwnerOpOK(o) ==
  LET h == work[o] IN
  /\ h.step # "rest" => h.user \in Session
  /\ h.step \in {"own", "transfer"} => h.thing \in User
  /\ h.step = "hold" => h.thing \in Nonce
  /\ h.step \in {"token", "bff", "mcp", "row"} => h.gained \/ Ownership!OwnsNothing(h.user)
  /\ h.step = "row" /\ <<h.user, "mcp">> \in session => h.user \in late

OwnerInv ==
  /\ Ownership!OwnerTypeOK /\ \A o \in Request : OwnerOpOK(o)
  /\ Ownership!GoneHasNoSession

Job == [step : Ownership!Step, user : Session \cup {Ownership!Nobody},
        thing : User \cup Nonce \cup {Ownership!Nobody}, gained : BOOLEAN]

LEMMA OwnerFacts ==
  ASSUME OwnerInv
  PROVE  /\ Ownership!Nobody \notin Session /\ account \subseteq Session /\ late \subseteq Session
         /\ ownedBy \in [User -> Session \cup {Ownership!Nobody}]
         /\ heldBy \in [Nonce -> Session \cup {Ownership!Nobody}]
         /\ session \subseteq Session \X Ownership!SessionKind
         /\ work \in [Request -> Job] /\ \A o \in Request : work[o] \in Job /\ OwnerOpOK(o)
BY PartsAssumption
DEF OwnerInv, Ownership!OwnerTypeOK, Job, Ownership!OwnershipAssumption, Ownership!Nobody

LEMMA RestingJob ==
  /\ Ownership!AtRest \in Job /\ Ownership!AtRest.step = "rest"
  /\ Ownership!AtRest = [step |-> "rest", user |-> Ownership!Nobody, thing |-> Ownership!Nobody,
                         gained |-> FALSE]
BY DEF Ownership!AtRest, Job, Ownership!Step

LEMMA RestingOpOK ==
  ASSUME NEW o \in Request, work'[o] = Ownership!AtRest
  PROVE  OwnerOpOK(o)'
BY RestingJob DEF OwnerOpOK

\* A handler that does not move, while others do.
LEMMA OpStays ==
  ASSUME OwnerInv, NEW p \in Request, work'[p].step = work[p].step,
         work'[p].user = work[p].user, work'[p].thing = work[p].thing,
         work[p].gained => work'[p].gained,
         work[p].step \in {"token", "bff", "mcp", "row"} =>
           \/ work'[p].gained
           \/ \A s \in User : ownedBy'[s] = work[p].user => ownedBy[s] = work[p].user,
         work[p].step = "row" /\ <<work[p].user, "mcp">> \in session' =>
           \/ work[p].user \in late'
           \/ <<work[p].user, "mcp">> \in session /\ late \subseteq late'
  PROVE  OwnerOpOK(p)'
<1>1. OwnerOpOK(p)
  BY DEF OwnerInv
<1> QED BY <1>1 DEF OwnerOpOK, Ownership!OwnsNothing

\* One handler goes on or rests, and no service changes hands.
LEMMA JobStep ==
  ASSUME OwnerInv, NEW o \in Request, NEW h \in Job, work' = [work EXCEPT ![o] = h],
         UNCHANGED <<ownedBy, late>>, account' \subseteq account, session' \subseteq session,
         heldBy' \in [Nonce -> Session \cup {Ownership!Nobody}],
         h = Ownership!AtRest \/ OwnerOpOK(o)',
         Ownership!GoneHasNoSession'
  PROVE  OwnerInv'
<1>1. work' \in [Request -> Job] /\ work'[o] = h /\ \A p \in Request \ {o} : work'[p] = work[p]
  BY OwnerFacts
<1>2. \A p \in Request : OwnerOpOK(p)'
  <2> SUFFICES ASSUME NEW p \in Request PROVE OwnerOpOK(p)'
    OBVIOUS
  <2>1. CASE p = o
    BY <1>1, <2>1, RestingOpOK
  <2>2. CASE p # o
    BY <1>1, <2>2, OpStays
  <2> QED BY <2>1, <2>2
<1>3. Ownership!OwnerTypeOK'
  BY <1>1, OwnerFacts DEF OwnerInv, Ownership!OwnerTypeOK, Job
<1> QED BY <1>2, <1>3 DEF OwnerInv

LEMMA TakeStep ==
  ASSUME OwnerInv, NEW o \in Request, NEW u \in Session, NEW thing, NEW step,
         Ownership!Take(o, step, u, thing),
         \/ step = "count" /\ thing = Ownership!Nobody
         \/ step = "visit" /\ thing = Ownership!Nobody
         \/ step \in {"own", "transfer"} /\ thing \in User
         \/ step = "hold" /\ thing \in Nonce
  PROVE  OwnerInv'
<1>1. PICK h : /\ h = [step |-> step, user |-> u, thing |-> thing, gained |-> FALSE]
               /\ work' = [work EXCEPT ![o] = h]
  <2> PICK h : h = [Ownership!AtRest EXCEPT !.step = step, !.user = u, !.thing = thing]
    OBVIOUS
  <2>1. h = [step |-> step, user |-> u, thing |-> thing, gained |-> FALSE]
    BY RestingJob
  <2> QED BY <2>1 DEF Ownership!Take
<1>2. h \in Job
  BY <1>1 DEF Job, Ownership!Step
<1>3. UNCHANGED <<account, ownedBy, heldBy, session, late>>
  BY DEF Ownership!Take
<1>4. work'[o] = h
  BY <1>1, OwnerFacts
<1>5. OwnerOpOK(o)'
  BY <1>1, <1>4 DEF OwnerOpOK
<1>6. Ownership!GoneHasNoSession'
  BY <1>3 DEF OwnerInv, Ownership!GoneHasNoSession
<1> QED BY <1>1, <1>2, <1>3, <1>5, <1>6, OwnerFacts, JobStep

LEMMA OwnerArrivals ==
  ASSUME OwnerInv, NEW o \in Request, NEW u \in Session
  PROVE  /\ Ownership!DeleteAccount(o, u) => OwnerInv'
         /\ Ownership!Initialize(o, u) => OwnerInv'
         /\ \A s \in User : Ownership!CreateService(o, u, s) => OwnerInv'
         /\ \A s \in User : Ownership!TransferOwner(o, u, s) => OwnerInv'
         /\ \A q \in Nonce : Ownership!CreateResource(o, u, q) => OwnerInv'
BY TakeStep DEF Ownership!DeleteAccount, Ownership!Initialize, Ownership!CreateService,
   Ownership!TransferOwner, Ownership!CreateResource

LEMMA DeletionSteps ==
  ASSUME OwnerInv, NEW o \in Request
  PROVE  /\ Ownership!CountServices(o) => OwnerInv'
         /\ Ownership!EndSessions(o) => OwnerInv'
         /\ Ownership!DeleteRow(o) => OwnerInv'
<1>1. work[o] \in Job /\ OwnerOpOK(o)
  BY OwnerFacts
<1>2. ASSUME Ownership!CountServices(o) PROVE OwnerInv'
  <2>1. work[o].step = "count" /\ UNCHANGED <<account, ownedBy, heldBy, session, late>>
    BY <1>2 DEF Ownership!CountServices, Ownership!On
  <2>2. Ownership!GoneHasNoSession'
    BY <2>1 DEF OwnerInv, Ownership!GoneHasNoSession
  <2>3. CASE Ownership!OwnsNothing(work[o].user)
    <3>1. PICK h : h = [work[o] EXCEPT !.step = "token"] /\ work' = [work EXCEPT ![o] = h]
      BY <1>2, <2>3 DEF Ownership!CountServices, Ownership!Goes
    <3>2. h \in Job /\ h.step = "token" /\ h.user = work[o].user /\ work'[o] = h
      BY <1>1, <3>1, OwnerFacts DEF Job, Ownership!Step
    <3>3. OwnerOpOK(o)'
      BY <1>1, <2>1, <2>3, <3>2 DEF OwnerOpOK, Ownership!OwnsNothing
    <3> QED BY <2>1, <2>2, <3>1, <3>2, <3>3, OwnerFacts, JobStep
  <2>4. CASE ~Ownership!OwnsNothing(work[o].user)
    <3>1. work' = [work EXCEPT ![o] = Ownership!AtRest]
      BY <1>2, <2>4 DEF Ownership!CountServices, Ownership!Rests
    <3> QED BY <2>1, <2>2, <3>1, RestingJob, OwnerFacts, JobStep
  <2> QED BY <2>3, <2>4
<1>3. ASSUME Ownership!EndSessions(o) PROVE OwnerInv'
  <2>1. /\ work[o].step \in {"token", "bff", "mcp"}
        /\ session' = session \ {<<work[o].user, work[o].step>>}
        /\ UNCHANGED <<account, ownedBy, heldBy, late>>
    BY <1>3 DEF Ownership!EndSessions, Ownership!SessionKind
  <2>2. PICK h, next : /\ next = Ownership!After[work[o].step]
                       /\ h = [work[o] EXCEPT !.step = next] /\ work' = [work EXCEPT ![o] = h]
    BY <1>3 DEF Ownership!EndSessions, Ownership!Goes
  <2>3. next = CASE work[o].step = "token" -> "bff" [] work[o].step = "bff" -> "mcp"
                 [] work[o].step = "mcp" -> "row"
    BY <2>1, <2>2 DEF Ownership!After
  <2>4. next \in {"bff", "mcp", "row"} /\ (next = "row" => work[o].step = "mcp")
    BY <2>1, <2>3
  <2>5. /\ h \in Job /\ h.step = next /\ h.user = work[o].user /\ h.gained = work[o].gained
        /\ work'[o] = h
    BY <1>1, <2>2, <2>4, OwnerFacts DEF Job, Ownership!Step
  <2>6. OwnerOpOK(o)'
    BY <1>1, <2>1, <2>4, <2>5 DEF OwnerOpOK, Ownership!OwnsNothing
  <2>7. Ownership!GoneHasNoSession'
    BY <2>1 DEF OwnerInv, Ownership!GoneHasNoSession
  <2> QED BY <2>1, <2>2, <2>5, <2>6, <2>7, OwnerFacts, JobStep
<1>4. ASSUME Ownership!DeleteRow(o) PROVE OwnerInv'
  <2> DEFINE u == work[o].user
  <2>1. /\ work[o].step = "row" /\ work' = [work EXCEPT ![o] = Ownership!AtRest]
        /\ UNCHANGED <<ownedBy, heldBy, late>>
    BY <1>4 DEF Ownership!DeleteRow, Ownership!On, Ownership!Rests
  <2>2. CASE UNCHANGED <<account, session>>
    <3>1. Ownership!GoneHasNoSession'
      BY <2>1, <2>2 DEF OwnerInv, Ownership!GoneHasNoSession
    <3> QED BY <2>1, <2>2, <3>1, RestingJob, OwnerFacts, JobStep
  <2>3. CASE ~UNCHANGED <<account, session>>
    <3>1. account' = account \ {u} /\ session' = session \ {<<u, "token">>, <<u, "bff">>}
      BY <1>4, <2>3 DEF Ownership!DeleteRow
    <3>2. <<u, "mcp">> \in session => u \in late
      BY <1>1, <2>1 DEF OwnerOpOK
    <3>3. Ownership!GoneHasNoSession'
      <4> SUFFICES ASSUME NEW v \in Session, v \notin account', NEW k \in Ownership!SessionKind,
                          <<v, k>> \in session'
                   PROVE  k = "mcp" /\ v \in late
        BY <2>1 DEF Ownership!GoneHasNoSession
      <4>1. CASE v = u
        BY <3>1, <3>2, <4>1 DEF Ownership!SessionKind
      <4>2. CASE v # u
        BY <3>1, <4>2 DEF OwnerInv, Ownership!GoneHasNoSession
      <4> QED BY <4>1, <4>2
    <3> QED BY <2>1, <3>1, <3>3, RestingJob, OwnerFacts, JobStep
  <2> QED BY <2>2, <2>3
<1> QED BY <1>2, <1>3, <1>4

\* A service is given to a user.
LEMMA GivenStep ==
  ASSUME OwnerInv, NEW o \in Request, NEW s \in User, NEW u \in Session,
         ownedBy' = [ownedBy EXCEPT ![s] = u], Ownership!Given(o, u),
         UNCHANGED <<account, heldBy, session, late>>
  PROVE  OwnerInv'
<1>1. work'[o] = Ownership!AtRest
  BY DEF Ownership!Given
<1>2. ASSUME NEW p \in Request, p # o
      PROVE  /\ work'[p] \in Job /\ work'[p].step = work[p].step /\ work'[p].user = work[p].user
             /\ work'[p].thing = work[p].thing /\ (work[p].gained => work'[p].gained)
             /\ work[p].step # "rest" /\ work[p].user = u => work'[p].gained
  <2>1. PICK b \in BOOLEAN :
          b = (work[p].gained \/ (work[p].step # "rest" /\ work[p].user = u))
    BY OwnerFacts DEF Job
  <2>2. work'[p] = [work[p] EXCEPT !.gained = b] /\ work[p] \in Job
    BY <1>2, <2>1, OwnerFacts DEF Ownership!Given
  <2> QED BY <2>1, <2>2 DEF Job
<1>3. \A p \in Request : OwnerOpOK(p)'
  <2> SUFFICES ASSUME NEW p \in Request PROVE OwnerOpOK(p)'
    OBVIOUS
  <2>1. CASE p = o
    BY <1>1, <2>1, RestingOpOK
  <2>2. CASE p # o
    <3>1. work'[p].gained \/ work[p].step = "rest" \/ work[p].user # u
      BY <1>2, <2>2
    <3>2. work[p].user # u =>
            \A r \in User : ownedBy'[r] = work[p].user => ownedBy[r] = work[p].user
      BY OwnerFacts
    <3> QED BY <1>2, <2>2, <3>1, <3>2, OpStays
  <2> QED BY <2>1, <2>2
<1>4. work' \in [Request -> Job]
  <2>1. \A p \in Request : work'[p] \in Job
    BY <1>1, <1>2, RestingJob
  <2> QED BY <2>1 DEF Ownership!Given
<1>5. Ownership!OwnerTypeOK'
  BY <1>4, OwnerFacts DEF OwnerInv, Ownership!OwnerTypeOK, Job
<1>6. Ownership!GoneHasNoSession'
  BY DEF OwnerInv, Ownership!GoneHasNoSession
<1> QED BY <1>3, <1>5, <1>6 DEF OwnerInv

LEMMA RestStep ==
  ASSUME OwnerInv, NEW o \in Request, Ownership!Rests(o),
         UNCHANGED <<account, ownedBy, session, late>>,
         heldBy' \in [Nonce -> Session \cup {Ownership!Nobody}]
  PROVE  OwnerInv'
<1>1. Ownership!GoneHasNoSession'
  BY DEF OwnerInv, Ownership!GoneHasNoSession
<1> QED BY <1>1, RestingJob, JobStep DEF Ownership!Rests

LEMMA HandingSteps ==
  ASSUME OwnerInv, NEW o \in Request
  PROVE  /\ Ownership!InsertService(o) => OwnerInv'
         /\ Ownership!UpdateOwner(o) => OwnerInv'
         /\ Ownership!InsertResource(o) => OwnerInv'
         /\ Ownership!Abandon(o) => OwnerInv'
<1>1. work[o] \in Job /\ OwnerOpOK(o) /\ heldBy \in [Nonce -> Session \cup {Ownership!Nobody}]
  BY OwnerFacts
<1>2. ASSUME Ownership!InsertService(o) PROVE OwnerInv'
  <2>1. work[o].user \in Session /\ work[o].thing \in User
    BY <1>1, <1>2 DEF Ownership!InsertService, Ownership!On, OwnerOpOK
  <2> QED BY <1>1, <1>2, <2>1, GivenStep, RestStep DEF Ownership!InsertService
<1>3. ASSUME Ownership!UpdateOwner(o) PROVE OwnerInv'
  <2>1. work[o].user \in Session /\ work[o].thing \in User
    BY <1>1, <1>3 DEF Ownership!UpdateOwner, Ownership!On, OwnerOpOK
  <2> QED BY <1>1, <1>3, <2>1, GivenStep, RestStep DEF Ownership!UpdateOwner
<1>4. ASSUME Ownership!InsertResource(o) PROVE OwnerInv'
  <2>1. work[o].user \in Session /\ work[o].thing \in Nonce
    BY <1>1, <1>4 DEF Ownership!InsertResource, Ownership!On, OwnerOpOK
  <2>2. heldBy' \in [Nonce -> Session \cup {Ownership!Nobody}]
    BY <1>1, <1>4, <2>1 DEF Ownership!InsertResource
  <2> QED BY <1>4, <2>2, RestStep DEF Ownership!InsertResource
<1>5. ASSUME Ownership!Abandon(o) PROVE OwnerInv'
  BY <1>1, <1>5, RestStep DEF Ownership!Abandon
<1> QED BY <1>2, <1>3, <1>4, <1>5

\* No handler moves.
LEMMA OutsideStep ==
  ASSUME OwnerInv, UNCHANGED <<account, work>>,
         ownedBy' \in [User -> Session \cup {Ownership!Nobody}],
         heldBy' \in [Nonce -> Session \cup {Ownership!Nobody}],
         \A s \in User : ownedBy'[s] \in {ownedBy[s], Ownership!Nobody},
         session' \subseteq Session \X Ownership!SessionKind, late' \subseteq Session,
         \A u \in Session : <<u, "mcp">> \in session' =>
           <<u, "mcp">> \in session /\ (u \in late => u \in late'),
         \A u \in Session \ account : \A k \in Ownership!SessionKind :
           <<u, k>> \in session' => <<u, k>> \in session
  PROVE  OwnerInv'
<1>1. \A p \in Request : OwnerOpOK(p)'
  <2> SUFFICES ASSUME NEW p \in Request PROVE OwnerOpOK(p)'
    OBVIOUS
  <2>1. OwnerOpOK(p) /\ work'[p] = work[p]
    BY DEF OwnerInv
  <2>2. work[p].step # "rest" => work[p].user # Ownership!Nobody
    BY <2>1, OwnerFacts DEF OwnerOpOK
  <2> QED BY <2>1, <2>2 DEF OwnerOpOK, Ownership!OwnsNothing
<1>2. Ownership!OwnerTypeOK'
  BY OwnerFacts DEF OwnerInv, Ownership!OwnerTypeOK
<1>3. Ownership!GoneHasNoSession'
  BY DEF OwnerInv, Ownership!GoneHasNoSession
<1> QED BY <1>1, <1>2, <1>3 DEF OwnerInv

LEMMA OutsideSteps ==
  ASSUME OwnerInv
  PROVE  /\ \A u \in Session : Ownership!SignIn(u) => OwnerInv'
         /\ \A u \in Session : Ownership!EndMcpSession(u) => OwnerInv'
         /\ \A s \in User : Ownership!DeleteService(s) => OwnerInv'
         /\ \A q \in Nonce : Ownership!DeleteResource(q) => OwnerInv'
<1>1. ASSUME NEW u \in Session, Ownership!SignIn(u) PROVE OwnerInv'
  <2>1. /\ u \in account /\ session' = session \cup {<<u, "token">>, <<u, "bff">>}
        /\ UNCHANGED <<account, ownedBy, heldBy, work, late>>
    BY <1>1 DEF Ownership!SignIn
  <2>2. session' \subseteq Session \X Ownership!SessionKind
    BY <2>1, OwnerFacts DEF Ownership!SessionKind
  <2> QED BY <2>1, <2>2, OwnerFacts, OutsideStep
<1>2. ASSUME NEW u \in Session, Ownership!EndMcpSession(u) PROVE OwnerInv'
  <2>1. /\ session' = session \ {<<u, "mcp">>} /\ late' = late \ {u}
        /\ UNCHANGED <<account, ownedBy, heldBy, work>>
    BY <1>2 DEF Ownership!EndMcpSession
  <2> QED BY <2>1, OwnerFacts, OutsideStep
<1>3. ASSUME NEW s \in User, Ownership!DeleteService(s) PROVE OwnerInv'
  <2>1. /\ ownedBy' = [ownedBy EXCEPT ![s] = Ownership!Nobody]
        /\ UNCHANGED <<account, heldBy, session, work, late>>
    BY <1>3 DEF Ownership!DeleteService
  <2> QED BY <2>1, OwnerFacts, OutsideStep
<1>4. ASSUME NEW q \in Nonce, Ownership!DeleteResource(q) PROVE OwnerInv'
  <2>1. /\ heldBy' = [heldBy EXCEPT ![q] = Ownership!Nobody]
        /\ UNCHANGED <<account, ownedBy, session, work, late>>
    BY <1>4 DEF Ownership!DeleteResource
  <2> QED BY <2>1, OwnerFacts, OutsideStep
<1> QED BY <1>1, <1>2, <1>3, <1>4

LEMMA InsertMcpSessionStep ==
  ASSUME OwnerInv, NEW o \in Request, Ownership!InsertMcpSession(o)
  PROVE  OwnerInv'
<1> DEFINE u == work[o].user
<1>1. /\ work[o].step = "visit" /\ work' = [work EXCEPT ![o] = Ownership!AtRest]
      /\ session' = session \cup {<<u, "mcp">>}
      /\ late' = IF u \notin account \/ Ownership!Swept(u) THEN late \cup {u} ELSE late
      /\ UNCHANGED <<account, ownedBy, heldBy>>
  BY DEF Ownership!InsertMcpSession, Ownership!On, Ownership!Rests
<1>2. u \in Session
  BY <1>1, OwnerFacts DEF OwnerOpOK
<1>3. /\ work' \in [Request -> Job] /\ work'[o] = Ownership!AtRest
      /\ \A p \in Request \ {o} : work'[p] = work[p]
  BY <1>1, OwnerFacts, RestingJob
<1>4. late \subseteq late' /\ late' \subseteq Session
  BY <1>1, <1>2, OwnerFacts
<1>5. \A p \in Request : OwnerOpOK(p)'
  <2> SUFFICES ASSUME NEW p \in Request PROVE OwnerOpOK(p)'
    OBVIOUS
  <2>1. CASE p = o
    BY <1>3, <2>1, RestingOpOK
  <2>2. CASE p # o
    <3>1. work[p].step = "row" /\ work[p].user = u => u \in late'
      BY <1>1 DEF Ownership!Swept, Ownership!On
    <3>2. work[p].user # u /\ <<work[p].user, "mcp">> \in session' =>
            <<work[p].user, "mcp">> \in session
      BY <1>1
    <3> QED BY <1>1, <1>3, <1>4, <2>2, <3>1, <3>2, OpStays
  <2> QED BY <2>1, <2>2
<1>6. session' \subseteq Session \X Ownership!SessionKind
  BY <1>1, <1>2, OwnerFacts DEF Ownership!SessionKind
<1>7. Ownership!OwnerTypeOK'
  BY <1>1, <1>3, <1>4, <1>6, OwnerFacts DEF OwnerInv, Ownership!OwnerTypeOK, Job
<1>8. Ownership!GoneHasNoSession'
  <2> SUFFICES ASSUME NEW v \in Session, v \notin account, NEW k \in Ownership!SessionKind,
                      <<v, k>> \in session'
               PROVE  k = "mcp" /\ v \in late'
    BY <1>1 DEF Ownership!GoneHasNoSession
  <2>1. CASE <<v, k>> \in session
    BY <1>4, <2>1 DEF OwnerInv, Ownership!GoneHasNoSession
  <2>2. CASE <<v, k>> \notin session
    BY <1>1, <2>2
  <2> QED BY <2>1, <2>2
<1> QED BY <1>5, <1>7, <1>8 DEF OwnerInv

LEMMA OwnerInvInit ==
  ASSUME Ownership!OwnerInit
  PROVE  OwnerInv
<1>1. /\ account = Session /\ session = {} /\ late = {}
      /\ ownedBy = [s \in User |-> Ownership!Nobody]
      /\ heldBy = [q \in Nonce |-> Ownership!Nobody]
      /\ work = [o \in Request |-> Ownership!AtRest]
  BY DEF Ownership!OwnerInit
<1>2. work \in [Request -> Job]
  BY <1>1, RestingJob
<1>3. Ownership!OwnerTypeOK
  BY <1>1, <1>2 DEF Ownership!OwnerTypeOK, Job
<1>4. \A o \in Request : OwnerOpOK(o)
  BY <1>1, RestingJob DEF OwnerOpOK
<1> QED BY <1>1, <1>3, <1>4 DEF OwnerInv, Ownership!GoneHasNoSession

LEMMA OwnerInvNext ==
  ASSUME OwnerInv, Ownership!OwnerNext
  PROVE  OwnerInv'
BY OwnerArrivals, DeletionSteps, HandingSteps, InsertMcpSessionStep, OutsideSteps
DEF Ownership!OwnerNext

LEMMA OwnerFrame ==
  ASSUME OwnerInv, UNCHANGED ownerVars
  PROVE  OwnerInv'
BY DEF ownerVars, OwnerInv, Ownership!OwnerTypeOK, OwnerOpOK, Ownership!OwnsNothing,
   Ownership!GoneHasNoSession

---------------------------------------------------------------------------
(* Behaviours of MCSessions: ServiceOwnership.                             *)

OwnerWorld == world = "ownership" => OwnerInv

LEMMA OwnerSteps ==
  [SessionsNext]_sessionsVars
    => world' = world /\ (world = "ownership" => Ownership!OwnerNext \/ UNCHANGED ownerVars)
BY DEF SessionsNext, sessionsVars

LEMMA OwnerHolds == SessionsSpec => []OwnerWorld
<1>1. SessionsInit => OwnerWorld
  BY OwnerInvInit DEF SessionsInit, OwnerWorld
<1>2. OwnerWorld /\ [SessionsNext]_sessionsVars => OwnerWorld'
  BY OwnerSteps, OwnerInvNext, OwnerFrame DEF OwnerWorld
<1> QED BY <1>1, <1>2, PTL DEF SessionsSpec, sessionsVars

\* A user who is gone has no session, except an MCP session whose initialize overlapped
\* the deletion (routes/users/_shared.ts, mcp/transport.ts).
THEOREM GoneUsersHaveNoSession == SessionsSpec => []GoneHasNoSession
<1>1. OwnerWorld => GoneHasNoSession
  BY DEF OwnerWorld, OwnerInv, GoneHasNoSession
<1> QED BY <1>1, OwnerHolds, PTL

\* A deletion ends the sessions of an account that then stays only because of a resource
\* server, or of a service the user was given while the deletion ran
\* (routes/users/_shared.ts, routes/services, routes/resources.ts).
THEOREM AccountsStayForCause == SessionsSpec => StaysForCause
<1>1. OwnerWorld => (world = "ownership" => Ownership!StayJustified)
  <2> SUFFICES ASSUME OwnerInv, NEW o \in Request, work[o].step = "row",
                      Ownership!Held(work[o].user)
               PROVE  work[o].gained \/ \E q \in Nonce : heldBy[q] = work[o].user
    BY DEF OwnerWorld, Ownership!StayJustified, Ownership!On
  <2>1. work[o].gained \/ Ownership!OwnsNothing(work[o].user)
    BY DEF OwnerInv, OwnerOpOK
  <2> QED BY <2>1 DEF Ownership!Held, Ownership!OwnsNothing
<1> QED BY <1>1, OwnerHolds, PTL DEF StaysForCause

---------------------------------------------------------------------------
(* ServiceCache: the invariant.                                            *)

\* What is cached was in the table when the clock was at most TTL before its end, and is
\* not older than what the isolate has answered for unless its handler was crossed.
EntryOK ==
  entry.version # Cache!Absent =>
    /\ entry.version <= row
    /\ entry.until <= TTL + (IF entry.version = row THEN clock ELSE ended[entry.version])
    /\ entry.version >= knows \/ entry.crossed

\* An answer is of the row as it is or was at this time; a handler that is not crossed
\* is alone with look-ups, and a change that dropped the entry finds none but crossed.
HandlerOK(r) ==
  LET h == handler[r] IN
  /\ h.kind # "create" => row # Cache!Absent
  /\ Cache!DropsFirst(h.kind) => entry.version = Cache!Absent \/ entry.crossed
  /\ h.pc = "resume" =>
       /\ h.got \in 1..row /\ (h.got # row => ended[h.got] = clock)
       /\ h.crossed \/ h.got >= knows
       /\ h.kind = "create" => h.got = 1
  /\ ~h.crossed => \A s \in Request \ {r} : Cache!Running(s) => handler[s].kind = "find"

CacheInv ==
  /\ Cache!CacheTypeOK /\ knows <= row
  /\ EntryOK /\ \A r \in Request : Cache!Running(r) => HandlerOK(r)

CacheEntry == [version : 0..MaxVersion, until : 0..(CacheTime + TTL), crossed : BOOLEAN]
CacheHandler == [pc : {"rest", "statement", "resume"}, kind : Cache!Kind,
                 got : 0..(MaxVersion + 1), crossed : BOOLEAN]

LEMMA CacheFacts ==
  ASSUME CacheInv
  PROVE  /\ TTL \in Nat /\ MaxVersion \in Nat \ {0} /\ CacheTime \in Nat
         /\ Cache!Absent = 0 /\ Cache!Gone = MaxVersion + 1 /\ Cache!Version = 1..MaxVersion
         /\ row \in 0..(MaxVersion + 1) /\ knows \in 0..(MaxVersion + 1) /\ clock \in 0..CacheTime
         /\ ended \in [1..MaxVersion -> 0..CacheTime] /\ entry \in CacheEntry
         /\ handler \in [Request -> CacheHandler]
         /\ \A r \in Request : handler[r] \in CacheHandler
         /\ knows <= row
BY PartsAssumption
DEF CacheInv, Cache!CacheTypeOK, CacheEntry, CacheHandler, Cache!CacheAssumption, Cache!Absent,
    Cache!Gone, Cache!Version

LEMMA CacheTyped ==
  ASSUME row' \in 0..(MaxVersion + 1), knows' \in 0..(MaxVersion + 1), clock' \in 0..CacheTime,
         ended' \in [1..MaxVersion -> 0..CacheTime], entry' \in CacheEntry,
         handler' \in [Request -> CacheHandler]
  PROVE  Cache!CacheTypeOK'
BY DEF Cache!CacheTypeOK, CacheEntry, CacheHandler, Cache!Absent, Cache!Gone, Cache!Version

LEMMA NothingCached ==
  ASSUME CacheInv
  PROVE  /\ Cache!NoEntry \in CacheEntry /\ Cache!NoEntry.version = 0
         /\ Cache!Resting \in CacheHandler /\ Cache!Resting.pc = "rest"
BY CacheFacts DEF Cache!NoEntry, CacheEntry, Cache!Resting, CacheHandler, Cache!Kind, Cache!Absent

\* A handler that does not move, beside others that end or look up.
LEMMA HandlerStays ==
  ASSUME CacheInv, NEW r \in Request, Cache!Running(r), handler'[r] = handler[r],
         UNCHANGED <<row, clock, ended>>, handler[r].crossed \/ UNCHANGED knows,
         entry' = entry \/ entry'.version = Cache!Absent
           \/ (Cache!DropsFirst(handler[r].kind) => entry'.crossed),
         \A s \in Request \ {r} : Cache!Running(s)' =>
           handler'[s].kind = "find" \/ (Cache!Running(s) /\ handler'[s].kind = handler[s].kind)
  PROVE  HandlerOK(r)'
<1>1. HandlerOK(r)
  BY DEF CacheInv
<1>2. /\ handler[r].kind # "create" => row' # Cache!Absent
      /\ Cache!DropsFirst(handler[r].kind) => entry'.version = Cache!Absent \/ entry'.crossed
  BY <1>1 DEF HandlerOK
<1>3. handler[r].pc = "resume" =>
        /\ handler[r].got \in 1..row' /\ (handler[r].got # row' => ended'[handler[r].got] = clock')
        /\ handler[r].crossed \/ handler[r].got >= knows'
        /\ handler[r].kind = "create" => handler[r].got = 1
  BY <1>1 DEF HandlerOK
<1>4. ~handler[r].crossed =>
        \A s \in Request \ {r} : Cache!Running(s)' => handler'[s].kind = "find"
  BY <1>1 DEF HandlerOK
<1> QED BY <1>2, <1>3, <1>4 DEF HandlerOK, Cache!DropsFirst, Cache!Absent

\* A handler begins.
LEMMA BeginStep ==
  ASSUME CacheInv, NEW r \in Request, NEW kind \in Cache!Kind, Cache!Begin(r, kind),
         kind # "create" => row # Cache!Absent
  PROVE  CacheInv'
<1>1. /\ ~Cache!Running(r) /\ UNCHANGED <<row, clock, ended, knows>>
      /\ entry' = IF Cache!DropsFirst(kind) THEN Cache!NoEntry ELSE entry
  BY DEF Cache!Begin
<1>2. entry' \in CacheEntry /\ (entry' = entry \/ entry'.version = Cache!Absent)
  BY <1>1, CacheFacts, NothingCached
<1>3. PICK w \in BOOLEAN : w = Cache!Writing
  BY DEF Cache!Writing
<1>4. PICK h : h = [pc |-> "statement", kind |-> kind, got |-> Cache!Absent, crossed |-> w]
               /\ handler'[r] = h
  BY <1>3 DEF Cache!Begin
<1>5. h \in CacheHandler /\ h.pc = "statement" /\ h.kind = kind /\ h.crossed = w
  BY <1>4, CacheFacts DEF CacheHandler
<1>6. ASSUME NEW s \in Request, s # r
      PROVE  /\ handler'[s] \in CacheHandler /\ handler'[s].pc = handler[s].pc
             /\ handler'[s].kind = handler[s].kind /\ handler'[s].got = handler[s].got
             /\ handler'[s].crossed = handler[s].crossed \/ handler'[s].crossed
             /\ Cache!Running(s) /\ kind # "find" => handler'[s].crossed
             /\ handler[s].crossed => handler'[s].crossed
  <2>1. CASE Cache!Running(s)
    <3>1. PICK b \in BOOLEAN : b = (handler[s].crossed \/ kind # "find")
      BY CacheFacts DEF CacheHandler
    <3>2. handler'[s] = [handler[s] EXCEPT !.crossed = b]
      BY <1>6, <2>1, <3>1 DEF Cache!Begin
    <3> QED BY <3>1, <3>2, CacheFacts DEF CacheHandler
  <2>2. CASE ~Cache!Running(s)
    BY <1>6, <2>2, CacheFacts DEF Cache!Begin
  <2> QED BY <2>1, <2>2
<1>7. handler' \in [Request -> CacheHandler]
  <2>1. \A s \in Request : handler'[s] \in CacheHandler
    BY <1>4, <1>5, <1>6
  <2> QED BY <2>1 DEF Cache!Begin
<1>8. EntryOK'
  BY <1>1, <1>2 DEF CacheInv, EntryOK, Cache!Absent
<1>9. HandlerOK(r)'
  <2>1. ~w => \A s \in Request \ {r} : Cache!Running(s)' => handler'[s].kind = "find"
    BY <1>3, <1>6 DEF Cache!Writing, Cache!Running
  <2>2. Cache!DropsFirst(kind) => entry'.version = Cache!Absent
    BY <1>1, NothingCached DEF Cache!Absent
  <2> QED BY <1>1, <1>4, <1>5, <2>1, <2>2 DEF HandlerOK, Cache!DropsFirst, Cache!Absent
<1>10. ASSUME NEW s \in Request, s # r, Cache!Running(s)' PROVE HandlerOK(s)'
  <2>1. HandlerOK(s) /\ Cache!Running(s)
    BY <1>6, <1>10 DEF CacheInv, Cache!Running
  <2>2. /\ handler[s].kind # "create" => row' # Cache!Absent
        /\ Cache!DropsFirst(handler[s].kind) => entry'.version = Cache!Absent \/ entry'.crossed
    BY <1>1, <1>2, <2>1 DEF HandlerOK
  <2>3. handler[s].pc = "resume" =>
        /\ handler[s].got \in 1..row' /\ (handler[s].got # row' => ended'[handler[s].got] = clock')
        /\ handler'[s].crossed \/ handler[s].got >= knows'
        /\ handler[s].kind = "create" => handler[s].got = 1
    BY <1>1, <1>6, <1>10, <2>1 DEF HandlerOK
  <2>4. ~handler'[s].crossed =>
          \A t \in Request \ {s} : Cache!Running(t)' => handler'[t].kind = "find"
    <3> SUFFICES ASSUME ~handler'[s].crossed, NEW t \in Request \ {s}, Cache!Running(t)'
                 PROVE  handler'[t].kind = "find"
      OBVIOUS
    <3>1. ~handler[s].crossed /\ kind = "find"
      BY <1>6, <1>10, <2>1
    <3>2. CASE t = r
      BY <1>4, <1>5, <3>1, <3>2
    <3>3. CASE t # r
      BY <1>6, <2>1, <3>1, <3>3 DEF HandlerOK, Cache!Running
    <3> QED BY <3>2, <3>3
  <2> QED BY <1>6, <1>10, <2>2, <2>3, <2>4 DEF HandlerOK, Cache!DropsFirst, Cache!Absent
<1>11. Cache!CacheTypeOK'
  BY <1>1, <1>2, <1>7, CacheFacts, CacheTyped
<1> QED BY <1>1, <1>8, <1>9, <1>10, <1>11 DEF CacheInv

LEMMA CacheArrivals ==
  ASSUME CacheInv, NEW r \in Request
  PROVE  /\ Cache!FindService(r) => CacheInv'
         /\ Cache!CreateService(r) => CacheInv'
         /\ Cache!PatchService(r) => CacheInv'
         /\ Cache!PutClient(r) => CacheInv'
         /\ Cache!RotateSecret(r) => CacheInv'
         /\ Cache!TransferOwner(r) => CacheInv'
         /\ Cache!DeleteService(r) => CacheInv'
<1>1. Cache!Usable \/ row \in Cache!Version => row # Cache!Absent
  BY CacheFacts DEF CacheInv, EntryOK, Cache!Usable, CacheEntry
<1> QED
  BY <1>1, CacheFacts, BeginStep DEF Cache!FindService, Cache!CreateService, Cache!PatchService,
     Cache!PutClient, Cache!RotateSecret, Cache!TransferOwner, Cache!DeleteService, Cache!Kind

\* The row is replaced or deleted, here or elsewhere.
LEMMA ReplaceStep ==
  ASSUME CacheInv, NEW v \in 0..(MaxVersion + 1), Cache!Replace(v),
         v >= row, UNCHANGED <<entry, clock, knows>>
  PROVE  /\ row' = v /\ ended' \in [1..MaxVersion -> 0..CacheTime] /\ knows' <= row' /\ EntryOK'
         /\ \A g \in 1..row : g \in 1..row' /\ (g = row \/ ended[g] = clock =>
                                                  g = row' \/ ended'[g] = clock')
<1>1. /\ row' = v /\ row \in 0..(MaxVersion + 1) /\ clock \in 0..CacheTime
      /\ ended' = IF row \in 1..MaxVersion /\ v # row THEN [ended EXCEPT ![row] = clock]
                  ELSE ended
      /\ ended \in [1..MaxVersion -> 0..CacheTime] /\ MaxVersion \in Nat \ {0}
  BY CacheFacts DEF Cache!Replace
<1>2. ended' \in [1..MaxVersion -> 0..CacheTime]
  BY <1>1
<1>3. \A g \in 1..MaxVersion : ended'[g] = IF g = row /\ v # row THEN clock ELSE ended[g]
  BY <1>1
<1>4. \A g \in 1..row : g \in 1..row' /\ (g = row \/ ended[g] = clock =>
                                           g = row' \/ ended'[g] = clock')
  <2> SUFFICES ASSUME NEW g \in 1..row
               PROVE  g \in 1..row' /\ (g = row \/ ended[g] = clock =>
                                          g = row' \/ ended'[g] = clock)
    OBVIOUS
  <2>1. CASE g \in 1..MaxVersion
    BY <1>1, <1>3, <2>1
  <2>2. CASE g \notin 1..MaxVersion
    BY <1>1, <2>2
  <2> QED BY <2>1, <2>2
<1>5. knows' <= row'
  BY <1>1, CacheFacts
<1>6. EntryOK'
  <2> SUFFICES ASSUME entry.version # 0
               PROVE  /\ entry.version <= v
                      /\ entry.until <= TTL + (IF entry.version = v THEN clock
                                               ELSE ended'[entry.version])
                      /\ entry.version >= knows \/ entry.crossed
    BY <1>1 DEF EntryOK, Cache!Absent
  <2>1. /\ entry.version <= row
        /\ entry.until <= TTL + (IF entry.version = row THEN clock ELSE ended[entry.version])
        /\ entry.version >= knows \/ entry.crossed
    BY DEF CacheInv, EntryOK, Cache!Absent
  <2>2. entry.version \in 1..MaxVersion
    BY CacheFacts DEF CacheEntry
  <2> QED BY <1>1, <1>3, <2>1, <2>2
<1> QED BY <1>1, <1>2, <1>4, <1>5, <1>6

LEMMA ReplacedUnder ==
  ASSUME CacheInv, NEW s \in Request, Cache!Running(s), handler'[s] = handler[s],
         UNCHANGED <<entry, knows>>,
         row = row' \/ row' # 0,
         \A g \in 1..row : g \in 1..row' /\ (g = row \/ ended[g] = clock =>
                                               g = row' \/ ended'[g] = clock'),
         \A t \in Request \ {s} : Cache!Running(t)' =>
           Cache!Running(t) /\ handler'[t].kind = handler[t].kind
  PROVE  HandlerOK(s)'
<1>1. HandlerOK(s)
  BY DEF CacheInv
<1>2. /\ handler[s].kind # "create" => row' # Cache!Absent
      /\ Cache!DropsFirst(handler[s].kind) => entry'.version = Cache!Absent \/ entry'.crossed
  BY <1>1 DEF HandlerOK, Cache!Absent
<1>3. handler[s].pc = "resume" =>
        /\ handler[s].got \in 1..row' /\ (handler[s].got # row' => ended'[handler[s].got] = clock')
        /\ handler[s].crossed \/ handler[s].got >= knows'
        /\ handler[s].kind = "create" => handler[s].got = 1
  BY <1>1 DEF HandlerOK
<1>4. ~handler[s].crossed =>
        \A t \in Request \ {s} : Cache!Running(t)' => handler'[t].kind = "find"
  BY <1>1 DEF HandlerOK
<1> QED BY <1>2, <1>3, <1>4 DEF HandlerOK, Cache!DropsFirst, Cache!Absent

LEMMA ElsewhereStep ==
  ASSUME CacheInv, Cache!Elsewhere
  PROVE  CacheInv'
<1>1. UNCHANGED <<entry, handler, clock, knows>>
  BY DEF Cache!Elsewhere
<1>2. PICK v \in 0..(MaxVersion + 1) : v > row /\ Cache!Replace(v)
  <2>1. CASE Cache!CreateTool
    <3>1. row = 0 /\ Cache!Replace(1) /\ 1 \in 0..(MaxVersion + 1) /\ 1 > row
      BY <2>1, CacheFacts DEF Cache!CreateTool
    <3> QED BY <3>1
  <2>2. CASE Cache!UpdateTool
    <3>1. row \in 1..MaxVersion \ {MaxVersion} /\ Cache!Replace(row + 1)
      BY <2>2, CacheFacts DEF Cache!UpdateTool
    <3>2. row + 1 \in 0..(MaxVersion + 1) /\ row + 1 > row
      BY <3>1, CacheFacts
    <3> QED BY <3>1, <3>2
  <2>3. CASE Cache!DeleteTool
    <3>1. row \in 1..MaxVersion /\ Cache!Replace(MaxVersion + 1)
      BY <2>3, CacheFacts DEF Cache!DeleteTool
    <3>2. MaxVersion + 1 \in 0..(MaxVersion + 1) /\ MaxVersion + 1 > row
      BY <3>1, CacheFacts
    <3> QED BY <3>1, <3>2
  <2> QED BY <2>1, <2>2, <2>3 DEF Cache!Elsewhere
<1>3. /\ row' = v /\ ended' \in [1..MaxVersion -> 0..CacheTime] /\ knows' <= row' /\ EntryOK'
      /\ \A g \in 1..row : g \in 1..row' /\ (g = row \/ ended[g] = clock =>
                                               g = row' \/ ended'[g] = clock')
  <2>1. v >= row
    BY <1>2, CacheFacts
  <2> QED BY <1>1, <1>2, <2>1, ReplaceStep
<1>4. row' # 0
  BY <1>2, <1>3, CacheFacts
<1>5. Cache!CacheTypeOK'
  BY <1>1, <1>3, CacheFacts, CacheTyped
<1>6. \A s \in Request : Cache!Running(s)' => HandlerOK(s)'
  <2> SUFFICES ASSUME NEW s \in Request, Cache!Running(s)' PROVE HandlerOK(s)'
    OBVIOUS
  <2>1. Cache!Running(s) /\ handler'[s] = handler[s]
    BY <1>1 DEF Cache!Running
  <2>2. \A t \in Request \ {s} : Cache!Running(t)' =>
          Cache!Running(t) /\ handler'[t].kind = handler[t].kind
    BY <1>1 DEF Cache!Running
  <2> QED BY <1>1, <1>3, <1>4, <2>1, <2>2, ReplacedUnder
<1> QED BY <1>3, <1>5, <1>6 DEF CacheInv

\* The statement of a handler: what it leaves in the table and what it answers.
LEMMA StatementStep ==
  ASSUME CacheInv, NEW r \in Request, Cache!Statement(r)
  PROVE  CacheInv'
<1>1. /\ handler[r].pc = "statement" /\ UNCHANGED <<entry, clock, knows>> /\ Cache!Running(r)
      /\ HandlerOK(r) /\ handler[r] \in CacheHandler
  BY CacheFacts DEF Cache!Statement, Cache!Running, CacheInv
<1>2. PICK v \in 0..(MaxVersion + 1) :
        /\ v >= row /\ v # 0 /\ Cache!Replace(v) /\ Cache!Answered(r, v)
        /\ handler[r].kind = "create" => v = 1
  <2>1. CASE Cache!SelectRow(r)
    <3>1. handler[r].kind = "find" /\ row # 0
      BY <1>1, <2>1, CacheFacts DEF Cache!SelectRow, HandlerOK
    <3>2. Cache!Answered(r, row) /\ UNCHANGED <<row, ended>>
      BY <2>1, <3>1, CacheFacts DEF Cache!SelectRow
    <3>3. Cache!Replace(row)
      BY <3>2 DEF Cache!Replace
    <3> QED BY <3>1, <3>2, <3>3, CacheFacts
  <2>2. CASE Cache!InsertRow(r)
    <3>1. row = 0 /\ Cache!Replace(1) /\ Cache!Answered(r, 1) /\ 1 \in 0..(MaxVersion + 1)
      BY <2>2, CacheFacts DEF Cache!InsertRow
    <3> QED BY <3>1
  <2>3. CASE Cache!UpdateRow(r)
    <3>1. handler[r].kind # "create" /\ row # 0 /\ row # MaxVersion
      BY <1>1, <2>3, CacheFacts DEF Cache!UpdateRow, HandlerOK
    <3>2. CASE row \in 1..MaxVersion
      <4>1. Cache!Replace(row + 1) /\ Cache!Answered(r, row + 1)
        BY <2>3, <3>2, CacheFacts DEF Cache!UpdateRow
      <4>2. row + 1 \in 0..(MaxVersion + 1) /\ row + 1 >= row /\ row + 1 # 0
        BY <3>2, CacheFacts
      <4> QED BY <3>1, <4>1, <4>2
    <3>3. CASE row \notin 1..MaxVersion
      <4>1. Cache!Answered(r, MaxVersion + 1) /\ UNCHANGED <<row, ended>> /\ row = MaxVersion + 1
        BY <2>3, <3>1, <3>3, CacheFacts DEF Cache!UpdateRow
      <4>2. Cache!Replace(row)
        BY <4>1 DEF Cache!Replace
      <4> QED BY <3>1, <4>1, <4>2, CacheFacts
    <3> QED BY <3>2, <3>3
  <2>4. CASE Cache!DeleteRow(r)
    <3>1. /\ handler[r].kind # "create" /\ Cache!Replace(MaxVersion + 1)
          /\ Cache!Answered(r, MaxVersion + 1)
      BY <2>4, CacheFacts DEF Cache!DeleteRow
    <3> QED BY <3>1, CacheFacts
  <2> QED BY <2>1, <2>2, <2>3, <2>4 DEF Cache!Statement
<1>3. /\ row' = v /\ ended' \in [1..MaxVersion -> 0..CacheTime] /\ knows' <= row' /\ EntryOK'
      /\ \A g \in 1..row : g \in 1..row' /\ (g = row \/ ended[g] = clock =>
                                               g = row' \/ ended'[g] = clock')
  BY <1>1, <1>2, ReplaceStep
<1>4. PICK h : /\ h = [pc |-> "resume", kind |-> handler[r].kind, got |-> v,
                       crossed |-> handler[r].crossed]
               /\ handler' = [handler EXCEPT ![r] = h]
  <2> PICK h : h = [handler[r] EXCEPT !.pc = "resume", !.got = v]
    OBVIOUS
  <2>1. handler' = [handler EXCEPT ![r] = h]
    BY <1>2 DEF Cache!Answered
  <2>2. h = [pc |-> "resume", kind |-> handler[r].kind, got |-> v, crossed |-> handler[r].crossed]
    BY <1>1 DEF CacheHandler
  <2> QED BY <2>1, <2>2
<1>5. /\ h \in CacheHandler /\ h.pc = "resume" /\ h.kind = handler[r].kind /\ h.got = v
      /\ h.crossed = handler[r].crossed
  BY <1>1, <1>4 DEF CacheHandler
<1>6. /\ handler' \in [Request -> CacheHandler] /\ handler'[r] = h
      /\ \A s \in Request \ {r} : handler'[s] = handler[s]
  BY <1>4, <1>5, CacheFacts
<1>7. \A s \in Request : /\ handler'[s].kind = handler[s].kind
                         /\ Cache!Running(s)' => Cache!Running(s)
  BY <1>1, <1>5, <1>6 DEF Cache!Running
<1>8. HandlerOK(r)'
  <2>1. /\ row' # 0 /\ v \in 1..row' /\ v = row' /\ v >= knows'
    BY <1>2, <1>3, CacheFacts
  <2>2. Cache!DropsFirst(h.kind) => entry'.version = Cache!Absent \/ entry'.crossed
    BY <1>1, <1>5 DEF HandlerOK
  <2>3. ~h.crossed => \A s \in Request \ {r} : Cache!Running(s)' => handler'[s].kind = "find"
    BY <1>1, <1>5, <1>7 DEF HandlerOK
  <2> QED BY <1>2, <1>5, <1>6, <2>1, <2>2, <2>3 DEF HandlerOK, Cache!DropsFirst, Cache!Absent
<1>9. ASSUME NEW s \in Request, s # r, Cache!Running(s)' PROVE HandlerOK(s)'
  <2>1. row' # 0
    BY <1>2, <1>3
  <2> QED BY <1>1, <1>3, <1>6, <1>7, <1>9, <2>1, ReplacedUnder
<1>10. Cache!CacheTypeOK'
  BY <1>1, <1>2, <1>3, <1>6, CacheFacts, CacheTyped
<1> QED BY <1>3, <1>8, <1>9, <1>10 DEF CacheInv

\* What the isolate does with the answer.
LEMMA ResumeStep ==
  ASSUME CacheInv, NEW r \in Request, Cache!Resume(r)
  PROVE  CacheInv'
<1> DEFINE h == handler[r]
<1>1. /\ h.pc = "resume" /\ UNCHANGED <<row, clock, ended>> /\ h \in CacheHandler
      /\ handler' = [handler EXCEPT ![r] = Cache!Resting] /\ HandlerOK(r) /\ Cache!Running(r)
      /\ entry' = IF h.got \in 1..MaxVersion THEN Cache!Cached(h)
                  ELSE IF Cache!DropsOnNull(h.kind) THEN Cache!NoEntry ELSE entry
      /\ knows' = IF h.kind = "find" \/ (h.kind = "dcr" /\ h.got = MaxVersion + 1) THEN knows
                  ELSE Cache!Latest(knows, h.got)
  BY CacheFacts DEF Cache!Resume, Cache!Running, CacheInv
<1>2. /\ h.got \in 1..row /\ (h.got # row => ended[h.got] = clock)
      /\ h.crossed \/ h.got >= knows
      /\ h.kind = "create" => h.got = 1
      /\ Cache!DropsFirst(h.kind) => entry.version = 0 \/ entry.crossed
      /\ ~h.crossed => \A s \in Request \ {r} : Cache!Running(s) => handler[s].kind = "find"
  BY <1>1 DEF HandlerOK, Cache!Absent
<1>3. /\ handler' \in [Request -> CacheHandler] /\ ~Cache!Running(r)'
      /\ \A s \in Request \ {r} : handler'[s] = handler[s]
  <2>1. handler'[r] = Cache!Resting
    BY <1>1, CacheFacts
  <2> QED BY <1>1, <2>1, NothingCached, CacheFacts DEF Cache!Running
<1>4. PICK e : e = Cache!Cached(h)
  OBVIOUS
<1>5. h.got \in 1..MaxVersion =>
        e \in CacheEntry /\ e.version = h.got /\ e.until = clock + TTL /\ e.crossed = h.crossed
  <2> SUFFICES ASSUME h.got \in 1..MaxVersion
               PROVE  /\ e \in CacheEntry /\ e.version = h.got /\ e.until = clock + TTL
                      /\ e.crossed = h.crossed
    OBVIOUS
  <2>1. clock + TTL \in 0..(CacheTime + TTL)
    BY CacheFacts
  <2>2. e = [version |-> h.got, until |-> clock + TTL, crossed |-> h.crossed]
    BY <1>4 DEF Cache!Cached
  <2> QED BY <1>1, <2>1, <2>2 DEF CacheEntry, CacheHandler
<1>6. entry' \in CacheEntry
  BY <1>1, <1>4, <1>5, CacheFacts, NothingCached
<1>7. /\ knows' \in 0..(MaxVersion + 1) /\ knows' <= row'
      /\ knows' = knows \/ (knows' = h.got /\ h.got >= knows)
  BY <1>1, <1>2, CacheFacts DEF Cache!Latest
<1>8. EntryOK'
  <2>1. CASE h.got \in 1..MaxVersion
    <3>1. entry' = e
      BY <1>1, <1>4, <2>1
    <3>2. e.version <= row
      BY <1>2, <1>5, <2>1, CacheFacts
    <3>3. e.until <= TTL + (IF e.version = row THEN clock ELSE ended[e.version])
      BY <1>2, <1>5, <2>1, CacheFacts
    <3>4. e.version >= knows' \/ e.crossed
      BY <1>2, <1>5, <1>7, <2>1, CacheFacts
    <3> QED BY <1>1, <3>1, <3>2, <3>3, <3>4 DEF EntryOK
  <2>2. CASE h.got \notin 1..MaxVersion
    <3>1. h.got = MaxVersion + 1 /\ h.kind # "create"
      BY <1>2, <2>2, CacheFacts
    <3>2. CASE Cache!DropsOnNull(h.kind)
      BY <1>1, <2>2, <3>2, NothingCached DEF EntryOK, Cache!Absent
    <3>3. CASE ~Cache!DropsOnNull(h.kind)
      <4>1. entry' = entry
        BY <1>1, <2>2, <3>3
      <4>2. h.kind \in {"find", "dcr"} \/ Cache!DropsFirst(h.kind)
        BY <1>1, <3>1, <3>3 DEF Cache!DropsOnNull, Cache!DropsFirst, CacheHandler, Cache!Kind
      <4>3. knows' = knows \/ entry.version = 0 \/ entry.crossed
        BY <1>1, <1>2, <3>1, <4>2
      <4> QED BY <1>1, <4>1, <4>3 DEF CacheInv, EntryOK, Cache!Absent
    <3> QED BY <3>2, <3>3
  <2> QED BY <2>1, <2>2
<1>9. ASSUME NEW s \in Request, Cache!Running(s)' PROVE HandlerOK(s)'
  <2>1. s # r /\ handler'[s] = handler[s] /\ Cache!Running(s) /\ HandlerOK(s)
    BY <1>3, <1>9 DEF Cache!Running, CacheInv
  <2>2. handler[s].crossed \/ h.kind = "find"
    BY <1>1, <2>1 DEF HandlerOK
  <2>3. handler[s].crossed \/ UNCHANGED knows
    BY <1>1, <2>2
  <2>4. entry' = entry \/ entry'.version = Cache!Absent
          \/ (Cache!DropsFirst(handler[s].kind) => entry'.crossed)
    <3> SUFFICES ASSUME h.got \in 1..MaxVersion, Cache!DropsFirst(handler[s].kind)
                 PROVE  entry'.crossed
      BY <1>1, NothingCached DEF Cache!Absent
    <3>1. h.crossed
      BY <1>2, <2>1 DEF Cache!DropsFirst
    <3> QED BY <1>1, <1>4, <1>5, <3>1
  <2>5. \A t \in Request \ {s} : Cache!Running(t)' =>
          handler'[t].kind = "find" \/ (Cache!Running(t) /\ handler'[t].kind = handler[t].kind)
    BY <1>3 DEF Cache!Running
  <2> QED BY <1>1, <2>1, <2>3, <2>4, <2>5, HandlerStays
<1>10. Cache!CacheTypeOK'
  BY <1>1, <1>3, <1>6, <1>7, CacheFacts, CacheTyped
<1> QED BY <1>7, <1>8, <1>9, <1>10 DEF CacheInv

LEMMA CacheDepartures ==
  ASSUME CacheInv
  PROVE  /\ \A r \in Request : Cache!Fail(r) => CacheInv'
         /\ Cache!Evict => CacheInv'
         /\ Cache!Elapse => CacheInv'
<1>1. ASSUME NEW r \in Request, Cache!Fail(r) PROVE CacheInv'
  <2>1. /\ handler' = [handler EXCEPT ![r] = Cache!Resting]
        /\ UNCHANGED <<row, entry, clock, ended, knows>>
    BY <1>1 DEF Cache!Fail
  <2>2. /\ handler' \in [Request -> CacheHandler] /\ ~Cache!Running(r)'
        /\ \A s \in Request \ {r} : handler'[s] = handler[s]
    <3>1. handler'[r] = Cache!Resting
      BY <2>1, CacheFacts
    <3> QED BY <2>1, <3>1, NothingCached, CacheFacts DEF Cache!Running
  <2>3. ASSUME NEW s \in Request, Cache!Running(s)' PROVE HandlerOK(s)'
    <3>1. s # r /\ handler'[s] = handler[s] /\ Cache!Running(s)
      BY <2>2, <2>3 DEF Cache!Running
    <3>2. \A t \in Request \ {s} : Cache!Running(t)' =>
            handler'[t].kind = "find" \/ (Cache!Running(t) /\ handler'[t].kind = handler[t].kind)
      BY <2>2 DEF Cache!Running
    <3> QED BY <2>1, <3>1, <3>2, HandlerStays
  <2>4. Cache!CacheTypeOK'
    BY <2>1, <2>2, CacheFacts, CacheTyped
  <2>5. EntryOK'
    BY <2>1 DEF CacheInv, EntryOK
  <2> QED BY <2>1, <2>3, <2>4, <2>5 DEF CacheInv
<1>2. ASSUME Cache!Evict PROVE CacheInv'
  <2>1. /\ entry' = Cache!NoEntry /\ knows' = 0 /\ UNCHANGED <<row, clock, ended>>
        /\ handler' = [r \in Request |-> Cache!Resting]
    BY <1>2 DEF Cache!Evict, Cache!Absent
  <2>2. handler' \in [Request -> CacheHandler] /\ \A r \in Request : ~Cache!Running(r)'
    BY <2>1, NothingCached DEF Cache!Running
  <2>3. Cache!CacheTypeOK' /\ knows' <= row'
    BY <2>1, <2>2, CacheFacts, NothingCached, CacheTyped
  <2>4. EntryOK'
    BY <2>1, NothingCached DEF EntryOK, Cache!Absent
  <2> QED BY <2>2, <2>3, <2>4 DEF CacheInv
<1>3. ASSUME Cache!Elapse PROVE CacheInv'
  <2>1. /\ clock' = clock + 1 /\ clock' \in 0..CacheTime
        /\ UNCHANGED <<row, entry, handler, ended, knows>>
        /\ \A r \in Request : handler[r].pc # "resume"
    BY <1>3, CacheFacts DEF Cache!Elapse
  <2>2. Cache!CacheTypeOK' /\ knows' <= row'
    BY <2>1, CacheFacts, CacheTyped
  <2>3. EntryOK'
    <3>1. entry.version # 0 => entry.until <= TTL +
            (IF entry.version = row THEN clock' ELSE ended[entry.version])
      BY <2>1, CacheFacts DEF CacheInv, EntryOK, CacheEntry, Cache!Absent
    <3> QED BY <2>1, <3>1 DEF CacheInv, EntryOK, Cache!Absent
  <2>4. \A s \in Request : Cache!Running(s)' => HandlerOK(s)'
    BY <2>1 DEF CacheInv, HandlerOK, Cache!Running
  <2> QED BY <2>2, <2>3, <2>4 DEF CacheInv
<1> QED BY <1>1, <1>2, <1>3

LEMMA CacheInvInit ==
  ASSUME Cache!CacheInit
  PROVE  CacheInv
<1>1. /\ TTL \in Nat /\ MaxVersion \in Nat \ {0} /\ CacheTime \in Nat
      /\ row = 0 /\ entry = [version |-> 0, until |-> 0, crossed |-> FALSE]
      /\ handler = [r \in Request |-> Cache!Resting] /\ clock = 0 /\ knows = 0
      /\ ended = [v \in 1..MaxVersion |-> 0]
  BY PartsAssumption DEF Cache!CacheAssumption, Cache!CacheInit, Cache!NoEntry, Cache!Absent,
     Cache!Version
<1>2. Cache!Resting \in CacheHandler /\ Cache!Resting.pc = "rest"
  BY <1>1 DEF Cache!Resting, CacheHandler, Cache!Kind, Cache!Absent
<1>3. \A r \in Request : handler[r] = Cache!Resting
  BY <1>1
<1>4. Cache!CacheTypeOK
  BY <1>1, <1>2 DEF Cache!CacheTypeOK, CacheHandler, Cache!Absent, Cache!Gone, Cache!Version
<1> QED BY <1>1, <1>2, <1>3, <1>4 DEF CacheInv, EntryOK, Cache!Running, Cache!Absent

LEMMA CacheInvNext ==
  ASSUME CacheInv, Cache!CacheNext
  PROVE  CacheInv'
BY CacheArrivals, StatementStep, ResumeStep, CacheDepartures, ElsewhereStep DEF Cache!CacheNext

LEMMA CacheFrame ==
  ASSUME CacheInv, UNCHANGED cacheVars
  PROVE  CacheInv'
BY DEF cacheVars, CacheInv, Cache!CacheTypeOK, EntryOK, HandlerOK, Cache!Running

---------------------------------------------------------------------------
(* Behaviours of MCSessions: ServiceCache.                                 *)

CacheWorld == world = "cache" => CacheInv

LEMMA CacheSteps ==
  [SessionsNext]_sessionsVars
    => world' = world /\ (world = "cache" => Cache!CacheNext \/ UNCHANGED cacheVars)
BY DEF SessionsNext, sessionsVars

LEMMA CacheHolds == SessionsSpec => []CacheWorld
<1>1. SessionsInit => CacheWorld
  BY CacheInvInit DEF SessionsInit, CacheWorld
<1>2. CacheWorld /\ [SessionsNext]_sessionsVars => CacheWorld'
  BY CacheSteps, CacheInvNext, CacheFrame DEF CacheWorld
<1> QED BY <1>1, <1>2, PTL DEF SessionsSpec, sessionsVars

\* A client that was deleted, or a secret that was replaced, is accepted no longer than
\* the cache's time to live, and no longer at all by the isolate that answered the
\* change, unless look-ups and changes overlapped there
\* (packages/shared/src/db/services.ts).
THEOREM NothingOldIsServed == SessionsSpec => []CacheServesNothingOld
<1>1. CacheInv => Cache!StaleAtMostTTL /\ Cache!OwnWritesSeen
  <2> SUFFICES ASSUME CacheInv, entry.version # 0, entry.until > clock
               PROVE  /\ entry.version # row => clock < ended[entry.version] + TTL
                      /\ entry.version >= knows \/ entry.crossed
    BY DEF Cache!StaleAtMostTTL, Cache!OwnWritesSeen, Cache!Usable, Cache!Absent
  <2>1. /\ entry.version <= row /\ (entry.version >= knows \/ entry.crossed)
        /\ entry.until <= TTL + (IF entry.version = row THEN clock ELSE ended[entry.version])
    BY DEF CacheInv, EntryOK, Cache!Absent
  <2>2. entry.version # row => ended[entry.version] \in 0..CacheTime
    BY <2>1, CacheFacts DEF CacheEntry
  <2>3. entry.until \in Nat /\ clock \in Nat /\ TTL \in Nat
    BY CacheFacts DEF CacheEntry
  <2> QED BY <2>1, <2>2, <2>3
<1>2. CacheWorld => CacheServesNothingOld
  BY <1>1 DEF CacheWorld, CacheServesNothingOld, Cache!CacheServesNothingOld
<1> QED BY <1>2, CacheHolds, PTL

---------------------------------------------------------------------------
(* Behaviours of MCSessions: types.                                        *)

LEMMA SessionsAlone == SessionsSpec => Spec
<1>1. SessionsInit => Init
  BY DEF SessionsInit
<1>2. [SessionsNext]_sessionsVars => [Next]_vars
  BY DEF SessionsNext, sessionsVars
<1> QED BY <1>1, <1>2, PTL DEF SessionsSpec, sessionsVars, Spec

\* Every variable of the seven modules keeps to its type: the handlers' steps, the
\* browser's calls and cookies, the pages and lists on the screen, the rows of services
\* and what the cache holds of them, whoever calls whom and in whatever order.
THEOREM SessionsTyped == SessionsSpec => []SessionsTypeOK
<1>1. /\ ClientWorld => (world = "client" => Client!BffTypeOK)
      /\ HistoryWorld => (world = "history" => History!HistoryTypeOK)
      /\ AuditWorld => (world = "audit" => Audit!AuditTypeOK)
  <2>1. ClientInv => Client!BffTypeOK
    BY DEF ClientInv
  <2>2. HistoryInv => History!HistoryTypeOK
    BY DEF HistoryInv, HistoryShape, Asked, History!HistoryTypeOK
  <2>3. AuditInv => Audit!AuditTypeOK
    BY DEF AuditInv, AuditShape, Reply, Audit!AuditTypeOK
  <2> QED BY <2>1, <2>2, <2>3 DEF ClientWorld, HistoryWorld, AuditWorld
<1>2. /\ OwnerWorld => (world = "ownership" => Ownership!OwnerTypeOK)
      /\ CacheWorld => (world = "cache" => Cache!CacheTypeOK)
      /\ RegistrationWorld => (world = "registration" => Registration!RegistrationTypeOK)
  BY DEF OwnerWorld, OwnerInv, CacheWorld, CacheInv, RegistrationWorld, RegistrationInv
<1>3. TypeOK /\ ClientWorld /\ HistoryWorld /\ AuditWorld /\ OwnerWorld /\ CacheWorld
        /\ RegistrationWorld => SessionsTypeOK
  BY <1>1, <1>2 DEF SessionsTypeOK
<1> QED BY <1>3, SessionsAlone, TypeCorrect, ClientHolds, HistoryHolds, AuditHolds, OwnerHolds,
           CacheHolds, RegistrationHolds, PTL
=============================================================================
