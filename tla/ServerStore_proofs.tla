------------------------- MODULE ServerStore_proofs -------------------------
(***************************************************************************)
(* What the server's store keeps, for every number of clients, files, keys *)
(* and faults: names are unique, what a client was told survives every     *)
(* failing call and every restart, and no row is left that would refuse a  *)
(* new file while no call fails.                                           *)
(***************************************************************************)
EXTENDS ServerStore, SequenceTheorems, TLAPS

-----------------------------------------------------------------------------
(* The sequences of calls: what a request of one code may still have to    *)
(* do, call by call. Code 0 is the start of the process.                   *)

Starting == {"create_clients", "create_files", "load_clients", "load_files",
             "make_root", "listen"}
Registering == {"new_client", "append_client", "add_client_db", "answer_1600"}
Keys == {"keep_public_key", "set_public_key", "new_aes", "set_aes_key",
         "encrypt", "answer_aes"}
Uploading == {"write", "withdraw", "withdraw_db", "add_file_db", "append_file",
              "last_packet"}
Judging == {"mark_valid", "mark_valid_db", "os_remove", "list_remove",
            "delete_file", "answer_1604"}
Ops == Starting \cup Registering \cup Keys \cup Uploading \cup Judging
         \cup {"last_seen", "raise", "end"}

Follow(code, op) ==
  CASE op = "create_clients" -> {"create_files"}
    [] op = "create_files" -> {"load_clients"}
    [] op = "load_clients" -> {"load_files"}
    [] op = "load_files" -> {"make_root"}
    [] op = "make_root" -> {"listen"}
    [] op = "new_client" -> {"append_client"}
    [] op = "append_client" -> {"add_client_db"}
    [] op = "add_client_db" -> {"answer_1600"}
    [] op = "keep_public_key" -> {"set_public_key"}
    [] op = "set_public_key" -> {"last_seen"}
    [] op = "new_aes" -> {"set_aes_key"}
    [] op = "set_aes_key" -> {"encrypt"}
    [] op = "encrypt" -> {"answer_aes"}
    [] op = "write" -> {"last_seen"}
    [] op = "withdraw" -> {"withdraw_db"}
    [] op = "withdraw_db" -> {"last_packet", "end"}
    [] op = "add_file_db" -> {"append_file"}
    [] op = "append_file" -> {"last_packet", "end"}
    [] op = "mark_valid" -> {"mark_valid_db"}
    [] op = "mark_valid_db" -> {"answer_1604"}
    [] op = "os_remove" -> {"list_remove"}
    [] op = "list_remove" -> {"delete_file"}
    [] op = "delete_file" -> {"answer_1604"}
    [] op = "last_seen" ->
         {"raise", "end"} \cup
         (IF code \in {826, 827} THEN {"new_aes"} ELSE {}) \cup
         (IF code = 828 THEN {"withdraw", "last_packet", "add_file_db"} ELSE {})
         \cup (IF code \in {900, 901, 902} THEN {"mark_valid", "os_remove"}
               ELSE {})
    [] OTHER -> {}

Final == {"listen", "answer_1600", "answer_aes", "last_packet", "answer_1604",
          "raise", "end"}

Part(code, t) ==
  /\ t \in Seq(Ops)
  /\ \A k \in 1..(Len(t) - 1) : t[k + 1] \in Follow(code, t[k])

Program(code, t) == Part(code, t) /\ (t # <<>> => t[Len(t)] \in Final)

-----------------------------------------------------------------------------
(* The inductive invariant.                                                *)

At(ops) == todo # <<>> /\ Head(todo) \in ops

Has(s, id, n) == \E c \in s.clients : c.id = id /\ c.name = n
Acked(id) == \E a \in acked : a.id = id

Codes == {0, 825, 826, 827, 828, 900, 901, 902}
Stores == [clients : SUBSET ClientRows, files : SUBSET FileRows]
KeyPairs == [public_key : PublicKeys \cup {"none"}, aes_key : AesKeys \cup {"none"}]
AllIds == Ids \cup {Foreign}
RequestRecords ==
  [code : Codes, id : AllIds, name : Names \cup {"none"},
   file : Files \cup {"none"}, first : BOOLEAN, last : BOOLEAN,
   public_key : PublicKeys \cup {"none"}]

Types ==
  /\ status \in {"down", "starting", "up"}
  /\ mem \in Stores /\ db \in Stores
  /\ schema \in {"absent", "clients", "both"}
  /\ folders \subseteq Names \cup {Root}
  /\ disk \subseteq Names \X Files
  /\ faults \in 0..MaxFaults
  /\ issued \subseteq Ids
  /\ acked \subseteq [id : issued, name : Names]
  /\ told \in [AllIds -> KeyPairs]
  /\ asked \subseteq Ids \X Files
  /\ req \in RequestRecords

\* What the process has loaded.
Loaded == {r \in db.files : Known(mem, r.id)}
Process ==
  /\ status = "down" => todo = <<>> /\ req.code = 0 /\ mem = Empty
  /\ status = "starting" =>
       /\ req.code = 0 /\ At(Starting)
       /\ At({"create_clients", "create_files", "load_clients"}) => mem = Empty
       /\ At({"load_files", "make_root", "listen"}) => mem.clients = db.clients
       /\ At({"load_files"}) => mem.files = {}
       /\ At({"make_root", "listen"}) => mem.files = Loaded
  /\ status = "up" /\ todo # <<>> => req.code # 0 /\ ~At(Starting)

\* No two clients of one name or id.
UniqueIn(s) ==
  \A c, d \in s.clients : c.name = d.name \/ c.id = d.id => c = d

\* The table's clients are in the list; all of them have identifiers that
\* were handed out.
Listing ==
  /\ status = "up" => \A c \in db.clients : Has(mem, c.id, c.name)
  /\ \A c \in mem.clients \cup db.clients : c.id \in issued

\* Only clients that were answered 1600 have files, or were told keys.
Owners ==
  /\ \A r \in mem.files \cup db.files : Acked(r.id)
  /\ \A id \in AllIds : told[id] # NoKeys => Acked(id)

\* What clients were told: the table has it, and the list of a process that
\* serves requests.
KeysIn(s, id) ==
  \A c \in s.clients : c.id = id => /\ told[id].public_key \in {"none", c.public_key}
                                    /\ told[id].aes_key \in {"none", c.aes_key}
Durable ==
  \A a \in acked : /\ Has(db, a.id, a.name) /\ KeysIn(db, a.id)
                   /\ status = "up" => Has(mem, a.id, a.name) /\ KeysIn(mem, a.id)

Store == UniqueIn(mem) /\ UniqueIn(db) /\ Listing /\ Owners /\ Durable

\* A registration on its way.
Registration ==
  /\ At(Registering) => req.name \in Names
  /\ At({"new_client", "append_client"}) => ~NameTaken(req.name)
  /\ At({"append_client", "add_client_db", "answer_1600"}) =>
       req.id \in issued /\ ~Acked(req.id)
  /\ At({"append_client"}) => ~Known(mem, req.id) /\ ~Known(db, req.id)
  /\ At({"add_client_db"}) => Has(mem, req.id, req.name) /\ ~Known(db, req.id)
  /\ At({"answer_1600"}) => Has(mem, req.id, req.name) /\ Has(db, req.id, req.name)

\* An exchange of keys on its way.
AtKeys == At(Keys) \/ (At({"last_seen"}) /\ req.code \in {826, 827})
PublicKeyIn(s) ==
  \A c \in s.clients : c.id = req.id => c.public_key = req.public_key
Exchange ==
  /\ At(Keys) => req.code \in {826, 827}
  /\ At({"keep_public_key", "set_public_key"}) => req.code = 826
  /\ AtKeys => /\ Acked(req.id)
               /\ told[req.id].aes_key = "none"
               /\ req.code = 826 => told[req.id].public_key = "none"
                                    /\ req.public_key \in PublicKeys
  /\ AtKeys /\ req.code = 826 =>
       /\ ~At({"keep_public_key"}) => PublicKeyIn(mem)
       /\ ~At({"keep_public_key", "set_public_key"}) => PublicKeyIn(db)
  /\ At({"encrypt", "answer_aes"}) =>
       \A c \in mem.clients, d \in db.clients :
          c.id = req.id /\ d.id = req.id => c.aes_key = d.aes_key

\* A file on its way.
AtFile == \/ At(Uploading \cup Judging)
          \/ At({"last_seen"}) /\ req.code \in {828, 900, 901, 902}
Upload ==
  AtFile => /\ req.code \in {828, 900, 901, 902}
            /\ Acked(req.id) /\ req.file \in Files

Inv ==
  /\ Types /\ Program(req.code, todo) /\ Process
  /\ Store
  /\ Registration /\ Exchange /\ Upload

-----------------------------------------------------------------------------
(* Sequences of calls.                                                     *)

LEMMA ProgramTail ==
  ASSUME NEW code, NEW t, Program(code, t), t # <<>>
  PROVE  /\ Program(code, Tail(t))
         /\ Head(t) \in Ops
         /\ Tail(t) # <<>> => Head(Tail(t)) \in Follow(code, Head(t))
         /\ Tail(t) = <<>> => Head(t) \in Final
<1>1. /\ t \in Seq(Ops) /\ Tail(t) \in Seq(Ops) /\ Len(Tail(t)) = Len(t) - 1
      /\ Head(t) = t[1] /\ Head(t) \in Ops
      /\ \A k \in 1..Len(Tail(t)) : Tail(t)[k] = t[k + 1]
      /\ Len(t) \in Nat /\ Len(t) > 0
  BY HeadTailProperties, EmptySeq DEF Program, Part
<1>2. Tail(t) # <<>> => Head(Tail(t)) = t[2] /\ Len(t) > 1
  BY <1>1, HeadTailProperties, EmptySeq
<1>3. Tail(t) = <<>> => Len(t) = 1
  <2>1. Tail(t) = <<>> => Len(Tail(t)) = 0  BY <1>1, EmptySeq
  <2> QED  BY <1>1, <2>1
<1>4. Part(code, Tail(t))
  <2>1. ASSUME NEW k \in 1..(Len(Tail(t)) - 1)
        PROVE  Tail(t)[k + 1] \in Follow(code, Tail(t)[k])
    <3>1. /\ Tail(t)[k + 1] = t[k + 1 + 1] /\ Tail(t)[k] = t[k + 1]
          /\ k + 1 \in 1..(Len(t) - 1)
      BY <1>1
    <3> QED  BY <3>1 DEF Program, Part
  <2> QED  BY <1>1, <2>1 DEF Part
<1>5. Tail(t) # <<>> => Tail(t)[Len(Tail(t))] \in Final
  <2>1. Tail(t) # <<>> => Len(Tail(t)) \in 1..Len(Tail(t))  BY <1>1, <1>2
  <2>2. Tail(t) # <<>> => Tail(t)[Len(Tail(t))] = t[Len(t)]  BY <1>1, <2>1
  <2> QED  BY <2>2 DEF Program
<1>6. Tail(t) # <<>> => t[2] \in Follow(code, t[1])
  <2>1. Len(t) > 1 => 1 \in 1..(Len(t) - 1)  BY <1>1
  <2> QED  BY <1>2, <2>1 DEF Program, Part
<1> QED  BY <1>1, <1>2, <1>3, <1>4, <1>5, <1>6 DEF Program

LEMMA Joined ==
  ASSUME NEW code, NEW s, NEW t, Part(code, s), Part(code, t),
         s # <<>> /\ t # <<>> => t[1] \in Follow(code, s[Len(s)])
  PROVE  /\ Part(code, s \o t)
         /\ t # <<>> => s \o t # <<>> /\ (s \o t)[Len(s \o t)] = t[Len(t)]
         /\ t = <<>> => s \o t = s
         /\ s = <<>> => s \o t = t
         /\ s # <<>> => s \o t # <<>> /\ (s \o t)[1] = s[1]
<1>1. /\ s \o t \in Seq(Ops) /\ Len(s \o t) = Len(s) + Len(t)
      /\ \A i \in 1..(Len(s) + Len(t)) :
            (s \o t)[i] = IF i <= Len(s) THEN s[i] ELSE t[i - Len(s)]
      /\ Len(s) \in Nat /\ Len(t) \in Nat
  BY ConcatProperties DEF Part
<1>2. (s # <<>> <=> Len(s) > 0) /\ (t # <<>> <=> Len(t) > 0)
  BY EmptySeq DEF Part
<1>3. ASSUME NEW k \in 1..(Len(s \o t) - 1)
      PROVE  (s \o t)[k + 1] \in Follow(code, (s \o t)[k])
  <2>1. CASE k < Len(s)
    <3>1. /\ k \in 1..(Len(s) - 1)
          /\ (s \o t)[k + 1] = s[k + 1] /\ (s \o t)[k] = s[k]
      BY <2>1, <1>1
    <3> QED  BY <3>1 DEF Part
  <2>2. CASE k = Len(s)
    <3>1. /\ (s \o t)[k + 1] = t[1] /\ (s \o t)[k] = s[Len(s)]
          /\ Len(s) > 0 /\ Len(t) > 0
      BY <2>2, <1>1
    <3> QED  BY <3>1, <1>2
  <2>3. CASE k > Len(s)
    <3>1. /\ k - Len(s) \in 1..(Len(t) - 1)
          /\ (s \o t)[k + 1] = t[(k - Len(s)) + 1]
          /\ (s \o t)[k] = t[k - Len(s)]
      BY <2>3, <1>1
    <3> QED  BY <3>1 DEF Part
  <2> QED  BY <2>1, <2>2, <2>3, <1>1
<1>4. t # <<>> => s \o t # <<>> /\ (s \o t)[Len(s \o t)] = t[Len(t)]
  BY <1>1, <1>2, EmptySeq
<1>5. t = <<>> => s \o t = s  BY ConcatEmptySeq DEF Part
<1>6. s = <<>> => s \o t = t  BY ConcatEmptySeq DEF Part
<1>7. s # <<>> => s \o t # <<>> /\ (s \o t)[1] = s[1]
  BY <1>1, <1>2, EmptySeq
<1> QED  BY <1>1, <1>3, <1>4, <1>5, <1>6, <1>7 DEF Part

USE DEF Starting, Registering, Keys, Uploading, Judging

LEMMA StartPrograms ==
  /\ Program(0, <<>> \o load_calls)
  /\ Head(<<>> \o load_calls) = "load_clients" /\ <<>> \o load_calls # <<>>
  /\ Program(0, create_calls \o load_calls)
  /\ Head(create_calls \o load_calls) = "create_clients"
  /\ create_calls \o load_calls # <<>>
<1>1. /\ Part(0, load_calls) /\ load_calls # <<>> /\ load_calls[1] = "load_clients"
      /\ load_calls[Len(load_calls)] = "listen"
  BY DEF load_calls, Part, Ops, Follow
<1>2. /\ Part(0, create_calls) /\ create_calls # <<>>
      /\ create_calls[1] = "create_clients"
      /\ create_calls[Len(create_calls)] = "create_files"
  BY DEF create_calls, Part, Ops, Follow
<1>3. Part(0, <<>>)  BY DEF Part
<1>4. "load_clients" \in Follow(0, "create_files")  BY DEF Follow
<1>5. <<>> \o load_calls = load_calls  BY <1>1, <1>3, Joined
<1>6. /\ Part(0, create_calls \o load_calls)
      /\ (create_calls \o load_calls)[Len(create_calls \o load_calls)] = "listen"
      /\ create_calls \o load_calls # <<>>
      /\ (create_calls \o load_calls)[1] = "create_clients"
  BY <1>1, <1>2, <1>4, Joined
<1> QED  BY <1>1, <1>5, <1>6 DEF Program, Final, Part

LEMMA RegistrationPrograms ==
  /\ Program(825, <<"last_seen", "raise">>)
  /\ Program(825, registration_calls)
BY DEF Program, Part, registration_calls, Ops, Follow, Final

LEMMA KeyPrograms ==
  ASSUME NEW code \in {826, 827}
  PROVE  /\ Program(code, <<"end">>) /\ Program(code, <<"raise">>)
         /\ Program(code, <<"last_seen", "end">>)
         /\ Program(code, <<"last_seen">> \o create_send_aes_calls)
         /\ <<"last_seen">> \o create_send_aes_calls # <<>>
         /\ Head(<<"last_seen">> \o create_send_aes_calls) = "last_seen"
         /\ Program(code, public_key_calls)
         /\ public_key_calls # <<>> /\ Head(public_key_calls) = "keep_public_key"
<1> DEFINE a == create_send_aes_calls
           l == <<"last_seen">>
           p == <<"keep_public_key", "set_public_key", "last_seen">>
<1>1. /\ Part(code, a) /\ a # <<>> /\ a[1] = "new_aes" /\ a[Len(a)] = "answer_aes"
  BY DEF create_send_aes_calls, Part, Ops, Follow
<1>2. Part(code, l) /\ l # <<>> /\ l[1] = "last_seen" /\ l[Len(l)] = "last_seen"
  BY DEF Part, Ops, Follow
<1>3. /\ Part(code, p) /\ p # <<>> /\ p[1] = "keep_public_key"
      /\ p[Len(p)] = "last_seen"
  BY DEF Part, Ops, Follow
<1>4. "new_aes" \in Follow(code, "last_seen")  BY DEF Follow
<1> HIDE DEF a, l, p
<1>5. /\ Part(code, l \o a) /\ l \o a # <<>> /\ (l \o a)[1] = "last_seen"
      /\ (l \o a)[Len(l \o a)] = "answer_aes"
  BY <1>1, <1>2, <1>4, Joined
<1>6. /\ Part(code, p \o a) /\ p \o a # <<>> /\ (p \o a)[1] = "keep_public_key"
      /\ (p \o a)[Len(p \o a)] = "answer_aes"
  BY <1>1, <1>3, <1>4, Joined
<1>7. p \o a = public_key_calls  BY DEF p, a, public_key_calls
<1>8. /\ Program(code, <<"end">>) /\ Program(code, <<"raise">>)
      /\ Program(code, <<"last_seen", "end">>)
  BY DEF Program, Part, Ops, Follow, Final
<1> QED  BY <1>5, <1>6, <1>7, <1>8 DEF Program, Final, Part, a, l

LEMMA HeadOfPart ==
  ASSUME NEW code, NEW t, Part(code, t), t # <<>>
  PROVE  Head(t) = t[1]
BY HeadTailProperties DEF Part

LEMMA PacketPrograms ==
  ASSUME NEW r, r.first \in BOOLEAN, r.last \in BOOLEAN
  PROVE  /\ Program(828, <<"raise">>)
         /\ \A t \in {listed_packet_calls(r), new_packet_calls(r)} :
              Program(828, t) /\ t # <<>> /\ Head(t) = "write"
<1> DEFINE w == <<"write", "last_seen">>
           e == IF r.last THEN <<"last_packet">> ELSE <<"end">>
           f == IF r.first THEN <<"withdraw", "withdraw_db">> ELSE <<>>
           n == <<"add_file_db", "append_file">>
           x == <<"raise">>
<1>1. Part(828, w) /\ w # <<>> /\ w[1] = "write" /\ w[Len(w)] = "last_seen"
  BY DEF Part, Ops, Follow
<1>2. /\ Part(828, e) /\ e # <<>> /\ e[1] \in {"last_packet", "end"}
      /\ e[Len(e)] \in Final
  <2>1. CASE r.last  BY <2>1 DEF Part, Ops, Follow, Final
  <2>2. CASE ~r.last  BY <2>2 DEF Part, Ops, Follow, Final
  <2> QED  BY <2>1, <2>2
<1>3. /\ Part(828, f)
      /\ f # <<>> => f[1] = "withdraw" /\ f[Len(f)] = "withdraw_db"
  <2>1. CASE r.first  BY <2>1 DEF Part, Ops, Follow
  <2>2. CASE ~r.first  BY <2>2 DEF Part, Ops, Follow
  <2> QED  BY <2>1, <2>2
<1>4. Part(828, n) /\ n # <<>> /\ n[1] = "add_file_db" /\ n[Len(n)] = "append_file"
  BY DEF Part, Ops, Follow
<1>5. /\ \A op \in {"withdraw", "last_packet", "end", "add_file_db", "raise"} :
            op \in Follow(828, "last_seen")
      /\ \A op \in {"last_packet", "end"} :
            op \in Follow(828, "withdraw_db") /\ op \in Follow(828, "append_file")
  BY DEF Follow
<1>6. /\ Program(828, x) /\ Part(828, x) /\ x # <<>> /\ x[1] = "raise"
      /\ x[Len(x)] \in Final
  BY DEF Program, Part, Ops, Final, Follow
<1>7. listed_packet_calls(r) = (w \o f) \o e  BY DEF listed_packet_calls
<1>8. new_packet_calls(r) \in {w \o x, w \o (n \o e)}  BY DEF new_packet_calls
<1> HIDE DEF w, e, f, n, x
<1> DEFINE wf == w \o f
           ne == n \o e
<1>9. /\ Part(828, wf) /\ wf # <<>> /\ wf[1] = "write"
      /\ wf[Len(wf)] \in {"last_seen", "withdraw_db"}
  BY <1>1, <1>3, <1>5, Joined
<1>10. /\ Part(828, ne) /\ ne # <<>> /\ ne[1] = "add_file_db"
      /\ ne[Len(ne)] \in Final
  BY <1>2, <1>4, <1>5, Joined
<1> HIDE DEF wf, ne
<1> DEFINE p == wf \o e
           q == w \o ne
           u == w \o x
<1>11. Part(828, p) /\ p # <<>> /\ p[1] = "write" /\ p[Len(p)] \in Final
  BY <1>2, <1>5, <1>9, Joined
<1>12. Part(828, q) /\ q # <<>> /\ q[1] = "write" /\ q[Len(q)] \in Final
  BY <1>1, <1>5, <1>10, Joined
<1>13. Part(828, u) /\ u # <<>> /\ u[1] = "write" /\ u[Len(u)] \in Final
  BY <1>1, <1>5, <1>6, Joined
<1>14. listed_packet_calls(r) = p /\ new_packet_calls(r) \in {u, q}
  BY <1>7, <1>8 DEF wf, ne
<1> HIDE DEF p, q, u
<1>15. \A t \in {p, q, u} : Program(828, t) /\ t # <<>> /\ Head(t) = "write"
  BY <1>11, <1>12, <1>13, HeadOfPart DEF Program
<1> QED  BY <1>6, <1>14, <1>15 DEF x

LEMMA CrcPrograms ==
  ASSUME NEW code \in {900, 901, 902}
  PROVE  /\ Program(code, <<"raise">>) /\ Program(code, <<"last_seen", "raise">>)
         /\ Program(code, crc_calls(code))
         /\ crc_calls(code) # <<>> /\ Head(crc_calls(code)) = "last_seen"
<1>1. Program(code, <<"raise">>) /\ Program(code, <<"last_seen", "raise">>)
  BY DEF Program, Part, Ops, Follow, Final
<1>2. /\ Program(code, <<"last_seen", "mark_valid", "mark_valid_db", "answer_1604">>)
      /\ Program(code, <<"last_seen", "end">>)
      /\ Program(code, delete_calls)
  BY DEF Program, Part, Ops, Follow, Final, delete_calls
<1> QED  BY <1>1, <1>2 DEF crc_calls, delete_calls
-----------------------------------------------------------------------------
(* The rows of list and table.                                             *)

\* The same clients, with keys that may have changed, and the same files.
Renewed(s, t) ==
  /\ t.files = s.files
  /\ \A d \in t.clients : Has(s, d.id, d.name)
  /\ \A c \in s.clients : Has(t, c.id, c.name)

LEMMA PublicKeySet ==
  ASSUME NEW s \in Stores, NEW id, NEW k \in PublicKeys \cup {"none"}
  PROVE  LET t == WithPublicKey(s, id, k) IN
         /\ t \in Stores /\ Renewed(s, t)
         /\ UniqueIn(s) => UniqueIn(t)
         /\ \A d \in t.clients : \E c \in s.clients :
              /\ d.id = c.id /\ d.name = c.name /\ d.aes_key = c.aes_key
              /\ d.public_key = IF c.id = id THEN k ELSE c.public_key
<1> DEFINE f(c) == [c EXCEPT !.public_key = IF c.id = id THEN k ELSE @]
           t == WithPublicKey(s, id, k)
<1>1. t = [s EXCEPT !.clients = {f(c) : c \in s.clients}]  BY DEF WithPublicKey
<1>2. t.files = s.files /\ t.clients = {f(c) : c \in s.clients}
  BY <1>1 DEF Stores
<1>3. ASSUME NEW c \in s.clients
      PROVE  /\ f(c) \in ClientRows
             /\ f(c).id = c.id /\ f(c).name = c.name /\ f(c).aes_key = c.aes_key
             /\ f(c).public_key = IF c.id = id THEN k ELSE c.public_key
  BY DEF Stores, ClientRows
<1> HIDE DEF t, f
<1>4. t \in Stores
  <2>1. t.clients \subseteq ClientRows  BY <1>2, <1>3
  <2> QED  BY <1>1, <2>1, <1>2 DEF Stores
<1>5. Renewed(s, t)  BY <1>2, <1>3 DEF Renewed, Has
<1>6. ASSUME UniqueIn(s) PROVE UniqueIn(t)
  BY <1>2, <1>3, <1>6 DEF UniqueIn
<1>7. \A d \in t.clients : \E c \in s.clients :
        /\ d.id = c.id /\ d.name = c.name /\ d.aes_key = c.aes_key
        /\ d.public_key = IF c.id = id THEN k ELSE c.public_key
  BY <1>2, <1>3
<1> QED  BY <1>4, <1>5, <1>6, <1>7 DEF t

LEMMA AesKeySet ==
  ASSUME NEW s \in Stores, NEW id, NEW k \in AesKeys \cup {"none"}
  PROVE  LET t == WithAesKey(s, id, k) IN
         /\ t \in Stores /\ Renewed(s, t)
         /\ UniqueIn(s) => UniqueIn(t)
         /\ \A d \in t.clients : \E c \in s.clients :
              /\ d.id = c.id /\ d.name = c.name /\ d.public_key = c.public_key
              /\ d.aes_key = IF c.id = id THEN k ELSE c.aes_key
<1> DEFINE f(c) == [c EXCEPT !.aes_key = IF c.id = id THEN k ELSE @]
           t == WithAesKey(s, id, k)
<1>1. t = [s EXCEPT !.clients = {f(c) : c \in s.clients}]  BY DEF WithAesKey
<1>2. t.files = s.files /\ t.clients = {f(c) : c \in s.clients}
  BY <1>1 DEF Stores
<1>3. ASSUME NEW c \in s.clients
      PROVE  /\ f(c) \in ClientRows
             /\ f(c).id = c.id /\ f(c).name = c.name
             /\ f(c).public_key = c.public_key
             /\ f(c).aes_key = IF c.id = id THEN k ELSE c.aes_key
  BY DEF Stores, ClientRows
<1> HIDE DEF t, f
<1>4. t \in Stores
  <2>1. t.clients \subseteq ClientRows  BY <1>2, <1>3
  <2> QED  BY <1>1, <2>1, <1>2 DEF Stores
<1>5. Renewed(s, t)  BY <1>2, <1>3 DEF Renewed, Has
<1>6. ASSUME UniqueIn(s) PROVE UniqueIn(t)
  BY <1>2, <1>3, <1>6 DEF UniqueIn
<1>7. \A d \in t.clients : \E c \in s.clients :
        /\ d.id = c.id /\ d.name = c.name /\ d.public_key = c.public_key
        /\ d.aes_key = IF c.id = id THEN k ELSE c.aes_key
  BY <1>2, <1>3
<1> QED  BY <1>4, <1>5, <1>6, <1>7 DEF t

\* The statements on files: rows of the same clients, all with their types.
SameClients(s, t) == t \in Stores /\ t.clients = s.clients
LEMMA FileStatements ==
  ASSUME NEW s \in Stores, NEW id, NEW f, NEW b \in BOOLEAN
  PROVE  /\ \A t \in {WithValid(s, id, f, b), set_valid_crc(s, id, b),
                      delete_file(s, f), Without(s, id, f)} :
              /\ SameClients(s, t)
              /\ \A r \in t.files : Listed(s, r.id, r.file)
         /\ \A t \in {WithValid(s, id, f, b), set_valid_crc(s, id, b)} :
              \A r \in s.files : Listed(t, r.id, r.file)
<1> DEFINE g(r) == [r EXCEPT !.valid = IF r.id = id /\ r.file = f THEN b ELSE @]
           h(r) == [r EXCEPT !.valid = IF r.id = id THEN b ELSE @]
<1>1. ASSUME NEW r \in s.files
      PROVE  /\ g(r) \in FileRows /\ g(r).id = r.id /\ g(r).file = r.file
             /\ h(r) \in FileRows /\ h(r).id = r.id /\ h(r).file = r.file
  BY DEF Stores, FileRows
<1>2. /\ WithValid(s, id, f, b) = [s EXCEPT !.files = {g(r) : r \in s.files}]
      /\ set_valid_crc(s, id, b) = [s EXCEPT !.files = {h(r) : r \in s.files}]
  BY DEF WithValid, set_valid_crc
<1> HIDE DEF g, h
<1>3. ASSUME NEW t \in {WithValid(s, id, f, b), set_valid_crc(s, id, b)}
      PROVE  /\ SameClients(s, t)
             /\ \A r \in t.files : Listed(s, r.id, r.file)
             /\ \A r \in s.files : Listed(t, r.id, r.file)
  <2>1. /\ t.clients = s.clients
        /\ t.files = {g(r) : r \in s.files} \/ t.files = {h(r) : r \in s.files}
        /\ \E x : t = [s EXCEPT !.files = x]
    BY <1>2 DEF Stores
  <2>2. t.files \subseteq FileRows  BY <1>1, <2>1
  <2> QED  BY <1>1, <2>1, <2>2 DEF SameClients, Stores, Listed
<1>4. ASSUME NEW t \in {delete_file(s, f), Without(s, id, f)}
      PROVE  /\ SameClients(s, t)
             /\ \A r \in t.files : Listed(s, r.id, r.file)
  BY DEF delete_file, Without, SameClients, Stores, Listed
<1> QED  BY <1>3, <1>4

-----------------------------------------------------------------------------
(* What keeps Store.                                                       *)

LEMMA StoreKept ==
  ASSUME Store, status' = status,
         Renewed(mem, mem') \/ mem'.clients = mem.clients,
         Renewed(db, db') \/ db'.clients = db.clients,
         \A r \in mem'.files \cup db'.files : Acked(r.id),
         UniqueIn(mem'), UniqueIn(db'),
         issued' = issued, acked' = acked, told' = told,
         \A a \in acked : /\ KeysIn(db', a.id)
                          /\ status = "up" => KeysIn(mem', a.id)
  PROVE  Store'
<1>1. /\ \A d \in mem'.clients : Has(mem, d.id, d.name)
      /\ \A c \in mem.clients : Has(mem', c.id, c.name)
      /\ \A d \in db'.clients : Has(db, d.id, d.name)
      /\ \A c \in db.clients : Has(db', c.id, c.name)
  BY DEF Renewed, Has
<1>2. UniqueIn(mem)' /\ UniqueIn(db)'  BY DEF UniqueIn
<1>3. Listing'
  <2>1. status = "up" => \A c \in db'.clients : Has(mem', c.id, c.name)
    BY <1>1 DEF Store, Listing, Has
  <2>2. \A c \in mem'.clients \cup db'.clients : c.id \in issued
    BY <1>1 DEF Store, Listing, Has
  <2> QED  BY <2>1, <2>2 DEF Listing, Has
<1>4. Owners'  BY DEF Store, Owners, Acked
<1>5. Durable'
  <2>1. \A a \in acked : Has(db', a.id, a.name)
    BY <1>1 DEF Store, Durable, Has
  <2>2. status = "up" => \A a \in acked : Has(mem', a.id, a.name)
    BY <1>1 DEF Store, Durable, Has
  <2> QED  BY <2>1, <2>2 DEF Durable, Has, KeysIn
<1> QED  BY <1>2, <1>3, <1>4, <1>5 DEF Store

LEMMA StoreOfFiles ==
  ASSUME Store, status' = status,
         mem'.clients = mem.clients, db'.clients = db.clients,
         \A r \in mem'.files \cup db'.files : Acked(r.id),
         issued' = issued, acked' = acked, told' = told
  PROVE  Store'
<1>1. UniqueIn(mem') /\ UniqueIn(db')  BY DEF Store, UniqueIn
<1>2. \A a \in acked : /\ KeysIn(db', a.id)
                       /\ status = "up" => KeysIn(mem', a.id)
  BY DEF Store, Durable, KeysIn
<1> QED  BY <1>1, <1>2, StoreKept

\* The process ends, or is not up yet.
LEMMA StoreDown ==
  ASSUME Store, status' \in {"down", "starting"}, mem' = Empty \/ mem' = mem,
         db' = db, issued' = issued, acked' = acked, told' = told
  PROVE  Store'
<1>1. mem'.clients \subseteq mem.clients /\ mem'.files \subseteq mem.files
  BY DEF Empty
<1>2. UniqueIn(mem)' /\ UniqueIn(db)'  BY <1>1 DEF Store, UniqueIn
<1>3. Listing' /\ Owners'  BY <1>1 DEF Store, Listing, Owners, Acked
<1>4. Durable'  BY DEF Store, Durable, Has, KeysIn
<1> QED  BY <1>2, <1>3, <1>4 DEF Store

-----------------------------------------------------------------------------
(* Steps of a handler.                                                     *)

LEMMA Advance ==
  ASSUME Inv, NEW op, NextCall(op), todo' = Tail(todo), req'.code = req.code
  PROVE  /\ Program(req.code, todo)' /\ op \in Ops
         /\ todo' # <<>> => Head(todo') \in Follow(req.code, op)
         /\ todo' = <<>> => op \in Final
         /\ \A ops : At(ops) <=> op \in ops
         /\ \A ops : At(ops)' <=> todo' # <<>> /\ Head(todo') \in ops
<1>1. todo # <<>> /\ Head(todo) = op /\ Program(req.code, todo)
  BY DEF NextCall, Inv
<1>2. /\ Program(req.code, Tail(todo)) /\ op \in Ops
      /\ Tail(todo) # <<>> => Head(Tail(todo)) \in Follow(req.code, op)
      /\ Tail(todo) = <<>> => op \in Final
  BY <1>1, ProgramTail
<1> QED  BY <1>1, <1>2 DEF At, Program, Part

LEMMA Ended ==
  ASSUME Inv, End
  PROVE  /\ Program(req.code, todo)' /\ req' \in RequestRecords
         /\ Registration' /\ Exchange' /\ Upload'
<1>1. todo' = <<>> /\ req' = NoRequest  BY DEF End
<1>2. Program(req.code, todo)'
  BY <1>1 DEF Program, Part
<1>3. req' \in RequestRecords
  BY <1>1 DEF NoRequest, RequestRecords, AllIds, Codes
<1>4. \A ops : ~At(ops)'  BY <1>1 DEF At
<1> QED  BY <1>2, <1>3, <1>4 DEF Registration, Exchange, AtKeys, Upload, AtFile

\* A call about files, or one that changes neither list nor table.
FileCalls == Uploading \cup Judging \cup {"last_seen", "encrypt", "end"}
LEMMA AfterFileCalls ==
  ASSUME NEW code, NEW op \in FileCalls, NEW next \in Follow(code, op)
  PROVE  /\ next \notin Starting \cup Registering
         /\ next \in Keys =>
              \/ op = "last_seen" /\ code \in {826, 827} /\ next = "new_aes"
              \/ op = "encrypt" /\ next = "answer_aes"
         /\ next = "last_seen" => op = "write"
         /\ next \in Uploading \cup Judging =>
              \/ op \in Uploading \cup Judging
              \/ op = "last_seen" /\ code \in {828, 900, 901, 902}
<1>1. CASE op = "last_seen"
  <2>1. Follow(code, op) = {"raise", "end"} \cup
         (IF code \in {826, 827} THEN {"new_aes"} ELSE {}) \cup
         (IF code = 828 THEN {"withdraw", "last_packet", "add_file_db"} ELSE {})
         \cup (IF code \in {900, 901, 902} THEN {"mark_valid", "os_remove"}
               ELSE {})
    BY <1>1 DEF Follow
  <2> QED  BY <1>1, <2>1
<1>2. CASE op # "last_seen"
  BY <1>2 DEF FileCalls, Follow
<1> QED  BY <1>1, <1>2

LEMMA FileCall ==
  ASSUME Inv, NEW op \in FileCalls, NextCall(op), todo' = Tail(todo),
         req' = req, status' = status,
         mem'.clients = mem.clients, db'.clients = db.clients,
         \A r \in mem'.files \cup db'.files : Acked(r.id),
         issued' = issued, acked' = acked, told' = told
  PROVE  /\ Program(req.code, todo)' /\ Process' /\ Store'
         /\ Registration' /\ Exchange' /\ Upload'
<1>1. /\ Program(req.code, todo)' /\ op \in Ops
      /\ todo' # <<>> => Head(todo') \in Follow(req.code, op)
      /\ \A ops : At(ops) <=> op \in ops
      /\ \A ops : At(ops)' <=> todo' # <<>> /\ Head(todo') \in ops
  BY Advance
<1>2. Store'  BY StoreOfFiles DEF Inv
<1>3. status = "up" /\ req.code # 0
  BY <1>1 DEF Inv, Process, Types, FileCalls, NextCall
<1>4. todo' # <<>> =>
       /\ Head(todo') \notin Starting \cup Registering
       /\ Head(todo') \in Keys =>
            \/ op = "last_seen" /\ req.code \in {826, 827} /\ Head(todo') = "new_aes"
            \/ op = "encrypt" /\ Head(todo') = "answer_aes"
       /\ Head(todo') = "last_seen" => op = "write"
       /\ Head(todo') \in Uploading \cup Judging =>
            \/ op \in Uploading \cup Judging
            \/ op = "last_seen" /\ req.code \in {828, 900, 901, 902}
  BY <1>1, AfterFileCalls
<1>5. ~At(Starting)' /\ ~At(Registering)'  BY <1>1, <1>4
<1>6. Process'  BY <1>3, <1>5 DEF Process
<1>7. Registration'  BY <1>5, <1>1 DEF Registration
<1>8. Exchange'
  <2>1. AtKeys' => AtKeys /\ op \in {"last_seen", "encrypt"}
    <3>1. Upload /\ (op = "write" => AtFile)  BY <1>1 DEF Inv, AtFile
    <3>2. op = "write" => req.code \notin {826, 827}  BY <3>1 DEF Upload
    <3> QED  BY <1>1, <1>4, <3>2 DEF AtKeys
  <2>2. /\ At(Keys)' => op = "encrypt" \/ req.code \in {826, 827}
        /\ ~At({"keep_public_key", "set_public_key"})'
        /\ At({"encrypt", "answer_aes"})' => op = "encrypt"
    BY <1>1, <1>4
  <2>3. Exchange  BY DEF Inv
  <2> QED  BY <1>1, <2>1, <2>2, <2>3 DEF Exchange, PublicKeyIn, Acked
<1>9. Upload'
  <2>1. AtFile' => AtFile
    BY <1>1, <1>4 DEF AtFile
  <2>2. Upload  BY DEF Inv
  <2> QED  BY <2>1, <2>2 DEF Upload, Acked
<1> QED  BY <1>1, <1>2, <1>6, <1>7, <1>8, <1>9

LEMMA FinalCall ==
  ASSUME Inv, NEW op \in Final, NextCall(op)
  PROVE  Tail(todo) = <<>>
<1>1. todo # <<>> /\ Head(todo) = op /\ Program(req.code, todo)
  BY DEF NextCall, Inv
<1>2. Tail(todo) # <<>> => Head(Tail(todo)) \in Follow(req.code, op)
  BY <1>1, ProgramTail
<1>3. Follow(req.code, op) = {}  BY DEF Final, Follow
<1> QED  BY <1>2, <1>3

\* The client a handler works for.
LEMMA Client ==
  ASSUME Inv, status = "up", Acked(req.id)
  PROVE  /\ req.id \in Ids
         /\ ClientOf(req.id) \in mem.clients /\ ClientOf(req.id).id = req.id
         /\ ClientOf(req.id) \in ClientRows
         /\ \A c \in mem.clients : c.id = req.id => c = ClientOf(req.id)
         /\ Known(mem, req.id)
<1>1. PICK a \in acked : a.id = req.id  BY DEF Acked
<1>2. a.id \in Ids /\ Has(mem, a.id, a.name)
  BY DEF Inv, Types, Store, Durable
<1>3. \E c \in mem.clients : c.id = req.id  BY <1>1, <1>2 DEF Has
<1>4. ClientOf(req.id) \in mem.clients /\ ClientOf(req.id).id = req.id
  BY <1>3 DEF ClientOf
<1>5. UniqueIn(mem) /\ mem.clients \subseteq ClientRows
  BY DEF Inv, Types, Store, Stores
<1> QED  BY <1>1, <1>2, <1>3, <1>4, <1>5 DEF UniqueIn, Known

LEMMA AtFileCall ==
  ASSUME Inv, NEW op \in Uploading \cup Judging, NextCall(op)
  PROVE  /\ status = "up" /\ Acked(req.id) /\ req.file \in Files /\ AtFile
         /\ req.id \in Ids
<1>1. At({op}) /\ AtFile  BY DEF At, AtFile, NextCall
<1>2. status = "up"  BY <1>1 DEF Inv, Types, Process, At
<1>3. Acked(req.id) /\ req.file \in Files  BY <1>1 DEF Inv, Upload
<1> QED  BY <1>1, <1>2, <1>3, Client

LEMMA InvInMemory ==
  ASSUME Inv, NEW op \in FileCalls, NEW m, InMemory(op, m), SameClients(mem, m),
         \A r \in m.files : Acked(r.id)
  PROVE  Inv'
<1>1. /\ NextCall(op) /\ todo' = Tail(todo) /\ status' = status /\ req' = req
      /\ mem' = m /\ db' = db
      /\ UNCHANGED <<schema, folders, disk, faults, issued, acked, told, asked>>
  BY DEF InMemory, Return, clientsView
<1>2. m \in Stores /\ m.clients = mem.clients  BY DEF SameClients
<1>3. \A r \in mem'.files \cup db'.files : Acked(r.id)
  BY <1>1 DEF Inv, Store, Owners
<1>4. Types'  BY <1>1, <1>2 DEF Inv, Types
<1> QED  BY <1>1, <1>2, <1>3, <1>4, FileCall DEF Inv

LEMMA InvInDatabase ==
  ASSUME Inv, NEW op \in FileCalls, NEW d, InDatabase(op, d), SameClients(db, d),
         \A r \in d.files : Acked(r.id)
  PROVE  Inv'
<1>1. /\ NextCall(op) /\ todo' = Tail(todo) /\ status' = status /\ req' = req
      /\ mem' = mem /\ db' = d
      /\ UNCHANGED <<schema, folders, disk, faults, issued, acked, told, asked>>
  BY DEF InDatabase, Return, clientsView
<1>2. d \in Stores /\ d.clients = db.clients  BY DEF SameClients
<1>3. \A r \in mem'.files \cup db'.files : Acked(r.id)
  BY <1>1 DEF Inv, Store, Owners
<1>4. Types'  BY <1>1, <1>2 DEF Inv, Types
<1> QED  BY <1>1, <1>2, <1>3, <1>4, FileCall DEF Inv

FileStep ==
  \/ last_seen \/ encrypt \/ write \/ withdraw \/ withdraw_db
  \/ add_file_db \/ append_file
  \/ mark_valid \/ mark_valid_db \/ os_remove \/ list_remove \/ delete_row

LEMMA InvFileStep == Inv /\ FileStep => Inv'
<1> SUFFICES ASSUME Inv, FileStep PROVE Inv'  OBVIOUS
<1>1. /\ mem \in Stores /\ db \in Stores
      /\ \A r \in mem.files \cup db.files : Acked(r.id)
  BY DEF Inv, Types, Store, Owners
<1>2. SameClients(mem, mem) /\ SameClients(db, db)  BY <1>1 DEF SameClients
<1> USE DEF FileCalls
<1>3. CASE last_seen  BY <1>1, <1>2, <1>3, InvInDatabase DEF last_seen
<1>4. CASE encrypt  BY <1>1, <1>2, <1>4, InvInMemory DEF encrypt
<1>5. CASE withdraw \/ mark_valid \/ list_remove
  <2> DEFINE ms == {WithValid(mem, req.id, req.file, TRUE),
                    WithValid(mem, req.id, req.file, FALSE),
                    Without(mem, req.id, req.file)}
  <2>1. \A m \in ms : /\ SameClients(mem, m)
                      /\ \A r \in m.files : Listed(mem, r.id, r.file)
    BY <1>1, FileStatements
  <2>2. \A m \in ms : \A r \in m.files : Acked(r.id)
    BY <1>1, <2>1 DEF Listed
  <2>3. \E m \in ms, op \in {"withdraw", "mark_valid", "list_remove"} : InMemory(op, m)
    BY <1>5 DEF withdraw, mark_valid, list_remove
  <2> QED  BY <2>1, <2>2, <2>3, InvInMemory
<1>6. CASE withdraw_db \/ mark_valid_db \/ delete_row
  <2> DEFINE ds == {set_valid_crc(db, req.id, TRUE),
                    set_valid_crc(db, req.id, FALSE), delete_file(db, req.file)}
  <2>1. \A d \in ds : /\ SameClients(db, d)
                      /\ \A r \in d.files : Listed(db, r.id, r.file)
    BY <1>1, FileStatements
  <2>2. \A d \in ds : \A r \in d.files : Acked(r.id)
    BY <1>1, <2>1 DEF Listed
  <2>3. \E d \in ds, op \in {"withdraw_db", "mark_valid_db", "delete_file"} :
           InDatabase(op, d)
    BY <1>6 DEF withdraw_db, mark_valid_db, delete_row
  <2> QED  BY <2>1, <2>2, <2>3, InvInDatabase
<1>7. CASE append_file
  <2> DEFINE m == [mem EXCEPT !.files = @ \cup {NewFile}]
  <2>1. InMemory("append_file", m)  BY <1>7 DEF append_file
  <2>2. NextCall("append_file")  BY <2>1 DEF InMemory
  <2>3. Acked(req.id) /\ req.file \in Files /\ req.id \in Ids
    BY <2>2, AtFileCall
  <2>4. NewFile \in FileRows /\ NewFile.id = req.id  BY <2>3 DEF NewFile, FileRows
  <2>5. m.files = mem.files \cup {NewFile} /\ m.clients = mem.clients /\ m \in Stores
    BY <1>1, <2>4 DEF Stores
  <2> HIDE DEF m
  <2> QED  BY <1>1, <2>1, <2>3, <2>4, <2>5, InvInMemory DEF SameClients
<1>8. CASE add_file_db
  <2> DEFINE d == [db EXCEPT !.files = @ \cup {NewFile}]
  <2>1. InDatabase("add_file_db", d)  BY <1>8 DEF add_file_db
  <2>2. NextCall("add_file_db")  BY <2>1 DEF InDatabase
  <2>3. Acked(req.id) /\ req.file \in Files /\ req.id \in Ids
    BY <2>2, AtFileCall
  <2>4. NewFile \in FileRows /\ NewFile.id = req.id  BY <2>3 DEF NewFile, FileRows
  <2>5. d.files = db.files \cup {NewFile} /\ d.clients = db.clients /\ d \in Stores
    BY <1>1, <2>4 DEF Stores
  <2> HIDE DEF d
  <2> QED  BY <1>1, <2>1, <2>3, <2>4, <2>5, InvInDatabase DEF SameClients
<1>9. CASE write \/ os_remove
  <2>1. PICK op \in {"write", "os_remove"} : NextCall(op)
    BY <1>9 DEF write, os_remove
  <2>2. /\ todo' = Tail(todo) /\ status' = status /\ req' = req
        /\ mem' = mem /\ db' = db /\ disk' \subseteq disk \cup {Path}
        /\ UNCHANGED <<schema, folders, faults, issued, acked, told, asked>>
    BY <1>9 DEF write, os_remove, Return, clientsView
  <2>3. status = "up" /\ Acked(req.id) /\ req.file \in Files
    BY <2>1, AtFileCall
  <2>4. ClientOf(req.id) \in ClientRows  BY <2>3, Client
  <2>5. Path \in Names \X Files  BY <2>3, <2>4 DEF Path, ClientRows
  <2>6. Types'  BY <2>2, <2>5 DEF Inv, Types
  <2> QED  BY <1>1, <2>1, <2>2, <2>6, FileCall DEF Inv
<1> QED  BY <1>3, <1>4, <1>5, <1>6, <1>7, <1>8, <1>9 DEF FileStep

-----------------------------------------------------------------------------
(* Ends: the last call, an exception, the end of the process.              *)

LEMMA InvEnd ==
  ASSUME Inv, End, status = "up", status' = status, mem' = mem, db' = db,
         issued' = issued, acked' = acked, told' = told,
         UNCHANGED <<schema, folders, disk, faults>>, asked' \subseteq Ids \X Files
  PROVE  Inv'
<1>1. /\ Program(req.code, todo)' /\ req' \in RequestRecords
      /\ Registration' /\ Exchange' /\ Upload'
  BY Ended
<1>2. Store'
  BY StoreOfFiles DEF Inv, Store, Owners
<1>3. Types'  BY <1>1 DEF Inv, Types
<1>4. Process'  BY DEF Process, End, At, NoRequest
<1> QED  BY <1>1, <1>2, <1>3, <1>4 DEF Inv

LEMMA InvLast ==
  ASSUME Inv, end \/ answer_1604 \/ last_packet  PROVE Inv'
<1>1. PICK op \in {"end", "answer_1604", "last_packet"} : Answer(op)
  BY DEF end, answer_1604, last_packet
<1>2. NextCall(op) /\ op \in Final /\ Tail(todo) = <<>>
  BY <1>1, FinalCall DEF Answer, Final
<1>3. /\ End /\ status' = status
      /\ UNCHANGED <<mem, db, schema, folders, disk, faults, issued>>
  BY <1>1, <1>2 DEF Answer, store
<1>4. status = "up"
  BY <1>2 DEF Inv, Types, Process, At, NextCall
<1>5. acked' = acked /\ told' = told  BY DEF end, answer_1604, last_packet
<1>6. asked' \subseteq Ids \X Files
  <2>1. CASE last_packet
    <3>1. NextCall("last_packet")  BY <2>1 DEF last_packet, Answer
    <3>2. req.id \in Ids /\ req.file \in Files  BY <3>1, AtFileCall
    <3> QED  BY <2>1, <3>2 DEF last_packet, Inv, Types
  <2>2. CASE ~last_packet  BY <2>2 DEF end, answer_1604, Inv, Types
  <2> QED  BY <2>1, <2>2
<1> QED  BY <1>3, <1>4, <1>5, <1>6, InvEnd

\* An exception, or the end of the process, with what it left on the disk.
LEMMA InvBreak ==
  ASSUME Inv, End, status # "down",
         \/ status' = "down" /\ mem' = Empty
         \/ status = "up" /\ status' = "up" /\ mem' = mem,
         db' = db, issued' = issued, acked' = acked, told' = told,
         schema' = schema, folders' = folders, disk' \subseteq Names \X Files,
         faults' \in 0..MaxFaults, asked' \subseteq Ids \X Files
  PROVE  Inv'
<1>1. /\ Program(req.code, todo)' /\ req' \in RequestRecords
      /\ Registration' /\ Exchange' /\ Upload'
  BY Ended
<1>2. Store'
  <2>1. Store  BY DEF Inv
  <2>2. CASE status' = "down" /\ mem' = Empty  BY <2>1, <2>2, StoreDown
  <2>3. CASE status = "up" /\ status' = "up" /\ mem' = mem
    BY <2>1, <2>3, StoreOfFiles DEF Store, Owners
  <2> QED  BY <2>2, <2>3
<1>3. Empty \in Stores  BY DEF Empty, Stores
<1>4. Types'  BY <1>1, <1>3 DEF Inv, Types
<1>5. Process'  BY DEF Process, End, At, NoRequest
<1> QED  BY <1>1, <1>2, <1>4, <1>5 DEF Inv

LEMMA Raised ==
  ASSUME Inv, Raise, todo # <<>>
  PROVE  /\ End /\ status # "down"
         /\ \/ status' = "down" /\ mem' = Empty
            \/ status = "up" /\ status' = "up" /\ mem' = mem
BY DEF Inv, Types, Process, Raise

LEMMA InvException == Inv /\ Exception => Inv'
<1> SUFFICES ASSUME Inv, Exception PROVE Inv'  OBVIOUS
<1>1. todo # <<>>  BY DEF Exception, Refused, NextCall
<1>2. /\ Raise /\ db' = db /\ schema' = schema /\ folders' = folders
      /\ disk' = disk /\ faults' = faults
      /\ issued' = issued /\ acked' = acked /\ told' = told /\ asked' = asked
  BY DEF Exception, clientsView
<1>3. Types  BY DEF Inv
<1> QED  BY <1>1, <1>2, <1>3, Raised, InvBreak DEF Types

LEMMA InvCallFails == Inv /\ CallFails => Inv'
<1> SUFFICES ASSUME Inv, CallFails PROVE Inv'  OBVIOUS
<1>1. todo # <<>>  BY DEF CallFails, NextCall
<1>2. /\ Raise /\ db' = db /\ schema' = schema /\ folders' = folders
      /\ faults > 0 /\ faults' = faults - 1
      /\ issued' = issued /\ acked' = acked /\ told' = told /\ asked' = asked
      /\ disk' \in {disk} \cup (IF NextCall("write") THEN {disk \cup {Path}} ELSE {})
  BY DEF CallFails, clientsView
<1>3. Types  BY DEF Inv
<1>4. NextCall("write") => Path \in Names \X Files
  <2> SUFFICES ASSUME NextCall("write") PROVE Path \in Names \X Files  OBVIOUS
  <2>1. status = "up" /\ Acked(req.id) /\ req.file \in Files  BY AtFileCall
  <2>2. ClientOf(req.id) \in ClientRows  BY <2>1, Client
  <2> QED  BY <2>1, <2>2 DEF Path, ClientRows
<1>5. disk' \subseteq Names \X Files  BY <1>2, <1>3, <1>4 DEF Types
<1>6. faults' \in 0..MaxFaults
  BY <1>2, <1>3, StoreAssumption DEF Types
<1> QED  BY <1>1, <1>2, <1>3, <1>5, <1>6, Raised, InvBreak DEF Types

LEMMA InvDie == Inv /\ Die => Inv'
<1> SUFFICES ASSUME Inv, Die PROVE Inv'  OBVIOUS
<1>1. /\ status # "down" /\ faults > 0 /\ faults' = faults - 1
      /\ status' = "down" /\ mem' = Empty /\ End /\ asked' = {}
      /\ db' = db /\ schema' = schema /\ folders' = folders /\ disk' = disk
      /\ issued' = issued /\ acked' = acked /\ told' = told
  BY DEF Die
<1>2. Types  BY DEF Inv
<1>3. faults' \in 0..MaxFaults  BY <1>1, <1>2, StoreAssumption DEF Types
<1> QED  BY <1>1, <1>2, <1>3, InvBreak DEF Types

-----------------------------------------------------------------------------
(* data_base_handle.                                                       *)

LEMMA InvInit == Init => Inv
<1> SUFFICES ASSUME Init PROVE Inv  OBVIOUS
<1>1. Types
  <2>1. Empty \in Stores  BY DEF Empty, Stores
  <2>2. told \in [AllIds -> KeyPairs]
    BY DEF Init, NoKeys, AllIds, KeyPairs
  <2>3. req \in RequestRecords
    BY DEF Init, NoRequest, RequestRecords, AllIds, Codes
  <2> QED  BY <2>1, <2>2, <2>3, StoreAssumption DEF Init, Types
<1>2. Program(req.code, todo)  BY DEF Init, Program, Part
<1>3. Process  BY DEF Init, Process, NoRequest
<1>4. Store
  <2>1. mem.clients = {} /\ db.clients = {} /\ mem.files = {} /\ db.files = {}
    BY DEF Init, Empty
  <2>2. \A id \in AllIds : told[id] = NoKeys  BY DEF Init, AllIds
  <2> QED  BY <2>1, <2>2 DEF Init, Store, UniqueIn, Listing, Owners, Durable
<1>5. \A ops : ~At(ops)  BY DEF Init, At
<1> QED  BY <1>1, <1>2, <1>3, <1>4, <1>5
         DEF Inv, Registration, Exchange, AtKeys, Upload, AtFile

LEMMA InvStart == Inv /\ Start => Inv'
<1> SUFFICES ASSUME Inv, Start PROVE Inv'  OBVIOUS
<1>1. /\ status = "down" /\ status' = "starting" /\ req' = req
      /\ mem' = mem /\ db' = db
      /\ UNCHANGED <<schema, folders, disk, faults, issued, acked, told, asked>>
      /\ todo' \in {<<>> \o load_calls, create_calls \o load_calls}
  BY DEF Start, store, clientsView
<1>2. Program(0, todo') /\ todo' # <<>>
      /\ Head(todo') \in {"load_clients", "create_clients"}
  BY <1>1, StartPrograms
<1>3. /\ \A ops : At(ops)' <=> Head(todo') \in ops
      /\ Head(todo') \notin Registering \cup Keys \cup Uploading \cup Judging
      /\ Head(todo') # "last_seen"
  BY <1>2 DEF At
<1>4. req.code = 0 /\ mem = Empty  BY <1>1 DEF Inv, Process
<1>5. Store'  BY <1>1, StoreDown DEF Inv
<1>6. Types'  BY <1>1 DEF Inv, Types
<1>7. Process'  BY <1>1, <1>2, <1>3, <1>4 DEF Process
<1>8. Program(req.code, todo)'  BY <1>1, <1>2, <1>4
<1>9. Registration' /\ Exchange' /\ Upload'
  BY <1>3 DEF Registration, Exchange, AtKeys, Upload, AtFile
<1> QED  BY <1>5, <1>6, <1>7, <1>8, <1>9 DEF Inv

LEMMA InvStarting ==
  ASSUME Inv, NEW op \in Starting \ {"listen"}, NextCall(op), Return,
         db' = db, disk' = disk, faults' = faults,
         UNCHANGED <<issued, acked, told, asked>>,
         mem' \in Stores, mem'.clients \subseteq db.clients,
         mem'.files \subseteq db.files,
         op \in {"create_clients", "create_files"} => mem' = mem,
         op \in {"load_clients", "load_files", "make_root"} =>
           mem'.clients = db.clients,
         op = "load_clients" => mem'.files = {},
         op \in {"load_files", "make_root"} => mem'.files = Loaded',
         schema' \in {"absent", "clients", "both"},
         folders' \subseteq Names \cup {Root}
  PROVE  Inv'
<1>1. todo' = Tail(todo) /\ status' = status /\ req' = req  BY DEF Return
<1>2. /\ Program(req.code, todo)' /\ op \in Ops
      /\ todo' # <<>> => Head(todo') \in Follow(req.code, op)
      /\ todo' = <<>> => op \in Final
      /\ \A ops : At(ops) <=> op \in ops
      /\ \A ops : At(ops)' <=> todo' # <<>> /\ Head(todo') \in ops
  BY <1>1, Advance
<1>3. status = "starting" /\ req.code = 0
  BY <1>2 DEF Inv, Types, Process, NextCall
<1>4. /\ todo' # <<>>
      /\ op = "create_clients" => Head(todo') = "create_files"
      /\ op = "create_files" => Head(todo') = "load_clients"
      /\ op = "load_clients" => Head(todo') = "load_files"
      /\ op = "load_files" => Head(todo') = "make_root"
      /\ op = "make_root" => Head(todo') = "listen"
  BY <1>2 DEF Final, Follow
<1>5. Process'
  BY <1>1, <1>2, <1>3, <1>4 DEF Inv, Process
<1>6. Registration' /\ Exchange' /\ Upload'
  BY <1>2, <1>4 DEF Registration, Exchange, AtKeys, Upload, AtFile
<1>7. Types'  BY <1>1 DEF Inv, Types
<1>8. Store'
  <2>1. UniqueIn(mem)' /\ UniqueIn(db)'  BY DEF Inv, Store, UniqueIn
  <2>2. Listing' /\ Owners'  BY <1>1, <1>3 DEF Inv, Store, Listing, Owners, Acked
  <2>3. Durable'  BY <1>1, <1>3 DEF Inv, Store, Durable, Has, KeysIn
  <2> QED  BY <2>1, <2>2, <2>3 DEF Store
<1> QED  BY <1>2, <1>5, <1>6, <1>7, <1>8 DEF Inv

LEMMA InvLoading ==
  ASSUME Inv,
         create_clients \/ create_files \/ load_clients \/ load_files \/ make_root
  PROVE  Inv'
<1>1. /\ Types /\ mem \in Stores /\ db \in Stores
  BY DEF Inv, Types
<1>2. ASSUME NEW op \in Starting \ {"listen"}, NextCall(op)
      PROVE  /\ op \in {"create_clients", "create_files", "load_clients"} => mem = Empty
             /\ op \in {"load_files", "make_root"} => mem.clients = db.clients
             /\ op = "make_root" => mem.files = Loaded
  <2>1. At({op}) /\ At(Starting) /\ Head(todo) = op  BY <1>2 DEF At, NextCall
  <2>2. status = "starting"  BY <2>1 DEF Inv, Types, Process, At
  <2> QED  BY <2>1, <2>2 DEF Inv, Process, At
<1>3. CASE create_clients \/ create_files
  <2>1. PICK op \in {"create_clients", "create_files"} :
          \E s \in {"clients", "both"} : Create(op, s)
    BY <1>3 DEF create_clients, create_files
  <2>2. /\ NextCall(op) /\ Return /\ mem' = mem /\ db' = db
        /\ UNCHANGED <<folders, disk, faults, issued, acked, told, asked>>
        /\ schema' \in {"clients", "both"}
    BY <2>1 DEF Create, clientsView
  <2>3. mem'.clients = {} /\ mem'.files = {}  BY <1>2, <2>2 DEF Empty
  <2> QED  BY <1>1, <2>2, <2>3, InvStarting DEF Types
<1>4. CASE load_clients
  <2>1. /\ NextCall("load_clients") /\ Return /\ db' = db
        /\ mem' = [mem EXCEPT !.clients = db.clients]
        /\ folders' = folders \cup {c.name : c \in db.clients}
        /\ UNCHANGED <<schema, disk, faults, issued, acked, told, asked>>
    BY <1>4 DEF load_clients, clientsView
  <2>2. mem = Empty  BY <1>2, <2>1
  <2>3. mem' \in Stores /\ mem'.clients = db.clients /\ mem'.files = {}
    BY <1>1, <2>1, <2>2 DEF Stores, Empty
  <2>4. folders' \subseteq Names \cup {Root}
    BY <1>1, <2>1 DEF Types, Stores, ClientRows
  <2> QED  BY <1>1, <2>1, <2>3, <2>4, InvStarting DEF Types
<1>5. CASE load_files
  <2>1. /\ NextCall("load_files") /\ Return /\ db' = db
        /\ mem' = [mem EXCEPT !.files = {r \in db.files : Known(mem, r.id)}]
        /\ UNCHANGED <<schema, folders, disk, faults, issued, acked, told, asked>>
    BY <1>5 DEF load_files, InMemory, clientsView
  <2>2. mem.clients = db.clients  BY <1>2, <2>1
  <2>3. mem' \in Stores /\ mem'.clients = db.clients /\ mem'.files \subseteq db.files
    BY <1>1, <2>1, <2>2 DEF Stores
  <2>4. mem'.files = Loaded'
    BY <1>1, <2>1, <2>2, <2>3 DEF Loaded, Known, Stores
  <2> QED  BY <1>1, <2>1, <2>3, <2>4, InvStarting DEF Types
<1>6. CASE make_root
  <2>1. /\ NextCall("make_root") /\ Return /\ db' = db /\ mem' = mem
        /\ folders' = folders \cup {Root}
        /\ UNCHANGED <<schema, disk, faults, issued, acked, told, asked>>
    BY <1>6 DEF make_root, clientsView
  <2>2. mem.clients = db.clients /\ mem.files = Loaded /\ Loaded' = Loaded
    BY <1>2, <2>1 DEF Loaded, Known
  <2>3. mem.files \subseteq db.files  BY <2>2 DEF Loaded
  <2> QED  BY <1>1, <2>1, <2>2, <2>3, InvStarting DEF Types
<1> QED  BY <1>3, <1>4, <1>5, <1>6

LEMMA InvListen == Inv /\ listen => Inv'
<1> SUFFICES ASSUME Inv, listen PROVE Inv'  OBVIOUS
<1>1. /\ NextCall("listen") /\ End /\ status' = "up"
      /\ UNCHANGED <<mem, db, schema, folders, disk, faults>>
      /\ UNCHANGED <<issued, acked, told, asked>>
  BY DEF listen, store, clientsView
<1>2. At({"listen"}) /\ At(Starting) /\ At({"load_files", "make_root", "listen"})
  BY <1>1 DEF At, NextCall
<1>3. status = "starting" /\ mem.clients = db.clients
  BY <1>2 DEF Inv, Types, Process, At
<1>4. /\ Program(req.code, todo)' /\ req' \in RequestRecords
      /\ Registration' /\ Exchange' /\ Upload'
  BY <1>1, Ended
<1>5. Types'  BY <1>1, <1>4 DEF Inv, Types
<1>6. Process'  BY <1>1 DEF Process, End
<1>7. Store'
  <2>1. UniqueIn(mem)' /\ UniqueIn(db)'  BY <1>1 DEF Inv, Store, UniqueIn
  <2>2. Listing' /\ Owners'  BY <1>1, <1>3 DEF Inv, Store, Listing, Owners, Acked, Has
  <2>3. Durable'  BY <1>1, <1>3 DEF Inv, Store, Durable, Has, KeysIn
  <2> QED  BY <2>1, <2>2, <2>3 DEF Store
<1> QED  BY <1>4, <1>5, <1>6, <1>7 DEF Inv

-----------------------------------------------------------------------------
(* Registration.                                                           *)

LEMMA Serving ==
  ASSUME Inv, NEW op, NextCall(op), op \notin Starting
  PROVE  status = "up" /\ req.code # 0 /\ At({op}) /\ (\A ops : At(ops) <=> op \in ops)
<1>1. At({op}) /\ ~At(Starting) /\ \A ops : At(ops) <=> op \in ops
  BY DEF At, NextCall
<1> QED  BY <1>1 DEF Inv, Types, Process, At

\* What follows a call of a registration.
LEMMA RegistrationCall ==
  ASSUME Inv, NEW op \in {"new_client", "append_client", "add_client_db"},
         NextCall(op), todo' = Tail(todo), status' = status, req'.code = req.code
  PROVE  /\ Program(req.code, todo)' /\ Process' /\ Exchange' /\ Upload'
         /\ status = "up"
         /\ \A ops : op = "new_client" => (At(ops)' <=> "append_client" \in ops)
         /\ \A ops : op = "append_client" => (At(ops)' <=> "add_client_db" \in ops)
         /\ \A ops : op = "add_client_db" => (At(ops)' <=> "answer_1600" \in ops)
<1>1. /\ Program(req.code, todo)' /\ op \in Ops
      /\ todo' # <<>> => Head(todo') \in Follow(req.code, op)
      /\ todo' = <<>> => op \in Final
      /\ \A ops : At(ops) <=> op \in ops
      /\ \A ops : At(ops)' <=> todo' # <<>> /\ Head(todo') \in ops
  BY Advance
<1>2. status = "up" /\ req.code # 0  BY Serving
<1>3. /\ todo' # <<>>
      /\ op = "new_client" => Head(todo') = "append_client"
      /\ op = "append_client" => Head(todo') = "add_client_db"
      /\ op = "add_client_db" => Head(todo') = "answer_1600"
  BY <1>1 DEF Final, Follow
<1>4. Process'
  <2>1. ~At(Starting)'  BY <1>3 DEF At, Starting
  <2> QED  BY <1>2, <2>1 DEF Process
<1>5. Head(todo') \in {"append_client", "add_client_db", "answer_1600"}
  BY <1>3
<1>6. /\ ~At(Keys)' /\ ~At({"last_seen"})' /\ ~At(Uploading \cup Judging)'
      /\ ~At({"keep_public_key", "set_public_key"})'
      /\ ~At({"encrypt", "answer_aes"})'
  BY <1>5 DEF At
<1>7. Exchange' /\ Upload'
  BY <1>6 DEF Exchange, AtKeys, Upload, AtFile
<1> QED  BY <1>1, <1>2, <1>3, <1>4, <1>7

LEMMA InvNewClient == Inv /\ new_client => Inv'
<1> SUFFICES ASSUME Inv, new_client PROVE Inv'  OBVIOUS
<1>1. PICK id \in Ids \ issued :
        req' = [req EXCEPT !.id = id] /\ issued' = issued \cup {id}
  BY DEF new_client
<1>2. /\ NextCall("new_client") /\ todo' = Tail(todo) /\ status' = status
      /\ folders' = folders \cup {req.name}
      /\ UNCHANGED <<mem, db, schema, disk, faults, acked, told, asked>>
  BY DEF new_client
<1>3. Types  BY DEF Inv
<1>4. /\ req' \in RequestRecords /\ req'.code = req.code /\ req'.id = id
      /\ req'.name = req.name
  BY <1>1, <1>3 DEF Types, RequestRecords, AllIds
<1>5. /\ Program(req.code, todo)' /\ Process' /\ Exchange' /\ Upload'
      /\ status = "up" /\ \A ops : At(ops)' <=> "append_client" \in ops
  BY <1>2, <1>4, RegistrationCall
<1>6. req.name \in Names /\ ~NameTaken(req.name)
  BY <1>2 DEF Inv, Registration, At, NextCall
<1>7. Types'  BY <1>1, <1>2, <1>3, <1>4, <1>6 DEF Types
<1>8. Store
  BY DEF Inv
<1>9. ~Known(mem, id) /\ ~Known(db, id) /\ ~Acked(id)
  BY <1>1, <1>3, <1>8 DEF Store, Listing, Known, Acked, Types
<1>10. Registration'
  BY <1>1, <1>2, <1>4, <1>5, <1>6, <1>9 DEF Registration, NameTaken, Known, Acked
<1>11. Store'
  <2>1. UniqueIn(mem)' /\ UniqueIn(db)'  BY <1>2, <1>8 DEF Store, UniqueIn
  <2>2. Listing' /\ Owners'
    BY <1>1, <1>2, <1>8 DEF Store, Listing, Owners, Acked, Has
  <2>3. Durable'  BY <1>2, <1>8 DEF Store, Durable, Has, KeysIn
  <2> QED  BY <2>1, <2>2, <2>3 DEF Store
<1> QED  BY <1>5, <1>7, <1>10, <1>11 DEF Inv

LEMMA InvAppendClient == Inv /\ append_client => Inv'
<1> SUFFICES ASSUME Inv, append_client PROVE Inv'  OBVIOUS
<1> DEFINE new == NewClient(req.id, req.name)
<1>1. /\ NextCall("append_client") /\ todo' = Tail(todo) /\ status' = status /\ req' = req
      /\ mem' = [mem EXCEPT !.clients = @ \cup {new}] /\ db' = db
      /\ UNCHANGED <<schema, folders, disk, faults, issued, acked, told, asked>>
  BY DEF append_client, InMemory, Return, clientsView
<1>2. Types /\ Store  BY DEF Inv
<1>3. /\ Program(req.code, todo)' /\ Process' /\ Exchange' /\ Upload'
      /\ status = "up" /\ \A ops : At(ops)' <=> "add_client_db" \in ops
  BY <1>1, RegistrationCall
<1>4. /\ req.name \in Names /\ ~NameTaken(req.name) /\ req.id \in issued /\ ~Acked(req.id)
      /\ ~Known(mem, req.id) /\ ~Known(db, req.id)
  BY <1>1 DEF Inv, Registration, At, NextCall
<1>5. /\ new \in ClientRows /\ new.id = req.id /\ new.name = req.name
      /\ new.public_key = "none" /\ new.aes_key = "none"
  BY <1>2, <1>4 DEF NewClient, ClientRows, Types
<1> HIDE DEF new
<1>6. mem' \in Stores /\ mem'.clients = mem.clients \cup {new} /\ mem'.files = mem.files
  BY <1>1, <1>2, <1>5 DEF Types, Stores
<1>7. Types'  BY <1>1, <1>2, <1>6 DEF Types
<1>8. Registration'
  BY <1>1, <1>3, <1>4, <1>5, <1>6 DEF Registration, Has, Known, Acked
<1>9. Store'
  <2>1. UniqueIn(mem)'  BY <1>2, <1>4, <1>5, <1>6 DEF Store, UniqueIn, NameTaken, Known
  <2>2. UniqueIn(db)'  BY <1>1, <1>2 DEF Store, UniqueIn
  <2>3. Listing' /\ Owners'
    BY <1>1, <1>2, <1>4, <1>5, <1>6 DEF Store, Listing, Owners, Acked, Has
  <2>4. \A a \in acked : KeysIn(mem, a.id) => KeysIn(mem, a.id)'
    BY <1>1, <1>4, <1>5, <1>6 DEF KeysIn, Acked
  <2>5. Durable'
    BY <1>1, <1>2, <1>6, <2>4 DEF Store, Durable, Has, KeysIn
  <2> QED  BY <2>1, <2>2, <2>3, <2>5 DEF Store
<1> QED  BY <1>3, <1>7, <1>8, <1>9 DEF Inv

LEMMA InvAddClient == Inv /\ add_client_db => Inv'
<1> SUFFICES ASSUME Inv, add_client_db PROVE Inv'  OBVIOUS
<1> DEFINE new == NewClient(req.id, req.name)
<1>1. /\ NextCall("add_client_db") /\ todo' = Tail(todo) /\ status' = status /\ req' = req
      /\ db' = [db EXCEPT !.clients = @ \cup {new}] /\ mem' = mem
      /\ UNCHANGED <<schema, folders, disk, faults, issued, acked, told, asked>>
  BY DEF add_client_db, InDatabase, Return, clientsView
<1>2. Types /\ Store  BY DEF Inv
<1>3. /\ Program(req.code, todo)' /\ Process' /\ Exchange' /\ Upload'
      /\ status = "up" /\ \A ops : At(ops)' <=> "answer_1600" \in ops
  BY <1>1, RegistrationCall
<1>4. /\ req.name \in Names /\ req.id \in issued /\ ~Acked(req.id)
      /\ Has(mem, req.id, req.name) /\ ~Known(db, req.id)
  BY <1>1 DEF Inv, Registration, At, NextCall
<1>5. /\ new \in ClientRows /\ new.id = req.id /\ new.name = req.name
      /\ new.public_key = "none" /\ new.aes_key = "none"
  BY <1>2, <1>4 DEF NewClient, ClientRows, Types
<1> HIDE DEF new
<1>6. db' \in Stores /\ db'.clients = db.clients \cup {new} /\ db'.files = db.files
  BY <1>1, <1>2, <1>5 DEF Types, Stores
<1>7. Types'  BY <1>1, <1>2, <1>6 DEF Types
<1>8. Registration'
  BY <1>1, <1>3, <1>4, <1>5, <1>6 DEF Registration, Has, Known, Acked
<1>9. Store'
  <2>1. UniqueIn(mem)'  BY <1>1, <1>2 DEF Store, UniqueIn
  <2>2. \A c \in db.clients : c.name # req.name /\ c.id # req.id
    BY <1>2, <1>3, <1>4 DEF Store, Listing, UniqueIn, Has, Known
  <2>3. UniqueIn(db)'  BY <1>2, <1>5, <1>6, <2>2 DEF Store, UniqueIn
  <2>4. Listing' /\ Owners'
    BY <1>1, <1>2, <1>4, <1>5, <1>6 DEF Store, Listing, Owners, Acked, Has
  <2>5. \A a \in acked : KeysIn(db, a.id) => KeysIn(db, a.id)'
    BY <1>1, <1>4, <1>5, <1>6 DEF KeysIn, Acked
  <2>6. Durable'
    BY <1>1, <1>2, <1>6, <2>5 DEF Store, Durable, Has, KeysIn
  <2> QED  BY <2>1, <2>3, <2>4, <2>6 DEF Store
<1> QED  BY <1>3, <1>7, <1>8, <1>9 DEF Inv

LEMMA InvAnswer1600 == Inv /\ answer_1600 => Inv'
<1> SUFFICES ASSUME Inv, answer_1600 PROVE Inv'  OBVIOUS
<1>1. NextCall("answer_1600") /\ Answer("answer_1600")
  BY DEF answer_1600, Answer
<1>2. Tail(todo) = <<>>  BY <1>1, FinalCall DEF Final
<1>3. /\ End /\ status' = status
      /\ acked' = acked \cup {[id |-> req.id, name |-> req.name]}
      /\ UNCHANGED <<mem, db, schema, folders, disk, faults, issued, told, asked>>
  BY <1>1, <1>2 DEF answer_1600, Answer, store
<1>4. status = "up"  BY <1>1, Serving
<1>5. Types /\ Store  BY DEF Inv
<1>6. /\ req.name \in Names /\ req.id \in issued /\ ~Acked(req.id)
      /\ Has(mem, req.id, req.name) /\ Has(db, req.id, req.name)
  BY <1>1 DEF Inv, Registration, At, NextCall
<1>7. told[req.id] = NoKeys
  BY <1>5, <1>6 DEF Store, Owners, Types, AllIds
<1>8. /\ Program(req.code, todo)' /\ req' \in RequestRecords
      /\ Registration' /\ Exchange' /\ Upload'
  BY <1>3, Ended
<1>9. Types'  BY <1>3, <1>5, <1>6, <1>8 DEF Types
<1>10. Process'  BY <1>3, <1>4 DEF Process, End
<1>11. Store'
  <2>1. UniqueIn(mem)' /\ UniqueIn(db)'  BY <1>3, <1>5 DEF Store, UniqueIn
  <2>2. Listing' /\ Owners'
    BY <1>3, <1>5 DEF Store, Listing, Owners, Acked, Has
  <2>3. KeysIn(mem, req.id) /\ KeysIn(db, req.id)  BY <1>7 DEF KeysIn, NoKeys
  <2>4. ASSUME NEW a \in acked'
        PROVE  /\ Has(db, a.id, a.name) /\ KeysIn(db, a.id)
               /\ Has(mem, a.id, a.name) /\ KeysIn(mem, a.id)
    <3>1. CASE a \in acked  BY <3>1, <1>4, <1>5 DEF Store, Durable
    <3>2. CASE a = [id |-> req.id, name |-> req.name]  BY <3>2, <1>6, <2>3
    <3> QED  BY <1>3, <3>1, <3>2
  <2>5. Durable'  BY <1>3, <2>4 DEF Durable, Has, KeysIn
  <2> QED  BY <2>1, <2>2, <2>5 DEF Store
<1> QED  BY <1>8, <1>9, <1>10, <1>11 DEF Inv

-----------------------------------------------------------------------------
(* The exchange of keys.                                                   *)

LEMMA KeyCall ==
  ASSUME Inv, NEW op \in {"keep_public_key", "set_public_key", "new_aes", "set_aes_key"},
         NextCall(op), todo' = Tail(todo), status' = status, req' = req
  PROVE  /\ Program(req.code, todo)' /\ Process' /\ Registration' /\ Upload'
         /\ status = "up" /\ req.code \in {826, 827} /\ Acked(req.id)
         /\ op \in {"keep_public_key", "set_public_key"} => req.code = 826
         /\ told[req.id].aes_key = "none"
         /\ req.code = 826 => told[req.id].public_key = "none"
                              /\ req.public_key \in PublicKeys
         /\ AtKeys
         /\ \A ops : At(ops) <=> op \in ops
         /\ \A ops : op = "keep_public_key" => (At(ops)' <=> "set_public_key" \in ops)
         /\ \A ops : op = "set_public_key" => (At(ops)' <=> "last_seen" \in ops)
         /\ \A ops : op = "new_aes" => (At(ops)' <=> "set_aes_key" \in ops)
         /\ \A ops : op = "set_aes_key" => (At(ops)' <=> "encrypt" \in ops)
<1>1. /\ Program(req.code, todo)' /\ op \in Ops
      /\ todo' # <<>> => Head(todo') \in Follow(req.code, op)
      /\ todo' = <<>> => op \in Final
      /\ \A ops : At(ops) <=> op \in ops
      /\ \A ops : At(ops)' <=> todo' # <<>> /\ Head(todo') \in ops
  BY Advance
<1>2. status = "up" /\ req.code # 0  BY Serving
<1>3. /\ todo' # <<>>
      /\ op = "keep_public_key" => Head(todo') = "set_public_key"
      /\ op = "set_public_key" => Head(todo') = "last_seen"
      /\ op = "new_aes" => Head(todo') = "set_aes_key"
      /\ op = "set_aes_key" => Head(todo') = "encrypt"
  BY <1>1 DEF Final, Follow
<1>4. Head(todo') \in {"set_public_key", "last_seen", "set_aes_key", "encrypt"}
  BY <1>3
<1>5. /\ ~At(Starting)' /\ ~At(Registering)' /\ ~At(Uploading \cup Judging)'
      /\ ~At({"new_client", "append_client"})'
      /\ ~At({"append_client", "add_client_db", "answer_1600"})'
      /\ ~At({"append_client"})' /\ ~At({"add_client_db"})' /\ ~At({"answer_1600"})'
  BY <1>4 DEF At
<1>6. At(Keys) /\ AtKeys /\ Exchange  BY <1>1 DEF AtKeys, Inv
<1>7. /\ req.code \in {826, 827} /\ Acked(req.id) /\ told[req.id].aes_key = "none"
      /\ req.code = 826 => told[req.id].public_key = "none"
                           /\ req.public_key \in PublicKeys
      /\ op \in {"keep_public_key", "set_public_key"} => req.code = 826
  BY <1>1, <1>6 DEF Exchange
<1>8. Process'  BY <1>2, <1>5 DEF Process
<1>9. Registration'  BY <1>5 DEF Registration
<1>10. Upload'  BY <1>5, <1>7 DEF Upload, AtFile
<1> QED  BY <1>1, <1>2, <1>3, <1>6, <1>7, <1>8, <1>9, <1>10

LEMMA InvKeepPublicKey == Inv /\ keep_public_key => Inv'
<1> SUFFICES ASSUME Inv, keep_public_key PROVE Inv'  OBVIOUS
<1> DEFINE m == WithPublicKey(mem, req.id, req.public_key)
<1>1. /\ NextCall("keep_public_key") /\ todo' = Tail(todo) /\ status' = status
      /\ req' = req /\ mem' = m /\ db' = db
      /\ UNCHANGED <<schema, folders, disk, faults, issued, acked, told, asked>>
  BY DEF keep_public_key, InMemory, Return, clientsView
<1>2. /\ Program(req.code, todo)' /\ Process' /\ Registration' /\ Upload'
      /\ status = "up" /\ Acked(req.id) /\ req.code = 826
      /\ told[req.id].aes_key = "none" /\ told[req.id].public_key = "none"
      /\ req.public_key \in PublicKeys
      /\ \A ops : At(ops)' <=> "set_public_key" \in ops
  BY <1>1, KeyCall
<1>3. Types /\ Store /\ mem \in Stores /\ UniqueIn(mem) /\ UniqueIn(db)
  BY DEF Inv, Types, Store
<1>4. /\ m \in Stores /\ Renewed(mem, m) /\ UniqueIn(m)
      /\ \A d \in m.clients : \E c \in mem.clients :
           /\ d.id = c.id /\ d.name = c.name /\ d.aes_key = c.aes_key
           /\ d.public_key = IF c.id = req.id THEN req.public_key ELSE c.public_key
  BY <1>2, <1>3, PublicKeySet
<1> HIDE DEF m
<1>5. Types'  BY <1>1, <1>3, <1>4 DEF Types
<1>6. ASSUME NEW a \in acked
      PROVE  KeysIn(db, a.id) /\ KeysIn(m, a.id)
  <2>1. KeysIn(db, a.id) /\ KeysIn(mem, a.id)
    BY <1>2, <1>3 DEF Store, Durable
  <2>2. CASE a.id = req.id  BY <1>2, <2>1, <2>2 DEF KeysIn
  <2>3. CASE a.id # req.id  BY <1>4, <2>1, <2>3 DEF KeysIn
  <2> QED  BY <2>2, <2>3
<1>7. \A r \in mem'.files \cup db'.files : Acked(r.id)
  BY <1>1, <1>3, <1>4 DEF Store, Owners, Renewed
<1>8. Store'
  BY <1>1, <1>3, <1>4, <1>6, <1>7, StoreKept
<1>9. PublicKeyIn(mem)'  BY <1>1, <1>4 DEF PublicKeyIn
<1>10. Exchange'
  BY <1>1, <1>2, <1>9 DEF Exchange, AtKeys, Acked
<1> QED  BY <1>2, <1>5, <1>8, <1>10 DEF Inv

LEMMA InvSetPublicKey == Inv /\ set_public_key => Inv'
<1> SUFFICES ASSUME Inv, set_public_key PROVE Inv'  OBVIOUS
<1> DEFINE m == WithPublicKey(db, req.id, req.public_key)
<1>1. /\ NextCall("set_public_key") /\ todo' = Tail(todo) /\ status' = status
      /\ req' = req /\ mem' = mem /\ db' = m
      /\ UNCHANGED <<schema, folders, disk, faults, issued, acked, told, asked>>
  BY DEF set_public_key, InDatabase, Return, clientsView
<1>2. /\ Program(req.code, todo)' /\ Process' /\ Registration' /\ Upload'
      /\ status = "up" /\ Acked(req.id) /\ req.code = 826
      /\ told[req.id].aes_key = "none" /\ told[req.id].public_key = "none"
      /\ req.public_key \in PublicKeys /\ AtKeys
      /\ \A ops : At(ops) <=> "set_public_key" \in ops
      /\ \A ops : At(ops)' <=> "last_seen" \in ops
  BY <1>1, KeyCall
<1>3. Types /\ Store /\ db \in Stores /\ UniqueIn(mem) /\ UniqueIn(db)
  BY DEF Inv, Types, Store
<1>4. /\ m \in Stores /\ Renewed(db, m) /\ UniqueIn(m)
      /\ \A d \in m.clients : \E c \in db.clients :
           /\ d.id = c.id /\ d.name = c.name /\ d.aes_key = c.aes_key
           /\ d.public_key = IF c.id = req.id THEN req.public_key ELSE c.public_key
  BY <1>2, <1>3, PublicKeySet
<1> HIDE DEF m
<1>5. Types'  BY <1>1, <1>3, <1>4 DEF Types
<1>6. ASSUME NEW a \in acked
      PROVE  KeysIn(m, a.id) /\ KeysIn(mem, a.id)
  <2>1. KeysIn(db, a.id) /\ KeysIn(mem, a.id)
    BY <1>2, <1>3 DEF Store, Durable
  <2>2. CASE a.id = req.id  BY <1>2, <2>1, <2>2 DEF KeysIn
  <2>3. CASE a.id # req.id  BY <1>4, <2>1, <2>3 DEF KeysIn
  <2> QED  BY <2>2, <2>3
<1>7. \A r \in mem'.files \cup db'.files : Acked(r.id)
  BY <1>1, <1>3, <1>4 DEF Store, Owners, Renewed
<1>8. Store'
  BY <1>1, <1>3, <1>4, <1>6, <1>7, StoreKept
<1>9. PublicKeyIn(db)'  BY <1>1, <1>4 DEF PublicKeyIn
<1>10. PublicKeyIn(mem)'
  <2>1. PublicKeyIn(mem)  BY <1>2 DEF Inv, Exchange
  <2> QED  BY <1>1, <2>1 DEF PublicKeyIn
<1>11. Exchange'
  BY <1>1, <1>2, <1>9, <1>10 DEF Exchange, AtKeys, Acked
<1> QED  BY <1>2, <1>5, <1>8, <1>11 DEF Inv

LEMMA InvNewAes == Inv /\ new_aes => Inv'
<1> SUFFICES ASSUME Inv, new_aes PROVE Inv'  OBVIOUS
<1>1. PICK k \in AesKeys : InMemory("new_aes", WithAesKey(mem, req.id, k))
  BY DEF new_aes
<1> DEFINE m == WithAesKey(mem, req.id, k)
<1>2. /\ NextCall("new_aes") /\ todo' = Tail(todo) /\ status' = status
      /\ req' = req /\ mem' = m /\ db' = db
      /\ UNCHANGED <<schema, folders, disk, faults, issued, acked, told, asked>>
  BY <1>1 DEF InMemory, Return, clientsView
<1>3. /\ Program(req.code, todo)' /\ Process' /\ Registration' /\ Upload'
      /\ status = "up" /\ Acked(req.id) /\ req.code \in {826, 827}
      /\ told[req.id].aes_key = "none"
      /\ req.code = 826 => told[req.id].public_key = "none"
                           /\ req.public_key \in PublicKeys
      /\ AtKeys
      /\ \A ops : At(ops) <=> "new_aes" \in ops
      /\ \A ops : At(ops)' <=> "set_aes_key" \in ops
  BY <1>2, KeyCall
<1>4. Types /\ Store /\ mem \in Stores /\ UniqueIn(mem) /\ UniqueIn(db)
  BY DEF Inv, Types, Store
<1>5. /\ m \in Stores /\ Renewed(mem, m) /\ UniqueIn(m)
      /\ \A d \in m.clients : \E c \in mem.clients :
           /\ d.id = c.id /\ d.name = c.name /\ d.public_key = c.public_key
           /\ d.aes_key = IF c.id = req.id THEN k ELSE c.aes_key
  BY <1>3, <1>4, AesKeySet
<1> HIDE DEF m
<1>6. Types'  BY <1>2, <1>4, <1>5 DEF Types
<1>7. ASSUME NEW a \in acked
      PROVE  KeysIn(db, a.id) /\ KeysIn(m, a.id)
  <2>1. KeysIn(db, a.id) /\ KeysIn(mem, a.id)
    BY <1>3, <1>4 DEF Store, Durable
  <2>2. CASE a.id = req.id  BY <1>3, <1>5, <2>1, <2>2 DEF KeysIn
  <2>3. CASE a.id # req.id  BY <1>5, <2>1, <2>3 DEF KeysIn
  <2> QED  BY <2>2, <2>3
<1>8. \A r \in mem'.files \cup db'.files : Acked(r.id)
  BY <1>2, <1>4, <1>5 DEF Store, Owners, Renewed
<1>9. Store'
  BY <1>2, <1>4, <1>5, <1>7, <1>8, StoreKept
<1>10. req.code = 826 => PublicKeyIn(mem) /\ PublicKeyIn(db)
  BY <1>3 DEF Inv, Exchange
<1>11. req.code = 826 => PublicKeyIn(mem)' /\ PublicKeyIn(db)'
  BY <1>2, <1>5, <1>10 DEF PublicKeyIn
<1>12. Exchange'
  BY <1>2, <1>3, <1>11 DEF Exchange, AtKeys, Acked
<1> QED  BY <1>3, <1>6, <1>9, <1>12 DEF Inv

LEMMA InvSetAesKey == Inv /\ set_aes_key => Inv'
<1> SUFFICES ASSUME Inv, set_aes_key PROVE Inv'  OBVIOUS
<1> DEFINE k == ClientOf(req.id).aes_key
           m == WithAesKey(db, req.id, k)
<1>1. /\ NextCall("set_aes_key") /\ todo' = Tail(todo) /\ status' = status
      /\ req' = req /\ mem' = mem /\ db' = m
      /\ UNCHANGED <<schema, folders, disk, faults, issued, acked, told, asked>>
  BY DEF set_aes_key, InDatabase, Return, clientsView
<1>2. /\ Program(req.code, todo)' /\ Process' /\ Registration' /\ Upload'
      /\ status = "up" /\ Acked(req.id) /\ req.code \in {826, 827}
      /\ told[req.id].aes_key = "none"
      /\ req.code = 826 => told[req.id].public_key = "none"
                           /\ req.public_key \in PublicKeys
      /\ AtKeys
      /\ \A ops : At(ops) <=> "set_aes_key" \in ops
      /\ \A ops : At(ops)' <=> "encrypt" \in ops
  BY <1>1, KeyCall
<1>3. Types /\ Store /\ db \in Stores /\ UniqueIn(mem) /\ UniqueIn(db)
  BY DEF Inv, Types, Store
<1>4. /\ k \in AesKeys \cup {"none"}
      /\ \A c \in mem.clients : c.id = req.id => c.aes_key = k
  BY <1>2, Client DEF ClientRows
<1> HIDE DEF k
<1>5. /\ m \in Stores /\ Renewed(db, m) /\ UniqueIn(m)
      /\ \A d \in m.clients : \E c \in db.clients :
           /\ d.id = c.id /\ d.name = c.name /\ d.public_key = c.public_key
           /\ d.aes_key = IF c.id = req.id THEN k ELSE c.aes_key
  BY <1>4, <1>3, AesKeySet
<1> HIDE DEF m
<1>6. Types'  BY <1>1, <1>3, <1>5 DEF Types
<1>7. ASSUME NEW a \in acked
      PROVE  KeysIn(m, a.id) /\ KeysIn(mem, a.id)
  <2>1. KeysIn(db, a.id) /\ KeysIn(mem, a.id)
    BY <1>2, <1>3 DEF Store, Durable
  <2>2. CASE a.id = req.id  BY <1>2, <1>5, <2>1, <2>2 DEF KeysIn
  <2>3. CASE a.id # req.id  BY <1>5, <2>1, <2>3 DEF KeysIn
  <2> QED  BY <2>2, <2>3
<1>8. \A r \in mem'.files \cup db'.files : Acked(r.id)
  BY <1>1, <1>3, <1>5 DEF Store, Owners, Renewed
<1>9. Store'
  BY <1>1, <1>3, <1>5, <1>7, <1>8, StoreKept
<1>10. req.code = 826 => PublicKeyIn(mem) /\ PublicKeyIn(db)
  BY <1>2 DEF Inv, Exchange
<1>11. req.code = 826 => PublicKeyIn(mem)' /\ PublicKeyIn(db)'
  BY <1>1, <1>5, <1>10 DEF PublicKeyIn
<1>12. \A c \in mem'.clients, d \in db'.clients :
          c.id = req'.id /\ d.id = req'.id => c.aes_key = d.aes_key
  BY <1>1, <1>5, <1>4
<1>13. Exchange'
  BY <1>1, <1>2, <1>11, <1>12 DEF Exchange, AtKeys, Acked
<1> QED  BY <1>2, <1>6, <1>9, <1>13 DEF Inv

LEMMA InvAnswerAes == Inv /\ answer_aes => Inv'
<1> SUFFICES ASSUME Inv, answer_aes PROVE Inv'  OBVIOUS
<1> DEFINE c == ClientOf(req.id)
           old == told[req.id]
           new == [public_key |-> IF req.code = 826 THEN c.public_key
                                  ELSE old.public_key,
                   aes_key |-> c.aes_key]
<1>1. NextCall("answer_aes") /\ Answer("answer_aes")
  BY DEF answer_aes, Answer
<1>2. Tail(todo) = <<>>  BY <1>1, FinalCall DEF Final
<1>3. /\ status = "up" /\ At({"answer_aes"}) /\ At(Keys) /\ At({"encrypt", "answer_aes"})
      /\ ~At({"keep_public_key", "set_public_key"}) /\ ~At({"keep_public_key"}) /\ AtKeys
  BY <1>1, Serving DEF AtKeys
<1>4. /\ Acked(req.id)
      /\ req.code = 826 => PublicKeyIn(mem) /\ PublicKeyIn(db)
      /\ \A x \in mem.clients, d \in db.clients :
            x.id = req.id /\ d.id = req.id => x.aes_key = d.aes_key
  BY <1>3 DEF Inv, Exchange
<1>5. /\ req.id \in Ids /\ c \in mem.clients /\ c.id = req.id /\ c \in ClientRows
      /\ \A x \in mem.clients : x.id = req.id => x = c
  BY <1>3, <1>4, Client
<1>6. Types /\ Store  BY DEF Inv
<1>7. told' = [told EXCEPT ![req.id] = new]  BY DEF answer_aes
<1>8. /\ End /\ status' = status
      /\ UNCHANGED <<mem, db, schema, folders, disk, faults, issued, acked, asked>>
  BY <1>1, <1>2 DEF answer_aes, Answer, store
<1> HIDE DEF c
<1>9. old \in KeyPairs  BY <1>5, <1>6 DEF Types, AllIds
<1>10. new \in KeyPairs  BY <1>5, <1>9 DEF ClientRows, KeyPairs
<1>11. /\ told' \in [AllIds -> KeyPairs] /\ told'[req.id] = new
       /\ \A id \in AllIds : id # req.id => told'[id] = told[id]
  BY <1>5, <1>6, <1>7, <1>10 DEF Types, AllIds
<1>12. ASSUME NEW s \in {mem, db}, NEW d \in s.clients, d.id = req.id
       PROVE  /\ new.public_key \in {"none", d.public_key}
              /\ new.aes_key \in {"none", d.aes_key}
  <2>1. d.aes_key = c.aes_key  BY <1>4, <1>5, <1>12
  <2>2. req.code = 826 => d.public_key = c.public_key
    BY <1>4, <1>5, <1>12 DEF PublicKeyIn
  <2>3. KeysIn(s, req.id)
    BY <1>3, <1>4, <1>6 DEF Acked, Store, Durable
  <2>4. old.public_key \in {"none", d.public_key}  BY <1>12, <2>3 DEF KeysIn
  <2> QED  BY <2>1, <2>2, <2>4
<1> HIDE DEF new, old
<1>13. /\ Program(req.code, todo)' /\ req' \in RequestRecords
       /\ Registration' /\ Exchange' /\ Upload'
  BY <1>8, Ended
<1>14. Types'  BY <1>6, <1>8, <1>11, <1>13 DEF Types
<1>15. Process'  BY <1>3, <1>8 DEF Process, End
<1>16. Store'
  <2>1. UniqueIn(mem)' /\ UniqueIn(db)'  BY <1>6, <1>8 DEF Store, UniqueIn
  <2>2. Listing'  BY <1>6, <1>8 DEF Store, Listing, Has
  <2>3. Owners'  BY <1>4, <1>6, <1>8, <1>11 DEF Store, Owners, Acked
  <2>4. ASSUME NEW a \in acked, NEW s \in {mem, db}
        PROVE  \A d \in s.clients : d.id = a.id =>
                  /\ told'[a.id].public_key \in {"none", d.public_key}
                  /\ told'[a.id].aes_key \in {"none", d.aes_key}
    <3>1. CASE a.id = req.id  BY <1>11, <1>12, <3>1
    <3>2. CASE a.id # req.id
      <4>1. a.id \in AllIds  BY <1>6 DEF Types, AllIds
      <4>2. told'[a.id] = told[a.id]  BY <1>11, <3>2, <4>1
      <4>3. KeysIn(s, a.id)  BY <1>3, <1>6 DEF Store, Durable
      <4> QED  BY <4>2, <4>3 DEF KeysIn
    <3> QED  BY <3>1, <3>2
  <2>5. Durable'
    <3>1. \A a \in acked : KeysIn(db, a.id)' /\ KeysIn(mem, a.id)'
      BY <1>8, <2>4 DEF KeysIn
    <3> QED  BY <1>3, <1>6, <1>8, <3>1 DEF Store, Durable, Has
  <2> QED  BY <2>1, <2>2, <2>3, <2>5 DEF Store
<1> QED  BY <1>13, <1>14, <1>15, <1>16 DEF Inv

-----------------------------------------------------------------------------
(* Requests.                                                               *)

\* What clients were told only shrinks.
Forgets(t) ==
  /\ t \in [AllIds -> KeyPairs]
  /\ \A id \in AllIds : /\ t[id].public_key \in {"none", told[id].public_key}
                        /\ t[id].aes_key \in {"none", told[id].aes_key}

\* The first call of a handler, for a request and what its sender was told.
Begins(r, op, t) ==
  /\ op \notin Starting
  /\ op \in Registering => op = "new_client" /\ r.name \in Names /\ ~NameTaken(r.name)
  /\ op \in Keys => op = "keep_public_key" /\ r.code = 826
  /\ op \in Uploading \cup Judging => r.code \in {828, 900, 901, 902}
  /\ op = "last_seen" => r.code # 826
  /\ op \in Keys \/ (op = "last_seen" /\ r.code = 827) =>
       /\ Acked(r.id) /\ t[r.id].aes_key = "none"
       /\ r.code = 826 => t[r.id].public_key = "none" /\ r.public_key \in PublicKeys
  /\ op \in Uploading \cup Judging
     \/ (op = "last_seen" /\ r.code \in {828, 900, 901, 902}) =>
       Acked(r.id) /\ r.file \in Files

LEMMA StoreTold ==
  ASSUME Types, Store, Forgets(told'), status' = status, mem' = mem, db' = db,
         issued' = issued, acked' = acked
  PROVE  Store'
<1>1. UniqueIn(mem)' /\ UniqueIn(db)'  BY DEF Store, UniqueIn
<1>2. Listing'  BY DEF Store, Listing, Has
<1>3. \A id \in AllIds : told'[id] # NoKeys => told[id] # NoKeys
  BY DEF Forgets, NoKeys, KeyPairs
<1>4. Owners'  BY <1>3 DEF Store, Owners, Acked
<1>5. ASSUME NEW a \in acked, NEW s, KeysIn(s, a.id)
      PROVE  \A c \in s.clients : c.id = a.id =>
                  /\ told'[a.id].public_key \in {"none", c.public_key}
                  /\ told'[a.id].aes_key \in {"none", c.aes_key}
  <2>1. a.id \in AllIds  BY DEF Types, AllIds
  <2> QED  BY <1>5, <2>1 DEF KeysIn, Forgets
<1>6. \A a \in acked : /\ KeysIn(db, a.id) => KeysIn(db, a.id)'
                       /\ KeysIn(mem, a.id) => KeysIn(mem, a.id)'
  BY <1>5 DEF KeysIn
<1>7. Durable'  BY <1>6 DEF Store, Durable, Has
<1> QED  BY <1>1, <1>2, <1>4, <1>7 DEF Store

LEMMA InvHandle ==
  ASSUME Inv, NEW r \in RequestRecords, NEW calls, Handle(r, calls),
         r.code # 0, Program(r.code, calls), calls # <<>>,
         Forgets(told'), asked' \subseteq Ids \X Files,
         Begins(r, Head(calls), told')
  PROVE  Inv'
<1>1. /\ status = "up" /\ status' = status /\ req' = r /\ todo' = calls
      /\ UNCHANGED <<mem, db, schema, folders, disk, faults, issued, acked>>
  BY DEF Handle, store
<1>2. Types /\ Store  BY DEF Inv
<1>3. Types'  BY <1>1, <1>2 DEF Types, Forgets
<1>4. Store'  BY <1>1, <1>2, StoreTold
<1>5. \A ops : At(ops)' <=> Head(calls) \in ops  BY <1>1 DEF At
<1>6. Program(req.code, todo)'  BY <1>1
<1>7. Process'  BY <1>1, <1>5 DEF Process, Begins
<1>8. Registration'
  <2>1. Head(calls) \in Registering =>
          Head(calls) = "new_client" /\ r.name \in Names /\ ~NameTaken(r.name)
    BY DEF Begins
  <2> QED  BY <1>1, <1>5, <2>1 DEF Registration, NameTaken
<1>9. Exchange'
  <2>1. Head(calls) \in Keys => Head(calls) = "keep_public_key" /\ r.code = 826
    BY DEF Begins
  <2>2. AtKeys' => /\ At(Keys)' \/ r.code = 827
                   /\ Acked(r.id) /\ told'[r.id].aes_key = "none"
                   /\ r.code = 826 => told'[r.id].public_key = "none"
                                      /\ r.public_key \in PublicKeys
    BY <1>1, <1>5 DEF AtKeys, Begins
  <2>3. At(Keys)' => At({"keep_public_key"})' /\ r.code = 826
    BY <1>5, <2>1
  <2>4. At({"encrypt", "answer_aes"})' => FALSE  BY <1>5, <2>1
  <2>5. At({"keep_public_key", "set_public_key"})' => r.code = 826
    BY <1>5, <2>1
  <2>6. At({"keep_public_key"})' => At({"keep_public_key", "set_public_key"})'
    BY <1>5
  <2> QED  BY <1>1, <2>2, <2>3, <2>4, <2>5, <2>6 DEF Exchange, Acked
<1>10. Upload'
  <2>1. AtFile' => r.code \in {828, 900, 901, 902} /\ Acked(r.id) /\ r.file \in Files
    BY <1>1, <1>5 DEF AtFile, Begins
  <2> QED  BY <1>1, <2>1 DEF Upload, Acked
<1> QED  BY <1>3, <1>4, <1>6, <1>7, <1>8, <1>9, <1>10 DEF Inv

\* A sender the list knows was answered 1600.
LEMMA Sender ==
  ASSUME Inv, NEW s \in Senders
  PROVE  /\ s.id \in AllIds /\ s.name \in Names
         /\ Known(mem, s.id) => Acked(s.id) /\ s.id \in Ids
         /\ NameTaken(s.name) /\ OwnerOf(s.name).id = s.id => Acked(s.id)
<1>1. Types  BY DEF Inv
<1>2. s \in acked \/ s.id = Foreign  BY DEF Senders
<1>3. s.id \in AllIds /\ s.name \in Names
  BY <1>1 DEF Senders, Types, AllIds
<1>4. \A c \in mem.clients : c.id \in Ids /\ c.id # Foreign
  BY <1>1, StoreAssumption DEF Types, Stores, ClientRows
<1>5. Known(mem, s.id) => Acked(s.id) /\ s.id \in Ids
  BY <1>2, <1>4 DEF Known, Acked
<1>6. NameTaken(s.name) => OwnerOf(s.name) \in mem.clients
  BY DEF NameTaken, OwnerOf
<1> QED  BY <1>2, <1>3, <1>4, <1>5, <1>6 DEF Acked

LEMMA Forgotten ==
  ASSUME Types, NEW id \in AllIds
  PROVE  /\ Forgets(told)
         /\ Forgets([told EXCEPT ![id].aes_key = "none"])
         /\ [told EXCEPT ![id].aes_key = "none"][id].aes_key = "none"
         /\ Forgets([told EXCEPT ![id] = NoKeys])
         /\ [told EXCEPT ![id] = NoKeys][id] = NoKeys
<1>1. \A i \in AllIds : told[i] \in KeyPairs  BY DEF Types
<1>2. NoKeys \in KeyPairs /\ [told[id] EXCEPT !.aes_key = "none"] \in KeyPairs
  BY <1>1 DEF NoKeys, KeyPairs
<1> QED  BY <1>1, <1>2 DEF Types, Forgets, NoKeys, KeyPairs

LEMMA Requested ==
  ASSUME NEW code \in Codes, NEW id \in AllIds
  PROVE  /\ Request(code, id) \in RequestRecords
         /\ Request(code, id).code = code /\ Request(code, id).id = id
BY DEF Request, NoRequest, RequestRecords

LEMMA InvRegistrationRequest ==
  ASSUME Inv, NEW n \in Names, registration_request_825(n)  PROVE Inv'
<1> DEFINE r == [Request(825, Foreign) EXCEPT !.name = n]
           calls == IF NameTaken(n) THEN <<"last_seen", "raise">>
                    ELSE registration_calls
<1>1. Handle(r, calls) /\ told' = told /\ asked' = asked
  BY DEF registration_request_825
<1>2. /\ r \in RequestRecords /\ r.code = 825 /\ r.name = n
  <2>1. 825 \in Codes /\ Foreign \in AllIds  BY DEF Codes, AllIds
  <2> QED  BY <2>1, Requested DEF RequestRecords
<1>3. /\ Program(825, calls) /\ calls # <<>>
      /\ Head(calls) = "last_seen" \/ (Head(calls) = "new_client" /\ ~NameTaken(n))
  BY RegistrationPrograms DEF registration_calls
<1>4. Types  BY DEF Inv
<1>5. Forgets(told') /\ asked' \subseteq Ids \X Files
  BY <1>1, <1>4, Forgotten DEF Types, AllIds
<1> HIDE DEF r, calls
<1>6. Begins(r, Head(calls), told')  BY <1>2, <1>3 DEF Begins
<1> QED  BY <1>1, <1>2, <1>3, <1>5, <1>6, InvHandle

LEMMA InvReconnectionRequest ==
  ASSUME Inv, NEW s \in Senders, reconnection_request_827(s)  PROVE Inv'
<1> DEFINE r == [Request(827, s.id) EXCEPT !.name = s.name]
           aes == <<"last_seen">> \o create_send_aes_calls
           calls == IF ~NameTaken(s.name) THEN <<"end">>
                    ELSE IF OwnerOf(s.name).id # s.id THEN <<"raise">>
                    ELSE IF OwnerOf(s.name).public_key \in BadKeys \cup {"none"}
                    THEN <<"last_seen", "end">>
                    ELSE aes
<1>1. Handle(r, calls)  BY DEF reconnection_request_827
<1>2. told' = [told EXCEPT ![s.id].aes_key = "none"] /\ asked' = asked
  BY DEF reconnection_request_827
<1>3. /\ s.id \in AllIds /\ s.name \in Names
      /\ NameTaken(s.name) /\ OwnerOf(s.name).id = s.id => Acked(s.id)
  BY Sender
<1>4. r \in RequestRecords /\ r.code = 827 /\ r.id = s.id
  <2>1. 827 \in Codes  BY DEF Codes
  <2> QED  BY <1>3, <2>1, Requested DEF RequestRecords
<1>5. Program(827, aes) /\ aes # <<>> /\ Head(aes) = "last_seen"  BY KeyPrograms
<1> HIDE DEF aes
<1>6. /\ Program(827, calls) /\ calls # <<>>
      /\ Head(calls) \in {"end", "raise", "last_seen"}
      /\ Head(calls) = "last_seen" => Acked(s.id)
  BY <1>3, <1>5, KeyPrograms
<1>7. Types  BY DEF Inv
<1>8. Forgets(told') /\ told'[s.id].aes_key = "none" /\ asked' \subseteq Ids \X Files
  BY <1>3, <1>7, <1>2, Forgotten DEF Types
<1> HIDE DEF r, calls
<1>9. Begins(r, Head(calls), told')  BY <1>4, <1>6, <1>8 DEF Begins
<1> QED  BY <1>1, <1>4, <1>6, <1>8, <1>9, InvHandle

LEMMA InvPublicKeyRequest ==
  ASSUME Inv, NEW s \in Senders, NEW k \in PublicKeys, send_public_key_request_826(s, k)
  PROVE  Inv'
<1> DEFINE r == [Request(826, s.id) EXCEPT !.name = s.name, !.public_key = k]
           calls == IF NameTaken(s.name) /\ OwnerOf(s.name).id = s.id
                    THEN public_key_calls ELSE <<"raise">>
<1>1. Handle(r, calls)  BY DEF send_public_key_request_826
<1>2. told' = [told EXCEPT ![s.id] = NoKeys] /\ asked' = asked
  BY DEF send_public_key_request_826
<1>3. /\ s.id \in AllIds /\ s.name \in Names
      /\ NameTaken(s.name) /\ OwnerOf(s.name).id = s.id => Acked(s.id)
  BY Sender
<1>4. r \in RequestRecords /\ r.code = 826 /\ r.id = s.id /\ r.public_key = k
  <2>1. 826 \in Codes  BY DEF Codes
  <2> DEFINE q == Request(826, s.id)
             n == s.name
  <2>2. q \in RequestRecords /\ q.code = 826 /\ q.id = s.id
    BY <1>3, <2>1, Requested
  <2>3. r = [q EXCEPT !.name = n, !.public_key = k]  OBVIOUS
  <2>4. n \in Names  BY <1>3
  <2> HIDE DEF q, r, n
  <2>5. r = [code |-> q.code, id |-> q.id, name |-> n, file |-> q.file,
             first |-> q.first, last |-> q.last, public_key |-> k]
    BY <2>2, <2>3 DEF RequestRecords
  <2> QED  BY <2>2, <2>4, <2>5 DEF RequestRecords
<1>5. /\ Program(826, calls) /\ calls # <<>>
      /\ Head(calls) \in {"raise", "keep_public_key"}
      /\ Head(calls) = "keep_public_key" => Acked(s.id)
  BY <1>3, KeyPrograms
<1>6. Types  BY DEF Inv
<1>7. Forgets(told') /\ told'[s.id] = NoKeys /\ asked' \subseteq Ids \X Files
  BY <1>3, <1>2, <1>6, Forgotten DEF Types
<1> HIDE DEF r, calls
<1>8. Begins(r, Head(calls), told')  BY <1>4, <1>5, <1>7 DEF Begins, NoKeys
<1> QED  BY <1>1, <1>4, <1>5, <1>7, <1>8, InvHandle

LEMMA InvFileRequest ==
  ASSUME Inv, NEW s \in Senders, NEW f \in Files,
         NEW first \in BOOLEAN, NEW last \in BOOLEAN,
         send_file_request_828(s, f, first, last)
  PROVE  Inv'
<1> DEFINE r == [Request(828, s.id) EXCEPT !.name = s.name, !.file = f,
                                           !.first = first, !.last = last]
           calls == IF ~Known(mem, s.id) THEN <<"raise">>
                    ELSE IF Listed(mem, s.id, f) THEN listed_packet_calls(req')
                    ELSE new_packet_calls(req')
<1>1. Handle(r, calls) /\ asked' = asked \ {<<s.id, f>>} /\ told' = told
  BY DEF send_file_request_828
<1>2. /\ s.id \in AllIds /\ s.name \in Names
      /\ Known(mem, s.id) => Acked(s.id)
  BY Sender
<1>3. /\ r \in RequestRecords /\ r.code = 828 /\ r.id = s.id /\ r.file = f
      /\ r.first \in BOOLEAN /\ r.last \in BOOLEAN
  <2>1. 828 \in Codes  BY DEF Codes
  <2> DEFINE q == Request(828, s.id)
             n == s.name
  <2>2. q \in RequestRecords /\ q.code = 828 /\ q.id = s.id
    BY <1>2, <2>1, Requested
  <2>3. r = [q EXCEPT !.name = n, !.file = f, !.first = first, !.last = last]  OBVIOUS
  <2>4. n \in Names  BY <1>2
  <2> HIDE DEF q, r, n
  <2>5. r = [code |-> q.code, id |-> q.id, name |-> n, file |-> f,
             first |-> first, last |-> last, public_key |-> q.public_key]
    BY <2>2, <2>3 DEF RequestRecords
  <2> QED  BY <2>2, <2>4, <2>5 DEF RequestRecords
<1>4. req' = r  BY <1>1 DEF Handle
<1> HIDE DEF r
<1>5. /\ Program(828, calls) /\ calls # <<>>
      /\ Head(calls) \in {"raise", "write"}
      /\ Head(calls) = "write" => Acked(s.id)
  BY <1>2, <1>3, <1>4, PacketPrograms
<1>6. Types  BY DEF Inv
<1>7. Forgets(told') /\ asked' \subseteq Ids \X Files
  BY <1>1, <1>2, <1>6, Forgotten DEF Types
<1> HIDE DEF calls
<1>8. Begins(r, Head(calls), told')  BY <1>3, <1>5, <1>7 DEF Begins
<1> QED  BY <1>1, <1>3, <1>5, <1>7, <1>8, InvHandle

LEMMA InvCrcRequest ==
  ASSUME Inv, NEW s \in Senders, NEW f \in Files, NEW code \in {900, 901, 902},
         crc_response_900_901_902(s, f, code)
  PROVE  Inv'
<1> DEFINE r == [Request(code, s.id) EXCEPT !.name = s.name, !.file = f]
           calls == IF ~Known(mem, s.id) THEN <<"raise">>
                    ELSE IF ~Listed(mem, s.id, f) \/ ValidIn(mem, s.id, f)
                    THEN <<"last_seen", "raise">>
                    ELSE crc_calls(code)
<1>1. Handle(r, calls)  BY DEF crc_response_900_901_902
<1>2. asked' = asked /\ told' = told  BY DEF crc_response_900_901_902
<1>3. /\ s.id \in AllIds /\ s.name \in Names
      /\ Known(mem, s.id) => Acked(s.id)
  BY Sender
<1>4. r \in RequestRecords /\ r.code = code /\ r.id = s.id /\ r.file = f
  <2>1. code \in Codes  BY DEF Codes
  <2> DEFINE q == Request(code, s.id)
             n == s.name
  <2>2. q \in RequestRecords  BY <1>3, <2>1, Requested
  <2>3. q.code = code /\ q.id = s.id  BY <1>3, <2>1, Requested
  <2>4. r = [q EXCEPT !.name = n, !.file = f]  OBVIOUS
  <2>5. n \in Names  BY <1>3
  <2> HIDE DEF q, r, n
  <2> DEFINE named == [q EXCEPT !.name = n]
  <2>6. named \in RequestRecords /\ named.code = q.code /\ named.id = q.id
    BY <2>2, <2>5 DEF RequestRecords
  <2>7. r = [named EXCEPT !.file = f]  BY <2>2, <2>4 DEF RequestRecords
  <2> HIDE DEF named
  <2> QED  BY <2>6, <2>3, <2>7 DEF RequestRecords
<1>5. /\ Program(code, calls) /\ calls # <<>>
      /\ Head(calls) \in {"raise", "last_seen"}
      /\ Head(calls) = "last_seen" => Acked(s.id)
  BY <1>3, CrcPrograms
<1>6. Types  BY DEF Inv
<1>7. Forgets(told') /\ asked' \subseteq Ids \X Files
  <2>1. Forgets(told)  BY <1>6 DEF Types, Forgets
  <2>2. asked \subseteq Ids \X Files  BY <1>6 DEF Types
  <2> QED  BY <1>2, <2>1, <2>2
<1> HIDE DEF r, calls
<1>8. Begins(r, Head(calls), told')  BY <1>4, <1>5, <1>7 DEF Begins
<1> QED  BY <1>1, <1>4, <1>5, <1>7, <1>8, InvHandle

LEMMA InvRequests == Inv /\ Requests => Inv'
BY InvRegistrationRequest, InvReconnectionRequest, InvPublicKeyRequest,
   InvFileRequest, InvCrcRequest DEF Requests

-----------------------------------------------------------------------------
(* The theorems.                                                           *)

LEMMA InvStutter == Inv /\ UNCHANGED vars => Inv'
BY DEF vars, store, clientsView, Inv, Types, Program, Part, Process, At, Loaded, Known,
       Store, UniqueIn, Listing, Owners, Durable, Has, KeysIn, Acked,
       Registration, NameTaken, Exchange, AtKeys, PublicKeyIn, Upload, AtFile

LEMMA InvNext == Inv /\ [Next]_vars => Inv'
<1> SUFFICES ASSUME Inv, [Next]_vars PROVE Inv'  OBVIOUS
<1>1. CASE Requests  BY <1>1, InvRequests
<1>2. CASE Calls
  <2>1. CASE FileStep  BY <2>1, InvFileStep
  <2>2. CASE end \/ answer_1604 \/ last_packet  BY <2>2, InvLast
  <2>3. CASE new_client \/ append_client \/ add_client_db \/ answer_1600
    BY <2>3, InvNewClient, InvAppendClient, InvAddClient, InvAnswer1600
  <2>4. CASE keep_public_key \/ set_public_key \/ new_aes \/ set_aes_key \/ answer_aes
    BY <2>4, InvKeepPublicKey, InvSetPublicKey, InvNewAes, InvSetAesKey, InvAnswerAes
  <2>5. CASE create_clients \/ create_files \/ load_clients \/ load_files \/ make_root
    BY <2>5, InvLoading
  <2>6. CASE listen \/ Exception  BY <2>6, InvListen, InvException
  <2> QED  BY <1>2, <2>1, <2>2, <2>3, <2>4, <2>5, <2>6 DEF Calls, FileStep
<1>3. CASE Start \/ CallFails \/ Die  BY <1>3, InvStart, InvCallFails, InvDie
<1>4. CASE UNCHANGED vars  BY <1>4, InvStutter
<1> QED  BY <1>1, <1>2, <1>3, <1>4 DEF Next

\* The inductive invariant holds always: whatever requests arrive, whichever
\* call fails and wherever the process dies (server.py, request.py, sql.py).
LEMMA StoreInvariant == Spec => []Inv
<1>1. Init => Inv  BY InvInit
<1>2. Inv /\ [Next]_vars => Inv'  BY InvNext
<1> QED  BY <1>1, <1>2, PTL DEF Spec

\* Lists, tables, folders and files keep their types, and identifiers that
\* were answered were handed out before (client.py, sql.py:31-32).
THEOREM TypesHold == Spec => []StoreTypeOK
<1>1. Inv => StoreTypeOK
  BY DEF Inv, Types, Stores, StoreTypeOK, AllIds
<1> QED  BY <1>1, StoreInvariant, PTL

\* README.md:9, "Each client must have a unique name", for every number of
\* clients: neither the list nor the table ever has two clients of a name or
\* of an id, though the check is made on the list alone (request.py:75-82).
THEOREM NamesAreUnique == Spec => []NamesUnique
<1>1. Inv => NamesUnique
  BY DEF Inv, Store, UniqueIn, NamesUnique
<1> QED  BY <1>1, StoreInvariant, PTL

\* A registration that was answered is in the table for good and in the list
\* whenever requests are served: request.py:80-84 records it before 1600.
THEOREM RegistrationsAreDurable == Spec => []RegistrationsDurable
<1>1. Inv => RegistrationsDurable
  BY DEF Inv, Store, Durable, Has, RegistrationsDurable
<1> QED  BY <1>1, StoreInvariant, PTL

\* The keys of the last exchange that was answered are in table and list,
\* through every restart: request.py:121-125 and 10-13 save before 1602, 1605.
THEOREM KeysAreDurable == Spec => []KeysDurable
<1>1. Inv => KeysDurable
  BY DEF Inv, Store, Durable, KeysIn, KeysDurable
<1> QED  BY <1>1, StoreInvariant, PTL

-----------------------------------------------------------------------------
(* The files of list and table. A handler changes one and then the other:  *)
(* between the two calls they differ by the file of the request.           *)

ThisFile(r) == r.id = req.id /\ r.file = req.file
Settled == ~At({"append_file", "delete_file"})

\* A row is listed, but for the one that is just being added or deleted.
RowsListed ==
  status = "up" =>
    \A r \in db.files : Known(mem, r.id) =>
       Listed(mem, r.id, r.file) \/ (~Settled /\ ThisFile(r))

\* A step that changes neither.
SameFiles(s, t) == \A id, f : Listed(t, id, f) <=> Listed(s, id, f)
Quiet ==
  /\ status = "up" /\ status' = "up" /\ Settled /\ Settled'
  /\ SameFiles(mem, mem') /\ SameFiles(db, db')
  /\ \A id : Acked(id) /\ Known(mem', id) => Known(mem, id)

LEMMA QuietRowsListed ==
  ASSUME Inv, RowsListed, Quiet  PROVE RowsListed'
<1>1. ASSUME NEW r \in db'.files, Known(mem', r.id)
      PROVE  Listed(mem', r.id, r.file)
  <2>1. Listed(db, r.id, r.file)  BY DEF Quiet, SameFiles, Listed
  <2>2. PICK x \in db.files : x.id = r.id /\ x.file = r.file
    BY <2>1 DEF Listed
  <2>3. Acked(x.id)  BY DEF Inv, Store, Owners
  <2>4. Known(mem, x.id)  BY <1>1, <2>2, <2>3 DEF Quiet
  <2>5. Listed(mem, r.id, r.file)  BY <2>2, <2>4 DEF RowsListed, Quiet
  <2> QED  BY <2>5 DEF Quiet, SameFiles
<1> QED  BY <1>1 DEF RowsListed, Known, Listed

Unsettling == {"add_file_db", "append_file", "list_remove", "delete_file"}
LEMMA SettledCall ==
  ASSUME Inv, NEW op, NextCall(op), op \notin Unsettling \cup Starting,
         todo' = Tail(todo), req'.code = req.code
  PROVE  status = "up" /\ Settled /\ Settled'
<1>1. status = "up"  BY Serving
<1>2. /\ op \in Ops
      /\ todo' # <<>> => Head(todo') \in Follow(req.code, op)
      /\ \A ops : At(ops) <=> op \in ops
      /\ \A ops : At(ops)' <=> todo' # <<>> /\ Head(todo') \in ops
  BY Advance
<1>3. Settled  BY <1>2 DEF Settled, Unsettling
<1>4. \A next \in Follow(req.code, op) : next \notin {"append_file", "delete_file"}
  <2>1. CASE op = "last_seen"
    <3>1. Follow(req.code, op) = {"raise", "end"} \cup
         (IF req.code \in {826, 827} THEN {"new_aes"} ELSE {}) \cup
         (IF req.code = 828 THEN {"withdraw", "last_packet", "add_file_db"} ELSE {})
         \cup (IF req.code \in {900, 901, 902} THEN {"mark_valid", "os_remove"}
               ELSE {})
      BY <2>1 DEF Follow
    <3> QED  BY <3>1
  <2>2. CASE op # "last_seen"
    BY <1>2, <2>2 DEF Ops, Follow, Unsettling
  <2> QED  BY <2>1, <2>2
<1>5. Settled'  BY <1>2, <1>4 DEF Settled
<1> QED  BY <1>1, <1>3, <1>5

LEMMA QuietEnd ==
  ASSUME Inv, End, status = "up", status' = "up", Settled,
         mem' = mem, db' = db
  PROVE  Quiet
BY DEF Quiet, End, Settled, At, SameFiles, Listed, Known

\* The steps of a handler that leave list and table of files alone.
LEMMA QuietCalls ==
  ASSUME Inv,
         \/ new_client \/ append_client \/ add_client_db
         \/ keep_public_key \/ set_public_key \/ new_aes \/ set_aes_key
         \/ encrypt \/ last_seen \/ write \/ os_remove
         \/ withdraw \/ withdraw_db \/ mark_valid \/ mark_valid_db
  PROVE  Quiet
<1> USE DEF Unsettling
<1>1. mem \in Stores /\ db \in Stores /\ Types  BY DEF Inv, Types
<1>2. CASE new_client
  <2>1. /\ NextCall("new_client") /\ todo' = Tail(todo) /\ status' = status
        /\ mem' = mem /\ db' = db /\ \E id : req' = [req EXCEPT !.id = id]
    BY <1>2 DEF new_client
  <2>2. req'.code = req.code  BY <1>1, <2>1 DEF Types, RequestRecords
  <2>3. status = "up" /\ Settled /\ Settled'  BY <2>1, <2>2, SettledCall
  <2> QED  BY <2>1, <2>3 DEF Quiet, SameFiles, Listed, Known
<1>3. CASE append_client
  <2>1. /\ NextCall("append_client") /\ todo' = Tail(todo) /\ status' = status
        /\ req' = req /\ db' = db
        /\ mem' = [mem EXCEPT !.clients = @ \cup {NewClient(req.id, req.name)}]
    BY <1>3 DEF append_client, InMemory, Return
  <2>2. status = "up" /\ Settled /\ Settled'  BY <2>1, SettledCall
  <2>3. ~Acked(req.id)  BY <2>1 DEF Inv, Registration, At, NextCall
  <2>4. /\ mem'.files = mem.files
        /\ mem'.clients = mem.clients \cup {NewClient(req.id, req.name)}
    BY <1>1, <2>1 DEF Stores
  <2>5. NewClient(req.id, req.name).id = req.id  BY DEF NewClient
  <2> QED  BY <2>1, <2>2, <2>3, <2>4, <2>5 DEF Quiet, SameFiles, Listed, Known
<1>4. CASE add_client_db \/ set_public_key \/ set_aes_key \/ last_seen
  <2>1. PICK op \in {"add_client_db", "set_public_key", "set_aes_key", "last_seen"} :
          /\ NextCall(op) /\ todo' = Tail(todo) /\ status' = status /\ req' = req
          /\ mem' = mem
    BY <1>4 DEF add_client_db, set_public_key, set_aes_key, last_seen, InDatabase, Return
  <2>2. db'.files = db.files
    BY <1>1, <1>4 DEF add_client_db, set_public_key, set_aes_key, last_seen, InDatabase,
                      WithPublicKey, WithAesKey, Stores
  <2>3. status = "up" /\ Settled /\ Settled'  BY <2>1, SettledCall
  <2> QED  BY <2>1, <2>2, <2>3 DEF Quiet, SameFiles, Listed, Known
<1>5. CASE keep_public_key \/ new_aes \/ encrypt
  <2>1. PICK op \in {"keep_public_key", "new_aes", "encrypt"} :
          /\ NextCall(op) /\ todo' = Tail(todo) /\ status' = status /\ req' = req
          /\ db' = db
    BY <1>5 DEF keep_public_key, new_aes, encrypt, InMemory, Return
  <2>2. Renewed(mem, mem')
    <3>1. CASE keep_public_key
      <4>1. /\ NextCall("keep_public_key") /\ todo' = Tail(todo) /\ req' = req
            /\ status' = status
            /\ mem' = WithPublicKey(mem, req.id, req.public_key)
        BY <3>1 DEF keep_public_key, InMemory, Return
      <4>2. req.public_key \in PublicKeys \cup {"none"}
        BY <1>1 DEF Types, RequestRecords
      <4> QED  BY <1>1, <4>1, <4>2, PublicKeySet
    <3>2. CASE new_aes
      <4>1. PICK k \in AesKeys : mem' = WithAesKey(mem, req.id, k)
        BY <3>2 DEF new_aes, InMemory
      <4> QED  BY <1>1, <4>1, AesKeySet
    <3>3. CASE encrypt
      BY <3>3 DEF encrypt, InMemory, Renewed, Has
    <3> QED  BY <1>5, <3>1, <3>2, <3>3
  <2>3. status = "up" /\ Settled /\ Settled'  BY <2>1, SettledCall
  <2> QED  BY <2>1, <2>2, <2>3 DEF Quiet, Renewed, SameFiles, Listed, Known, Has
<1>6. CASE write \/ os_remove
  <2>1. PICK op \in {"write", "os_remove"} :
          /\ NextCall(op) /\ todo' = Tail(todo) /\ status' = status /\ req' = req
          /\ mem' = mem /\ db' = db
    BY <1>6 DEF write, os_remove, Return
  <2>2. status = "up" /\ Settled /\ Settled'  BY <2>1, SettledCall
  <2> QED  BY <2>1, <2>2 DEF Quiet, SameFiles, Listed, Known
<1>7. CASE withdraw \/ mark_valid
  <2>1. PICK op \in {"withdraw", "mark_valid"}, b \in BOOLEAN :
          /\ NextCall(op) /\ todo' = Tail(todo) /\ status' = status /\ req' = req
          /\ db' = db /\ mem' = WithValid(mem, req.id, req.file, b)
    BY <1>7 DEF withdraw, mark_valid, InMemory, Return
  <2>2. /\ mem'.clients = mem.clients
        /\ \A r \in mem'.files : Listed(mem, r.id, r.file)
        /\ \A r \in mem.files : Listed(mem', r.id, r.file)
    BY <1>1, <2>1, FileStatements DEF SameClients
  <2>3. status = "up" /\ Settled /\ Settled'  BY <2>1, SettledCall
  <2> QED  BY <2>1, <2>2, <2>3 DEF Quiet, SameFiles, Listed, Known
<1>8. CASE withdraw_db \/ mark_valid_db
  <2>1. PICK op \in {"withdraw_db", "mark_valid_db"}, b \in BOOLEAN :
          /\ NextCall(op) /\ todo' = Tail(todo) /\ status' = status /\ req' = req
          /\ mem' = mem /\ db' = set_valid_crc(db, req.id, b)
    BY <1>8 DEF withdraw_db, mark_valid_db, InDatabase, Return
  <2>2. /\ \A r \in db'.files : Listed(db, r.id, r.file)
        /\ \A r \in db.files : Listed(db', r.id, r.file)
    BY <1>1, <2>1, FileStatements
  <2>3. status = "up" /\ Settled /\ Settled'  BY <2>1, SettledCall
  <2> QED  BY <2>1, <2>2, <2>3 DEF Quiet, SameFiles, Listed, Known
<1> QED  BY <1>2, <1>3, <1>4, <1>5, <1>6, <1>7, <1>8

LEMMA QuietAnswers ==
  ASSUME Inv, answer_1600 \/ answer_aes \/ last_packet \/ answer_1604 \/ end
  PROVE  Quiet
<1>1. PICK op \in {"answer_1600", "answer_aes", "last_packet", "answer_1604", "end"} :
        Answer(op)
  BY DEF answer_1600, answer_aes, last_packet, answer_1604, end
<1>2. NextCall(op) /\ Tail(todo) = <<>>
  BY <1>1, FinalCall DEF Answer, Final
<1>3. End /\ status' = status /\ mem' = mem /\ db' = db
  BY <1>1, <1>2 DEF Answer, store
<1>4. status = "up"  BY <1>2, Serving
<1>5. Settled  BY <1>2 DEF NextCall, Settled, At
<1> QED  BY <1>3, <1>4, <1>5, QuietEnd

LEMMA QuietRequests == Inv /\ Requests => Quiet
<1> SUFFICES ASSUME Inv, Requests PROVE Quiet  OBVIOUS
<1> DEFINE heads == {"last_seen", "raise", "end", "new_client", "keep_public_key",
                     "write"}
<1>1. ASSUME NEW r, NEW calls, Handle(r, calls), Head(calls) \in heads
      PROVE  Quiet
  <2>1. /\ status = "up" /\ status' = status /\ todo = <<>> /\ todo' = calls
        /\ mem' = mem /\ db' = db
    BY <1>1 DEF Handle, store
  <2>2. Settled /\ Settled'  BY <1>1, <2>1 DEF Settled, At
  <2> QED  BY <2>1, <2>2 DEF Quiet, SameFiles, Listed, Known
<1>2. ASSUME NEW n \in Names, registration_request_825(n)  PROVE Quiet
  <2> DEFINE calls == IF NameTaken(n) THEN <<"last_seen", "raise">>
                      ELSE registration_calls
  <2>1. \E r : Handle(r, calls)  BY <1>2 DEF registration_request_825
  <2>2. Head(calls) \in heads  BY DEF registration_calls
  <2> QED  BY <1>1, <2>1, <2>2
<1>3. ASSUME NEW s \in Senders, reconnection_request_827(s)  PROVE Quiet
  <2> DEFINE aes == <<"last_seen">> \o create_send_aes_calls
             calls == IF ~NameTaken(s.name) THEN <<"end">>
                      ELSE IF OwnerOf(s.name).id # s.id THEN <<"raise">>
                      ELSE IF OwnerOf(s.name).public_key \in BadKeys \cup {"none"}
                      THEN <<"last_seen", "end">>
                      ELSE aes
  <2>1. \E r : Handle(r, calls)  BY <1>3 DEF reconnection_request_827
  <2>2. Head(aes) = "last_seen"  BY KeyPrograms
  <2> HIDE DEF aes
  <2>3. Head(calls) \in heads  BY <2>2
  <2> QED  BY <1>1, <2>1, <2>3
<1>4. ASSUME NEW s \in Senders, NEW k \in PublicKeys, send_public_key_request_826(s, k)
      PROVE  Quiet
  <2> DEFINE calls == IF NameTaken(s.name) /\ OwnerOf(s.name).id = s.id
                      THEN public_key_calls ELSE <<"raise">>
  <2>1. \E r : Handle(r, calls)  BY <1>4 DEF send_public_key_request_826
  <2>2. Head(calls) \in heads  BY KeyPrograms
  <2> QED  BY <1>1, <2>1, <2>2
<1>5. ASSUME NEW s \in Senders, NEW f \in Files, NEW first \in BOOLEAN,
             NEW last \in BOOLEAN, send_file_request_828(s, f, first, last)
      PROVE  Quiet
  <2> DEFINE calls == IF ~Known(mem, s.id) THEN <<"raise">>
                      ELSE IF Listed(mem, s.id, f) THEN listed_packet_calls(req')
                      ELSE new_packet_calls(req')
  <2>1. \E r : Handle(r, calls)  BY <1>5 DEF send_file_request_828
  <2>2. Handle(req', calls)  BY <2>1 DEF Handle
  <2>3. req' \in RequestRecords  BY InvRequests DEF Inv, Types
  <2>4. req'.first \in BOOLEAN /\ req'.last \in BOOLEAN
    BY <2>3 DEF RequestRecords
  <2>5. Head(calls) \in heads  BY <2>4, PacketPrograms
  <2> QED  BY <1>1, <2>2, <2>5
<1>6. ASSUME NEW s \in Senders, NEW f \in Files, NEW code \in {900, 901, 902},
             crc_response_900_901_902(s, f, code)
      PROVE  Quiet
  <2> DEFINE calls == IF ~Known(mem, s.id) THEN <<"raise">>
                      ELSE IF ~Listed(mem, s.id, f) \/ ValidIn(mem, s.id, f)
                      THEN <<"last_seen", "raise">>
                      ELSE crc_calls(code)
  <2>1. \E r : Handle(r, calls)  BY <1>6 DEF crc_response_900_901_902
  <2>2. Head(calls) \in heads  BY CrcPrograms
  <2> QED  BY <1>1, <2>1, <2>2
<1> QED  BY <1>2, <1>3, <1>4, <1>5, <1>6 DEF Requests

\* While the process is down or starting there is nothing to show.
LEMMA NotServing ==
  ASSUME Inv,
         \/ Start \/ Die
         \/ create_clients \/ create_files \/ load_clients \/ load_files \/ make_root
  PROVE  status' # "up"
<1>1. CASE Start \/ Die  BY <1>1 DEF Start, Die
<1>2. CASE create_clients \/ create_files \/ load_clients \/ load_files \/ make_root
  <2>1. status' = status
    BY <1>2 DEF create_clients, create_files, Create, load_clients, load_files, InMemory,
                make_root, Return
  <2>2. PICK op \in Starting : NextCall(op)
    BY <1>2 DEF create_clients, create_files, Create, load_clients, load_files, InMemory,
                make_root
  <2>3. At(Starting) /\ todo # <<>>  BY <2>2 DEF At, NextCall
  <2> QED  BY <2>1, <2>3 DEF Inv, Process
<1> QED  BY <1>1, <1>2

\* The calls that change list or table of files.
LEMMA UnsettlingCall ==
  ASSUME Inv, NEW op \in Unsettling, NextCall(op), todo' = Tail(todo), req' = req
  PROVE  /\ status = "up" /\ (\A ops : At(ops) <=> op \in ops)
         /\ op = "add_file_db" =>
              At({"append_file"})' /\ ~At({"delete_file"})' /\ ~Settled'
         /\ op = "list_remove" =>
              At({"delete_file"})' /\ ~At({"append_file"})' /\ ~Settled'
         /\ op \in {"append_file", "delete_file"} =>
              ~At({"append_file"})' /\ ~At({"delete_file"})' /\ Settled'
<1> USE DEF Unsettling
<1>1. status = "up"  BY Serving
<1>2. /\ todo' # <<>> => Head(todo') \in Follow(req.code, op)
      /\ todo' = <<>> => op \in Final
      /\ \A ops : At(ops) <=> op \in ops
      /\ \A ops : At(ops)' <=> todo' # <<>> /\ Head(todo') \in ops
  BY Advance
<1>3. /\ todo' # <<>>
      /\ op = "add_file_db" => Head(todo') = "append_file"
      /\ op = "list_remove" => Head(todo') = "delete_file"
      /\ op = "append_file" => Head(todo') \in {"last_packet", "end"}
      /\ op = "delete_file" => Head(todo') = "answer_1604"
  BY <1>2 DEF Final, Follow
<1> QED  BY <1>1, <1>2, <1>3 DEF Settled

LEMMA FileStatesAfter ==
  ASSUME Inv
  PROVE  /\ append_file => mem'.files = mem.files \cup {NewFile} /\ db' = db
         /\ add_file_db => db'.files = db.files \cup {NewFile} /\ mem' = mem
         /\ list_remove => mem'.files = {r \in mem.files : ~ThisFile(r)} /\ db' = db
         /\ delete_row => db'.files = {r \in db.files : r.file # req.file} /\ mem' = mem
         /\ append_file \/ add_file_db \/ list_remove \/ delete_row =>
              /\ mem'.clients = mem.clients
              /\ todo' = Tail(todo) /\ status' = status /\ req' = req
         /\ NewFile.id = req.id /\ NewFile.file = req.file
<1>1. mem \in Stores /\ db \in Stores  BY DEF Inv, Types
<1>2. /\ append_file => /\ mem'.files = mem.files \cup {NewFile} /\ db' = db
                        /\ mem'.clients = mem.clients
      /\ add_file_db => db'.files = db.files \cup {NewFile} /\ mem' = mem
      /\ list_remove => /\ mem'.files = {r \in mem.files : ~ThisFile(r)} /\ db' = db
                        /\ mem'.clients = mem.clients
      /\ delete_row => db'.files = {r \in db.files : r.file # req.file} /\ mem' = mem
  BY <1>1 DEF append_file, add_file_db, list_remove, delete_row, InMemory, InDatabase,
              Without, delete_file, ThisFile, Stores
<1>3. append_file \/ add_file_db \/ list_remove \/ delete_row =>
        todo' = Tail(todo) /\ status' = status /\ req' = req
  BY DEF append_file, add_file_db, list_remove, delete_row, InMemory, InDatabase, Return
<1>4. NewFile.id = req.id /\ NewFile.file = req.file  BY DEF NewFile
<1> QED  BY <1>2, <1>3, <1>4

LEMMA RowsListedNext ==
  ASSUME "io" \notin FaultKinds, Inv, RowsListed, [Next]_vars
  PROVE  RowsListed'
<1> USE DEF Unsettling
<1>1. CASE Requests  BY <1>1, QuietRequests, QuietRowsListed
<1>2. CASE \/ new_client \/ append_client \/ add_client_db
           \/ keep_public_key \/ set_public_key \/ new_aes \/ set_aes_key
           \/ encrypt \/ last_seen \/ write \/ os_remove
           \/ withdraw \/ withdraw_db \/ mark_valid \/ mark_valid_db
  BY <1>2, QuietCalls, QuietRowsListed
<1>3. CASE answer_1600 \/ answer_aes \/ last_packet \/ answer_1604 \/ end
  BY <1>3, QuietAnswers, QuietRowsListed
<1>4. CASE \/ Start \/ Die
           \/ create_clients \/ create_files \/ load_clients \/ load_files \/ make_root
  BY <1>4, NotServing DEF RowsListed
<1>5. CASE listen
  <2>1. NextCall("listen") /\ mem' = mem /\ db' = db  BY <1>5 DEF listen, store
  <2>2. mem.files = Loaded  BY <2>1 DEF Inv, Process, Types, At, NextCall
  <2> QED  BY <2>1, <2>2 DEF RowsListed, Loaded, Known, Listed
<1>6. CASE append_file
  <2>1. NextCall("append_file")  BY <1>6 DEF append_file, InMemory
  <2>2. /\ mem'.files = mem.files \cup {NewFile} /\ db' = db
        /\ mem'.clients = mem.clients /\ todo' = Tail(todo) /\ status' = status
        /\ req' = req /\ NewFile.id = req.id /\ NewFile.file = req.file
    BY <1>6, FileStatesAfter
  <2> QED  BY <2>2 DEF RowsListed, Known, Listed, ThisFile
<1>7. CASE add_file_db
  <2>1. NextCall("add_file_db")  BY <1>7 DEF add_file_db, InDatabase
  <2>2. /\ db'.files = db.files \cup {NewFile} /\ mem' = mem
        /\ todo' = Tail(todo) /\ status' = status
        /\ req' = req /\ NewFile.id = req.id /\ NewFile.file = req.file
    BY <1>7, FileStatesAfter
  <2>3. ~Settled' /\ Settled  BY <2>1, <2>2, UnsettlingCall DEF Settled
  <2> QED  BY <2>2, <2>3 DEF RowsListed, Known, Listed, ThisFile
<1>8. CASE list_remove
  <2>1. NextCall("list_remove")  BY <1>8 DEF list_remove, InMemory
  <2>2. /\ mem'.files = {r \in mem.files : ~ThisFile(r)} /\ db' = db
        /\ mem'.clients = mem.clients /\ todo' = Tail(todo) /\ status' = status
        /\ req' = req
    BY <1>8, FileStatesAfter
  <2>3. ~Settled' /\ Settled  BY <2>1, <2>2, UnsettlingCall DEF Settled
  <2> QED  BY <2>2, <2>3 DEF RowsListed, Known, Listed, ThisFile
<1>9. CASE delete_row
  <2>1. NextCall("delete_file")  BY <1>9 DEF delete_row, InDatabase
  <2>2. /\ db'.files = {r \in db.files : r.file # req.file} /\ mem' = mem
        /\ todo' = Tail(todo) /\ status' = status /\ req' = req
    BY <1>9, FileStatesAfter
  <2> QED  BY <2>2 DEF RowsListed, Known, Listed, ThisFile
<1>10. CASE Exception
  <2>1. Raise /\ db' = db /\ todo # <<>>  BY <1>10 DEF Exception, Refused, NextCall
  <2>2. End /\ (status' = "down" \/ (status = "up" /\ status' = "up" /\ mem' = mem))
    BY <2>1, Raised
  <2>3. CASE Settled
    BY <2>1, <2>2, <2>3, QuietEnd, QuietRowsListed DEF RowsListed
  <2>4. CASE ~Settled
    <3>1. \A r \in db.files : r.file # req.file
      BY <1>10, <2>4 DEF Exception, Refused, NextCall, Settled, At
    <3> QED  BY <2>1, <2>2, <3>1 DEF RowsListed, Known, Listed, ThisFile
  <2> QED  BY <2>3, <2>4
<1>11. CASE CallFails  BY <1>11 DEF CallFails
<1>12. CASE UNCHANGED vars
  BY <1>12 DEF vars, store, RowsListed, Known, Listed, Settled, At, ThisFile
<1> QED  BY <1>1, <1>2, <1>3, <1>4, <1>5, <1>6, <1>7, <1>8, <1>9, <1>10, <1>11, <1>12
         DEF Next, Calls

\* As long as no call fails for an outside reason, a file that is not listed
\* has no row, whatever requests come and wherever the process dies: a first
\* packet never meets the primary key (request.py:163-169). A delete_file that
\* fails after files_list.remove (request.py:201-202) is what would break it.
THEOREM NewFilesAreAccepted ==
  ASSUME "io" \notin FaultKinds
  PROVE  Spec => []AcceptsNewFiles
<1>1. Init => RowsListed  BY DEF Init, RowsListed
<1>2. Inv /\ RowsListed /\ [Next]_vars => RowsListed'  BY RowsListedNext
<1>3. RowsListed => AcceptsNewFiles
  BY DEF RowsListed, AcceptsNewFiles, Idle, Settled, At
<1> QED  BY <1>1, <1>2, <1>3, StoreInvariant, PTL DEF Spec
=============================================================================
