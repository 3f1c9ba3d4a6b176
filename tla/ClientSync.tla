------------------------------ MODULE ClientSync ------------------------------
(***************************************************************************)
(* The clients and their copy of the vendor's list (mcliente): a sync reads *)
(* the list and the whole table, and writes in one transaction, later, the  *)
(* columns that differ from what it read. Meanwhile the office registers,   *)
(* edits and deletes clients, and sells to them.                            *)
(***************************************************************************)
EXTENDS Integers, Sequences, SequencesExt, Sums

CONSTANTS
    Numbers,      \* cedulas, RUCs and passports: sequences over 0..9 and Letter
    Phones,       \* as typed: sequences over 0..9 and Letter
    Mails,        \* as typed: a set of strings
    VendorRows,   \* what a row of mcliente may say, in a sequence
    Listed,       \* the rows, numbered in the order they are read
    Importers,    \* employees who may press the button
    MinDigits,    \* digits that make a phone number
    MaxTouches    \* BOUND: rows the vendor and the office change

VARIABLES
    mcliente,  \* per row of the vendor, which of VendorRows it says
    clients,   \* per primary key, the row
    serial,    \* the last primary key given
    import,    \* per employee, what the sync read
    touches

clientVars == <<mcliente, clients, serial, import, touches>>

-----------------------------------------------------------------------------
\* tax_id: cedulas of ten digits, RUCs of thirteen; the third digit of a RUC
\* tells a public entity or a company from a person.
Letter == 10

ASSUME ClientAssumption ==
    /\ IsFiniteSet(Listed) /\ Listed \subseteq Nat
    /\ Numbers \in Seq(Seq(0..Letter))
    /\ \A text \in DOMAIN VendorRows :
          LET row == VendorRows[text]
          IN  /\ row.cedula \in DOMAIN Numbers
              /\ row.name \in Seq(STRING)
              /\ {row.phone, row.phone2} \subseteq Seq(0..Letter)
    /\ MinDigits \in Nat \ {0} /\ MaxTouches \in Nat

IsNumber(value) == value # <<>> /\ \A i \in DOMAIN value : value[i] # Letter

Natural == [coefficients |-> <<2, 1, 2, 1, 2, 1, 2, 1, 2>>, base |-> 10]
Public  == [coefficients |-> <<3, 2, 7, 6, 5, 4, 3, 2>>, base |-> 11]
Private == [coefficients |-> <<4, 3, 2, 7, 6, 5, 4, 3, 2>>, base |-> 11]

Algorithm(value) ==
    CASE Len(value) = 13 /\ value[3] = 6 -> Public
      [] Len(value) = 13 /\ value[3] = 9 -> Private
      [] OTHER -> Natural

is_company_ruc(value) == IsNumber(value) /\ Algorithm(value) # Natural

Folded(term) == IF term < 10 THEN term ELSE (term \div 10) + (term % 10)

Weighted(value, rule) ==
    [i \in DOMAIN rule.coefficients |->
        LET term == value[i] * rule.coefficients[i]
        IN  IF rule = Natural THEN Folded(term) ELSE term]

tax_id_holds(value) ==
    /\ IsNumber(value) /\ Len(value) \in {10, 13}
    /\ 10 * value[1] + value[2] \in 1..24 \union {30}
    /\ LET rule == Algorithm(value)
           remainder == Total(Weighted(value, rule), DOMAIN rule.coefficients) % rule.base
       IN  value[Len(rule.coefficients) + 1] =
               IF remainder = 0 THEN 0 ELSE rule.base - remainder

\* A client carries the place of its number in Numbers.
Identifiers == DOMAIN Numbers
Holding == {id \in Identifiers : tax_id_holds(Numbers[id])}

\* What the office may type: a number is held to the rule, a passport is not.
identifier_accepted(id) == IsNumber(Numbers[id]) => id \in Holding

-----------------------------------------------------------------------------
\* split_name, normalize_phone, normalize_email; <<>> and "" are nothing usable.
Surnames(words) == IF Len(words) >= 3 THEN 2 ELSE 1

split_name(words, id) ==
    IF is_company_ruc(Numbers[id]) \/ Len(words) <= 1 THEN [first |-> words, last |-> <<>>]
    ELSE LET given == Len(words) - Surnames(words)
         IN  [first |-> SubSeq(words, 1, given), last |-> SubSeq(words, given + 1, Len(words))]

Digits(typed) ==
    LET kept == InOrder({i \in DOMAIN typed : typed[i] # Letter})
    IN  [n \in DOMAIN kept |-> typed[kept[n]]]

normalize_phone(phone, phone2) ==
    LET Usable(typed) == Len(Digits(typed)) >= MinDigits
    IN  IF Usable(phone) THEN Digits(phone)
        ELSE IF Usable(phone2) THEN Digits(phone2) ELSE <<>>

normalize_email(mail) ==
    CASE mail \in {"a@b", "A@B"} -> "a@b"
      [] mail = "c@d" -> mail
      [] OTHER -> ""

\* One that says nothing writes nothing.
ColumnsOf(row) ==
    LET name == split_name(row.name, row.cedula)
    IN  [first_name |-> name.first, last_name |-> name.last,
         phone |-> normalize_phone(row.phone, row.phone2), email |-> normalize_email(row.email)]

Blank == [first_name |-> <<>>, last_name |-> <<>>, phone |-> <<>>, email |-> ""]
Fields == DOMAIN Blank

ClientModel(id, source, columns) ==
    [identifier |-> id, source |-> source, sold |-> FALSE,
     first_name |-> columns.first_name, last_name |-> columns.last_name,
     phone |-> columns.phone, email |-> columns.email]

-----------------------------------------------------------------------------
\* fetch_rows and _validate: the rows in service (a NULL est is in service) with a
\* number, a name and a cedula that holds; of two with one cedula, the first.
Active(read) == {r \in Listed : read[r].est \in {"1", "null"}}

Usable(read) == {r \in Active(read) : read[r].name # <<>> /\ read[r].cedula \in Holding}

Valid(read) == {r \in Usable(read) :
                   \A q \in Usable(read) : read[q].cedula = read[r].cedula => r <= q}

-----------------------------------------------------------------------------
NotImporting == [read |-> <<>>, loaded |-> <<>>, touched |-> {}]

Importing == {s \in Importers : import[s] # NotImporting}

Differing == {k \in DOMAIN clients \union DOMAIN clients' :
                 \/ k \notin DOMAIN clients \/ k \notin DOMAIN clients'
                 \/ clients[k] # clients'[k]}

Noticed(s) == [import[s] EXCEPT !.touched = @ \union Differing]

fetch_rows == [r \in Listed |-> VendorRows[mcliente[r]]]

\* sync_clients_from_external: a read with no active row aborts.
BeginImport(s) ==
    /\ import[s] = NotImporting
    /\ Active(fetch_rows) # {}
    /\ import' = [import EXCEPT ![s] = [read |-> fetch_rows, loaded |-> clients, touched |-> {}]]
    /\ UNCHANGED <<mcliente, clients, serial, touches>>

-----------------------------------------------------------------------------
\* The client a row was matched with, if the table loaded had one.
Matched(q, r) == {k \in DOMAIN q.loaded : q.loaded[k].identifier = q.read[r].cedula}

RowsFor(q, k) == {r \in Valid(q.read) : k \in Matched(q, r)}

\* Mistake: what the vendor leaves blank is blanked here.
Mirrored(q, k) ==
    {f \in Fields : \E r \in RowsFor(q, k) : q.loaded[k][f] # ColumnsOf(q.read[r])[f]}

Written(q, k) ==
    {f \in Fields : \E r \in RowsFor(q, k) :
        ColumnsOf(q.read[r])[f] \notin {Blank[f], q.loaded[k][f]}}

Rewritten(q, k) ==
    [f \in DOMAIN clients[k] |->
        IF f \in Written(q, k) THEN ColumnsOf(q.read[CHOOSE r \in RowsFor(q, k) : TRUE])[f]
        ELSE clients[k][f]]

\* In the order of the rows.
New(q) == InOrder({r \in Valid(q.read) : Matched(q, r) = {}})

Registered(row) == ClientModel(row.cedula, "sifac", ColumnsOf(row))

Imported(q) ==
    [k \in DOMAIN clients \union serial + 1 .. serial + Len(New(q)) |->
        IF k \in DOMAIN clients THEN Rewritten(q, k)
        ELSE Registered(q.read[New(q)[k - serial]])]

Unique(table) ==
    \A j, k \in DOMAIN table : table[j].identifier = table[k].identifier => j = k

\* The one commit, which an identifier taken meanwhile or a client deleted
\* meanwhile, if something was to be written on it, refuses.
CommitImport(s) ==
    LET q == import[s] IN
    /\ s \in Importing
    /\ \A k \in DOMAIN q.loaded \ DOMAIN clients : Written(q, k) = {}
    /\ Unique(Imported(q))
    /\ clients' = Imported(q)
    /\ serial' = serial + Len(New(q))
    /\ import' = [z \in Importers |->
           IF z = s THEN NotImporting ELSE IF z \in Importing THEN Noticed(z) ELSE import[z]]
    /\ UNCHANGED <<mcliente, touches>>

\* A constraint refuses it, the server dies, or it was a dry run.
RollBackImport(s) ==
    /\ s \in Importing
    /\ import' = [import EXCEPT ![s] = NotImporting]
    /\ UNCHANGED <<mcliente, clients, serial, touches>>

-----------------------------------------------------------------------------
Touch == touches < MaxTouches /\ touches' = touches + 1

Writes(table) ==
    /\ Touch
    /\ clients' = table
    /\ Unique(table)
    /\ import' = [z \in Importers |-> IF z \in Importing THEN Noticed(z) ELSE import[z]]
    /\ UNCHANGED mcliente

VendorWrites(r, text) ==
    /\ Touch
    /\ mcliente[r] # text
    /\ mcliente' = [mcliente EXCEPT ![r] = text]
    /\ UNCHANGED <<clients, serial, import>>

\* ClientService, the CRUD of the office.
Register(id, phone) ==
    /\ identifier_accepted(id)
    /\ serial' = serial + 1
    /\ Writes([k \in DOMAIN clients \union {serial + 1} |->
                  IF k \in DOMAIN clients THEN clients[k]
                  ELSE ClientModel(id, "dashboard", [Blank EXCEPT !.phone = phone])])

Edit(k, field, value) ==
    /\ clients[k][field] # value
    /\ field = "identifier" => identifier_accepted(value)
    /\ Writes([clients EXCEPT ![k] = [@ EXCEPT ![field] = value]])
    /\ UNCHANGED serial

\* An order, a quote or a draft holds its client by a foreign key.
Delete(k) ==
    /\ ~clients[k].sold
    /\ Writes([j \in DOMAIN clients \ {k} |-> clients[j]])
    /\ UNCHANGED serial

SellTo(k) ==
    /\ clients[k].phone # <<>>
    /\ ~clients[k].sold
    /\ Writes([clients EXCEPT ![k].sold = TRUE])
    /\ UNCHANGED serial

-----------------------------------------------------------------------------
\* A client registered before the cedula was checked.
Legacy(id, phone) ==
    ClientModel(id, "dashboard", [Blank EXCEPT !.phone = phone, !.email = "c@d"])

ClientsInit ==
    /\ mcliente \in [Listed -> DOMAIN VendorRows]
    /\ \E id \in Identifiers, phone \in Phones : clients = <<Legacy(id, phone)>>
    /\ serial = 1 /\ touches = 0
    /\ import = [s \in Importers |-> NotImporting]

ClientsNext ==
    \/ \E s \in Importers : BeginImport(s) \/ CommitImport(s) \/ RollBackImport(s)
    \/ \E r \in Listed, text \in DOMAIN VendorRows : VendorWrites(r, text)
    \/ \E id \in Identifiers, phone \in Phones : Register(id, phone)
    \/ \E k \in DOMAIN clients :
          \/ \E id \in Identifiers : Edit(k, "identifier", id)
          \/ \E phone \in Phones \union {<<>>} : Edit(k, "phone", phone)
          \/ \E mail \in Mails \union {""} : Edit(k, "email", mail)
          \/ Delete(k)
          \/ SellTo(k)

ClientsSpec == ClientsInit /\ [][ClientsNext]_clientVars

-----------------------------------------------------------------------------
\* A number that holds, typed with one digit wrong, is refused, but for the third
\* digit, which chooses the rule, and what follows the check digit, which it does
\* not reach.
CheckDigit(value) == Len(Algorithm(value).coefficients) + 1

WithCheckDigit(value) == {[value EXCEPT ![CheckDigit(value)] = d] : d \in 0..9}

Mistyped(value) ==
    {[value EXCEPT ![i] = d] : i \in (1..CheckDigit(value)) \ {3}, d \in 0..9} \ {value}

MistypedIsRefused(value) ==
    \A number \in WithCheckDigit(value) : tax_id_holds(number) =>
        \A typed \in Mistyped(number) : ~tax_id_holds(typed)

ClientsTyped ==
    /\ mcliente \in [Listed -> DOMAIN VendorRows]
    /\ DOMAIN clients \subseteq 1..serial /\ Unique(clients)
    /\ \A k \in DOMAIN clients :
          /\ clients[k].identifier \in Identifiers
          /\ k > 1 => identifier_accepted(clients[k].identifier)
    /\ touches = 0 => \A id \in Identifiers :
          IsNumber(Numbers[id]) /\ Len(Numbers[id]) \in {10, 13} => MistypedIsRefused(Numbers[id])
    /\ DOMAIN import = Importers /\ touches \in 0..MaxTouches

ReadsAs(k, row) ==
    /\ clients'[k].identifier = row.cedula
    /\ \A f \in Fields : clients'[k][f] =
          IF ColumnsOf(row)[f] # Blank[f] THEN ColumnsOf(row)[f]
          ELSE IF k \in DOMAIN clients THEN clients[k][f] ELSE Blank[f]

\* A number of so many digits and nothing else, an address with something on both
\* sides of its at sign, or nothing.
CanBeReached(field, value) ==
    \/ value = Blank[field]
    \/ /\ field = "phone"
       /\ IsNumber(value) /\ Len(value) >= MinDigits
    \/ field = "email" /\ value \in {"a@b", "c@d"}

\* What a sync commits is the vendor's word where it has one and the office's
\* where it has none: nobody disappears, changes number or origin, or loses a
\* contact somebody typed; a client no usable row names is left alone; each usable
\* row is one client who reads as the row does, nobody having written it meanwhile;
\* and what a syncing creates has a number that holds and is nobody else's.
ImportedFaithfully(q) ==
    /\ \A k \in DOMAIN clients :
          /\ k \in DOMAIN clients'
          /\ \A f \in {"identifier", "source", "sold"} : clients'[k][f] = clients[k][f]
          /\ \A f \in Fields : clients[k][f] # Blank[f] => clients'[k][f] # Blank[f]
          /\ (~\E r \in Usable(q.read) : k \in Matched(q, r)) => clients'[k] = clients[k]
    /\ \A r \in Usable(q.read) : Matched(q, r) \intersect q.touched = {} =>
          \E k \in DOMAIN clients', z \in Usable(q.read) :
             z <= r /\ q.read[z].cedula = q.read[r].cedula /\ ReadsAs(k, q.read[z])
    /\ \A k \in DOMAIN clients' \ DOMAIN clients :
          /\ clients'[k].source = "sifac"
          /\ clients'[k].identifier \in Holding
          /\ \E r \in Usable(q.read) :
                /\ clients'[k].first_name \o clients'[k].last_name = q.read[r].name
                /\ is_company_ruc(Numbers[q.read[r].cedula]) => clients'[k].last_name = <<>>
    /\ \A k \in DOMAIN clients', f \in {"phone", "email"} :
          \/ k \in DOMAIN clients /\ clients'[k][f] = clients[k][f]
          \/ CanBeReached(f, clients'[k][f])
    /\ Unique(clients')

ClientsFollowTheVendor ==
    [][\A s \in Importing : import'[s] = NotImporting /\ clients' # clients
          => ImportedFaithfully(import[s])]_clientVars

=============================================================================
