-------------------------------- MODULE JsonBody --------------------------------
(***************************************************************************)
(* The body of a JSON response, JSONResponse of sanic/response/types.py:   *)
(* the raw body, which handlers and middleware change in place, and the    *)
(* encoded one, which is sent.                                             *)
(*                                                                         *)
(* Every change encodes the raw body again, with the dumps the response    *)
(* was made with, or one that was given for once; dumps raises when it     *)
(* cannot encode what it is given, and a middleware may catch that.  A raw *)
(* body is a list, or a dict known by its keys, or something else.         *)
(***************************************************************************)
EXTENDS Integers, Sequences, SequencesExt

CONSTANTS
    Values,     \* what a list holds, and the keys of a dict
    Bad,        \* those of them that the response's dumps cannot encode
    MaxLen,     \* bound: of a list
    MaxChanges  \* bound: changes

ASSUME JsonAssumption == Bad \subseteq Values /\ MaxLen \in Nat /\ MaxChanges \in Nat

VARIABLES
    exists,          \* there is a response
    raw_body,      \* _raw_body
    encoded,       \* _body: [dumps, value]
    body_manually_set,
    behind,        \* history: a dumps has raised half way, and none has succeeded since
    changes        \* how many there were

json_vars == <<exists, raw_body, encoded, body_manually_set, behind, changes>>

List(s) == [type |-> "list", items |-> s]
Dict(s) == [type |-> "dict", items |-> s]
Other   == [type |-> "other", items |-> <<>>]
Manual  == [dumps |-> "none", value |-> Other]

Lists == {List(s) : s \in SeqOf(Values, MaxLen)}
Dicts == {Dict(s) : s \in {t \in SeqOf(Values, MaxLen) : IsInjective(t)}}
Raws  == Lists \cup Dicts \cup {Other}

JsonInit ==
    /\ exists = FALSE /\ raw_body = Other /\ encoded = Manual /\ body_manually_set = FALSE
    /\ behind = FALSE /\ changes = 0

JsonOff ==
    /\ exists = TRUE /\ raw_body = Other /\ encoded = Manual /\ body_manually_set = TRUE
    /\ behind = FALSE /\ changes = MaxChanges

\* the default of the response, or another that encodes everything
Encodes(dumps, value) == dumps = "other" \/ ToSet(value.items) \cap Bad = {}
Encode(dumps, value)  == [dumps |-> dumps, value |-> value]

Changing == exists /\ changes < MaxChanges /\ changes' = changes + 1 /\ UNCHANGED exists

\* __init__; what cannot be encoded makes no response
MakeJson(value) ==
    /\ ~exists /\ Encodes("own", value)
    /\ exists' = TRUE /\ raw_body' = value /\ encoded' = Encode("own", value)
    /\ UNCHANGED <<body_manually_set, behind, changes>>

\* as if the raw body that has changed was not encoded again
AssignUnencoded(value, kept) ==
    /\ raw_body' = value /\ body_manually_set' = FALSE /\ behind' = FALSE /\ UNCHANGED encoded

\* self.raw_body = value, for a value that is not the raw body yet, or is it already
AssignAs(value, kept) ==
    /\ body_manually_set' = FALSE
    /\ IF Encodes("own", value)
         THEN raw_body' = value /\ encoded' = Encode("own", value) /\ behind' = FALSE
         ELSE /\ raw_body' = kept /\ UNCHANGED encoded
              /\ behind' = (behind \/ body_manually_set \/ kept # raw_body)

SetRawBody(value) == Changing /\ AssignAs(value, raw_body)

\* response.body = ..., which is what is sent
SetManually ==
    /\ Changing /\ encoded' = Manual /\ body_manually_set' = TRUE
    /\ UNCHANGED <<raw_body, behind>>

\* set_body: the raw body is another whether it can be encoded or not
SetBody(value, dumps) ==
    /\ Changing /\ raw_body' = value /\ body_manually_set' = FALSE
    /\ behind' = ~Encodes(dumps, value)
    /\ encoded' = IF Encodes(dumps, value) THEN Encode(dumps, value) ELSE encoded

\* _check_body_not_manually_set, and the type of the raw body
InPlace(types) == ~body_manually_set /\ raw_body.type \in types /\ Changing

\* append and extend: the list is changed before it is encoded
Extend(values) ==
    /\ InPlace({"list"}) /\ Len(raw_body.items) + Len(values) <= MaxLen
    /\ LET value == List(raw_body.items \o values) IN AssignAs(value, value)

\* update
Update(key) ==
    /\ InPlace({"dict"}) /\ Len(raw_body.items) < MaxLen
    /\ LET items == raw_body.items
           value == Dict(IF Contains(items, key) THEN items ELSE Append(items, key))
       IN AssignAs(value, value)

\* pop(key) of a list pops an index
PopItem(i) ==
    /\ InPlace({"list"}) /\ i \in DOMAIN raw_body.items
    /\ LET value == List(RemoveAt(raw_body.items, i)) IN AssignAs(value, value)

\* pop(key, default) of a dict; without the default a key that is not there raises first
PopKey(key, default) ==
    /\ InPlace({"dict"}) /\ (default \/ Contains(raw_body.items, key))
    /\ LET value == Dict(SelectSeq(raw_body.items, LAMBDA k : k # key)) IN AssignAs(value, value)

JsonNext ==
    \/ \E value \in Raws : MakeJson(value) \/ SetRawBody(value)
    \/ SetManually
    \/ \E value \in Raws, dumps \in {"own", "other"} : SetBody(value, dumps)
    \/ \E v \in Values : Extend(<<v>>) \/ Extend(<<v, v>>) \/ Update(v)
    \/ \E i \in 1..MaxLen : PopItem(i)
    \/ \E key \in Values, default \in BOOLEAN : PopKey(key, default)

JsonSpec == JsonInit /\ [][JsonNext]_json_vars
-----------------------------------------------------------------------------
JsonTypeOK ==
    /\ exists \in BOOLEAN /\ raw_body \in Raws /\ changes \in 0..MaxChanges
    /\ encoded = Manual \/ (encoded.dumps \in {"own", "other"} /\ encoded.value \in Raws)
    /\ body_manually_set \in BOOLEAN /\ behind \in BOOLEAN

\* As long as the raw body may be read, what is sent is its encoding, unless a dumps
\* has raised half way (append() has changed the list by then; set_body() even
\* makes the raw body readable again over a body that was set by hand).  Once something
\* was encoded after that, both agree again.
KeptUpToDate == exists /\ ~body_manually_set /\ ~behind => encoded.value = raw_body
==============================================================================
