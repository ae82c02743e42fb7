---------------------------- MODULE ContactFormats ----------------------------
(***************************************************************************)
(* How the phone numbers of a contact of Google and of Office 365 are laid *)
(* out (ContactFormatter of google_backend/services.py, aggregate_numbers  *)
(* and get_numbers_except_label of office365_backend/services.py).         *)
(* A Google contact has phones, records [label, number]; a missing label   *)
(* is "other" and an empty one "", a missing number None.  An Office 365   *)
(* contact has a list of numbers for each field, of one at most for        *)
(* mobilePhone.  A dictionary is the sequence of its <<key, value>> pairs, *)
(* in the order the keys were first set.                                   *)
(***************************************************************************)
EXTENDS Integers, SequencesExt

CONSTANTS NoNumber

MultiPhoneFields == <<"businessPhones", "homePhones">>
SinglePhoneFields == <<"mobilePhone">>

KnownLabels == {"home", "work", "mobile", "other", "main", "home_fax", "work_fax",
                "google_voice", "pager"}

Second(pairs) == [i \in DOMAIN pairs |-> pairs[i][2]]

(* d[key] = value                                                          *)
SetItem(d, key, value) ==
  IF \E i \in DOMAIN d : d[i][1] = key
  THEN [i \in DOMAIN d |-> IF d[i][1] = key THEN <<key, value>> ELSE d[i]]
  ELSE Append(d, <<key, value>>)

(* _extract_numbers_by_label: a later number replaces an earlier one of    *)
(* the same label.                                                         *)
NumbersByLabel(phones) ==
  FoldLeft(LAMBDA d, phone : IF phone.label = "" \/ phone.number = NoNumber THEN d
                             ELSE SetItem(d, phone.label, phone.number), <<>>, phones)

(* _extract_numbers: the mobile number is the last one.                    *)
Numbers(phones) ==
  LET byLabel == NumbersByLabel(phones)
  IN Second(SelectSeq(byLabel, LAMBDA pair : pair[1] # "mobile")
            \o SelectSeq(byLabel, LAMBDA pair : pair[1] = "mobile"))

NumbersExceptLabel(phones) ==
  [label \in KnownLabels |->
     Second(SelectSeq(NumbersByLabel(phones), LAMBDA pair : pair[1] # label))]

(* aggregate_numbers: the mobile number is the first one.                  *)
AggregateNumbers(contact) ==
  FlattenSeq([i \in DOMAIN (SinglePhoneFields \o MultiPhoneFields) |->
                contact[(SinglePhoneFields \o MultiPhoneFields)[i]]])

(* get_numbers_except_label                                                *)
OfficeNumbersExceptLabel(contact) ==
  LET fields == MultiPhoneFields \o SinglePhoneFields
      Others(field) == SelectSeq(fields, LAMBDA f : f # field)
  IN [field \in Range(fields) |->
        FlattenSeq([i \in DOMAIN Others(field) |-> contact[Others(field)[i]]])]

(***************************************************************************)
(* Properties of a contact.                                                *)
(***************************************************************************)
BagOf(numbers) == FoldLeft(LAMBDA bag, n : bag (+) SetToBag({n}), EmptyBag, numbers)
Labelled(phones, label) ==
  Second(SelectSeq(NumbersByLabel(phones), LAMBDA pair : pair[1] = label))

GoogleNumbersAreKept(phones) ==
  /\ \A label \in KnownLabels :
       BagOf(Numbers(phones)) =
         BagOf(NumbersExceptLabel(phones)[label]) (+) BagOf(Labelled(phones, label))
  /\ (\A i, j \in DOMAIN phones : phones[i].label = phones[j].label => i = j) =>
       Range(Numbers(phones)) =
         {phone.number : phone \in {p \in Range(phones) : p.label # "" /\ p.number # NoNumber}}

OfficeNumbersAreKept(contact) ==
  \A field \in DOMAIN contact :
    BagOf(AggregateNumbers(contact)) =
      BagOf(OfficeNumbersExceptLabel(contact)[field]) (+) BagOf(contact[field])
=============================================================================
