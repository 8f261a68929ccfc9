----------------------------- MODULE NvsPartition -----------------------------
(***************************************************************************)
(* The image of an NVS partition, as generateNvsPartition lays it out and  *)
(* as the charger's NVS library reads it, and the partition table the      *)
(* factory app finds the partition's size in.                              *)
(*                                                                         *)
(* An image is a sequence of pages, a page a sequence of entries.  What an *)
(* entry takes of its page is kept, its bytes are not: checksums, the      *)
(* bitmap of entry states and padding are the encoding of what is here.    *)
(***************************************************************************)
EXTENDS Naturals, Sequences, SequencesExt

CONSTANTS
  EntriesPerPage,   \* ENTRIES_PER_PAGE: 126 in the code
  EntrySize,        \* ENTRY_SIZE: bytes an entry holds
  MinPages,         \* MIN_PARTITION_SIZE, in pages
  MaxStringSize,    \* MAX_STRING_SIZE, the terminator included
  Refused,          \* what is thrown, and the handler answers with 400
  Missing           \* no such namespace or key

ASSUME NvsAssumption ==
  /\ {EntriesPerPage, EntrySize, MinPages, MaxStringSize} \subseteq Nat \ {0}
  /\ MinPages > 1

----------------------------------------------------------------------------
(* Building an image                                                        *)

\* The largest value of the integer types in use.  That of u32 is cut to TLC's
\* largest number; no value here comes near it.
IntMax == [u8 |-> 255, u32 |-> 2147483647]

\* A value: a string of so many bytes, or an integer.  "is" is what it says.
Text(bytes, is) == [type |-> "string", bytes |-> bytes, is |-> is]
Number(type, is) == [type |-> type, bytes |-> 0, is |-> is]

Valid(value) ==
  IF value.type = "string" THEN value.bytes + 1 <= MaxStringSize
                           ELSE value.is \in 0..IntMax[value.type]

\* How many raw entries a value takes: one, and a string's bytes after it.
Span(value) ==
  IF value.type = "string"
    THEN 1 + (value.bytes + 1 + EntrySize - 1) \div EntrySize
    ELSE 1

Entry(namespace, key, value) ==
  [namespace |-> namespace, key |-> key, span |-> Span(value), is |-> value.is]

\* A namespace is an entry of namespace 0 that names its index; its values
\* follow.  data is a sequence of [name, values], values of <<key, value>>.
Entries(data) ==
  LET OfNamespace(i) ==
        <<Entry(0, data[i].name, Number("u8", i))>>
          \o [j \in DOMAIN data[i].values |->
                Entry(i, data[i].values[j][1], data[i].values[j][2])]
  IN  FlattenSeq([i \in DOMAIN data |-> OfNamespace(i)])

Used(page) == FoldLeft(LAMBDA n, entry : n + entry.span, 0, page)

\* Page.write on the page pageWithRoom finds: the last one, or a new one.
\* An entry and what follows it never cross from one page to the next.
Write(pages, entry, maxPages) ==
  IF pages = Refused \/ entry.span > EntriesPerPage THEN Refused
  ELSE IF EntriesPerPage - Used(Last(pages)) >= entry.span
    THEN [pages EXCEPT ![Len(pages)] = Append(@, entry)]
  ELSE IF Len(pages) = maxPages THEN Refused
  ELSE Append(pages, <<entry>>)

\* The image for a partition of size pages, whose last page stays empty, or
\* Refused: a size, a value or an amount of data that cannot be.
generateNvsPartition(data, size) ==
  LET maxPages == size - 1
      valid == \A i \in DOMAIN data : \A j \in DOMAIN data[i].values :
                 Valid(data[i].values[j][2])
      pages == FoldLeft(LAMBDA ps, entry : Write(ps, entry, maxPages),
                        <<<<>>>>, Entries(data))
  IN  IF size < MinPages \/ ~valid \/ pages = Refused
        THEN Refused
        ELSE [i \in 1..size |-> IF i <= Len(pages) THEN pages[i] ELSE <<>>]

----------------------------------------------------------------------------
(* Reading it                                                               *)

AllEntries(image) == FlattenSeq(image)

Find(entries, namespace, key) ==
  LET i == SelectInSeq(entries, LAMBDA entry : /\ entry.namespace = namespace
                                               /\ entry.key = key)
  IN  IF i = 0 THEN Missing ELSE entries[i].is

\* nvs_open_from_partition and nvs_get_*: by the namespace's index.
NvsGet(image, namespace, key) ==
  LET index == Find(AllEntries(image), 0, namespace)
  IN  IF index = Missing THEN Missing ELSE Find(AllEntries(image), index, key)

\* What an NVS library can mount: no entry beyond its page, one page free.
Mountable(image) ==
  /\ \A i \in DOMAIN image : Used(image[i]) <= EntriesPerPage
  /\ Last(image) = <<>>

----------------------------------------------------------------------------
(* The partition table                                                      *)

\* An entry of the table is [magic, label, size]; the checksum entry, or
\* erased flash, ends it.
Ends == {"md5", "erased"}

\* The partitions of a table, or Refused when an entry is no entry or none is
\* there.
parsePartitionTable(table) ==
  LET stop == SelectInSeq(table, LAMBDA entry : entry.magic # "entry")
      parsed == IF stop = 0 THEN table ELSE SubSeq(table, 1, stop - 1)
  IN  IF (stop # 0 /\ table[stop].magic \notin Ends) \/ parsed = <<>>
        THEN Refused
        ELSE parsed

\* The first partition with the label.
findPartition(partitions, label) ==
  LET i == IF partitions = Refused THEN 0
           ELSE SelectInSeq(partitions, LAMBDA p : p.label = label)
  IN  IF i = 0 THEN Refused ELSE partitions[i]
=============================================================================
