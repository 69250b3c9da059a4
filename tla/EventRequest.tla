---------------------------- MODULE EventRequest ----------------------------
(* The event lists of a command line, and the order wperf has the driver    *)
(* count them in: parse_events_str (parsers.cpp) and set_event_padding      *)
(* (padding.cpp). With more events than counters the driver takes gpc_nums  *)
(* events of the list at a time; {a,b} asks that a and b always be counted  *)
(* together, so they must come in one such window of the list.              *)
(*                                                                          *)
(* A token of the list is what stands between two commas, a record          *)
(*   [cls, form, ev, open, close]                                           *)
(* with its class, how the event is written ("name", "raw" for r1b,         *)
(* "digits" for 0x1b), its number or what stands for its name, and whether  *)
(* it begins with { and ends with }.                                        *)
EXTENDS Integers, Sequences, SequencesExt

CONSTANTS Classes,            \* enum evt_class
          gpc_nums,           \* the counters that are free, by class
          MAX_MANAGED_EVENTS, \* the events the driver manages, by class
          builtin_events      \* the architecture's events, by class

ASSUME ClassesAssumption == /\ gpc_nums \in [Classes -> Nat]
                            /\ MAX_MANAGED_EVENTS \in [Classes -> Nat]

PMU_EVENT_INST_SPEC == 27

\* What is noted of an event: the metric it is counted for, if any, and the
\* number of its group.
NoMetric == "none"
EVT_NOTED_NO_GROUP == -1
Noted(ev, metric, group) == [ev |-> ev, metric |-> metric, group |-> group]

-----------------------------------------------------------------------------
(* Names. The number of an event of the architecture stands for its name,   *)
(* too; other names are other numbers. extra_events are in the order they   *)
(* were added: [cls, name, num].                                            *)

RawName(num) == -1 - num

Extra(cls, name, num) == [cls |-> cls, name |-> name, num |-> num]

\* Of the names for a number only the first is kept.
AddExtra(extra, e) ==
  IF \E i \in DOMAIN extra : extra[i].cls = e.cls /\ extra[i].num = e.num THEN extra ELSE Append(extra, e)

push_raw_extra_event(extra, num, cls) == AddExtra(extra, Extra(cls, RawName(num), num))

ExtrasNamed(extra, cls, name) == {i \in DOMAIN extra : extra[i].cls = cls /\ extra[i].name = name}

get_event_index(extra, name, cls) ==
  IF ExtrasNamed(extra, cls, name) # {} THEN extra[Min(ExtrasNamed(extra, cls, name))].num
  ELSE IF name \in builtin_events[cls] THEN name ELSE -1

-----------------------------------------------------------------------------
(* Parsing.                                                                *)

\* `size' is group_size; an EVT_HDR is noted like an event, the size of the
\* group it heads for the number.
NoEvents == [events |-> [c \in Classes |-> <<>>], groups |-> [c \in Classes |-> <<>>],
             extra |-> <<>>, size |-> 0, outcome |-> "parsed"]

Hdr(n, metric) == [hdr |-> TRUE, n |-> Noted(n, metric, EVT_NOTED_NO_GROUP)]
Member(noted) == [hdr |-> FALSE, n |-> noted]
Headers(items) == Cardinality({i \in DOMAIN items : items[i].hdr})

\* With its digit in front a token is read as a number, up to whatever is no
\* digit: that it ends with } goes unnoticed.
Numeric(t) == t.form = "digits" /\ ~t.open
Opens(t)   == t.open /\ ~t.close
Closes(t)  == t.close /\ ~t.open /\ ~Numeric(t)

Misplaced(st, t) == (t.open /\ st.size > 0) \/ (Closes(t) /\ st.size = 0)
Refused(st, t)   == \/ Misplaced(st, t)
                    \/ Closes(t) /\ st.size + 1 > gpc_nums[t.cls]
                    \/ t.form = "name" /\ get_event_index(st.extra, t.ev, t.cls) < 0

\* A number becomes the name of an event by being used.
Noticed(st, t) == IF t.form = "name" \/ Misplaced(st, t) THEN st
                  ELSE [st EXCEPT !.extra = push_raw_extra_event(@, t.ev, t.cls)]

Index(st, t) == IF t.form = "name" THEN get_event_index(st.extra, t.ev, t.cls) ELSE t.ev

\* A group has the number of groups that are closed before it.
Grouped(st, t, metric) ==
  Append(st.groups[t.cls], Member(Noted(Index(st, t), metric, Headers(st.groups[t.cls]))))

\* The header goes in front of the last size + 1 members of the class, those
\* of the group if it is of one class only.
CloseGroup(st, t, members, n, metric) ==
  IF Len(members) < n THEN [st EXCEPT !.outcome = "undefined"]
  ELSE [st EXCEPT !.size = 0,
                  !.groups[t.cls] = InsertAt(members, Len(members) - n + 1, Hdr(n, metric))]

AddToken(st, t, metric) ==
  IF Refused(st, t) THEN [st EXCEPT !.outcome = "throw"]
  ELSE IF Closes(t) THEN CloseGroup(st, t, Grouped(st, t, metric), st.size + 1, metric)
  ELSE IF Opens(t) \/ st.size > 0
    THEN [st EXCEPT !.size = @ + 1, !.groups[t.cls] = Grouped(st, t, metric)]
  ELSE [st EXCEPT !.events[t.cls] = Append(@, Noted(Index(st, t), metric, EVT_NOTED_NO_GROUP))]

ParseToken(st, t, metric) == IF st.outcome # "parsed" THEN st ELSE AddToken(Noticed(st, t), t, metric)

\* That a group is still open at the end is not noticed either.
parse_events_str(st, tokens, metric) ==
  [FoldLeft(LAMBDA s, t : ParseToken(s, t, metric), st, tokens) EXCEPT !.size = 0]

-----------------------------------------------------------------------------
(* Padding.                                                                *)

\* `note' is what the tables say of an event: "e", "p", or its group's number.
Slot(noted, type, note) == [ev |-> noted.ev, metric |-> noted.metric, group |-> noted.group,
                            type |-> type, note |-> note]

push_ioctl_normal_event(noted)  == Slot(noted, "EVT_NORMAL", <<"e">>)
push_ioctl_grouped_event(noted, group_num) ==
  Slot([noted EXCEPT !.group = group_num], "EVT_GROUPED", <<"g", group_num>>)
push_ioctl_padding_event == Slot(Noted(PMU_EVENT_INST_SPEC, NoMetric, 0), "EVT_PADDING", <<"p">>)

Normal(evs)     == [i \in DOMAIN evs |-> push_ioctl_normal_event(evs[i])]
PaddingSlots(n) == [i \in 1 .. n |-> push_ioctl_padding_event]

Missing(slots, gpc_num) == (gpc_num - (Len(slots) % gpc_num)) % gpc_num

\* Mutant: a window is filled up with events, never with padding.
PadWithEventsOnly(laid, gpc_num) ==
  LET take == Min({Missing(laid.slots, gpc_num), Len(laid.rest)})
  IN [slots |-> laid.slots \o Normal(SubSeq(laid.rest, 1, take)),
      rest  |-> SubSeq(laid.rest, take + 1, Len(laid.rest))]

\* Fills the window up: with events that are in no group while there are any.
padding_ioctl_events(laid, gpc_num) ==
  LET n    == Missing(laid.slots, gpc_num)
      take == Min({n, Len(laid.rest)})
  IN [slots |-> laid.slots \o Normal(SubSeq(laid.rest, 1, take)) \o PaddingSlots(n - take),
      rest  |-> SubSeq(laid.rest, take + 1, Len(laid.rest))]

TrailingPadding(slots) ==
  Max({n \in 0 .. Len(slots) : \A i \in (Len(slots) - n + 1) .. Len(slots) : slots[i].type = "EVT_PADDING"})

\* A group takes the padding the list ends with, if that is long enough; its
\* events then keep the group number they were parsed with.
PlaceGroup(slots, group, group_num) ==
  LET n     == TrailingPadding(slots)
      first == Len(slots) - n
  IN IF n >= Len(group)
       THEN [i \in DOMAIN slots |->
               IF i - first \in DOMAIN group THEN Slot(group[i - first], "EVT_GROUPED", <<"g", group_num>>)
               ELSE slots[i]]
       ELSE slots \o [i \in DOMAIN group |-> push_ioctl_grouped_event(group[i], group_num)]

\* The walk along the list takes its first item and whatever comes after a
\* group for a header, an event's number for a size if need be.
GroupSize(item) == item.n.ev
Heads(items) ==
  LET Taken[i \in DOMAIN items] == i = 1 \/ \E h \in 1 .. (i - 1) : i = h + GroupSize(items[h]) + 1 /\ Taken[h]
  IN {i \in DOMAIN items : Taken[i]}

\* The groups are behind the heads, but for one that comes last.
GroupHeads(items) == {h \in Heads(items) : h < Len(items)}
HeadAt(items, k)  == CHOOSE h \in GroupHeads(items) : Cardinality({i \in GroupHeads(items) : i <= h}) = k
GroupAt(items, k) == LET h == HeadAt(items, k) IN [j \in 1 .. GroupSize(items[h]) |-> items[h + j].n]
GroupsOf(items)   == [k \in 1 .. Cardinality(GroupHeads(items)) |-> GroupAt(items, k)]

ReadsBeyond(items) == \E h \in GroupHeads(items) : h + GroupSize(items[h]) > Len(items)

set_event_padding(st, c) ==
  LET gpc_num == gpc_nums[c]
      groups  == GroupsOf(st.groups[c])
      Lay(laid, k) == padding_ioctl_events([laid EXCEPT !.slots = PlaceGroup(@, groups[k], k - 1)], gpc_num)
      laid  == FoldLeft(Lay, [slots |-> <<>>, rest |-> st.events[c]], [k \in DOMAIN groups |-> k])
      all   == laid.slots \o Normal(laid.rest)
  IN IF st.groups[c] = <<>> THEN all ELSE padding_ioctl_events([slots |-> all, rest |-> <<>>], gpc_num).slots

ioctl_events(st) == [c \in Classes |-> set_event_padding(st, c)]

\* What becomes of the lists: laid out, refused, or read out of bounds.
check_events(st) ==
  IF st.outcome # "parsed" THEN st.outcome
  ELSE IF \E c \in Classes : ReadsBeyond(st.groups[c]) THEN "undefined"
  ELSE IF \E c \in Classes : Len(ioctl_events(st)[c]) > MAX_MANAGED_EVENTS[c] THEN "throw"
  ELSE "parsed"
=============================================================================
