------------------------------- MODULE MapStore -------------------------------
(***************************************************************************)
(* The layout of the map between the page (www/mapper.js) and the broker   *)
(* (http-ajax.go).  A page keeps the layout it shows and sends each change *)
(* to be saved, without waiting for the answers to what it sent before;    *)
(* the broker keeps one layout for each user and a default one, a copy of  *)
(* its owner's, for those who have none.  A handler reads and writes them  *)
(* with separate commands and holds no lock.  The model keeps the main     *)
(* layout of one site and project and one page per user; of the other      *)
(* files it keeps the copy of what is shown into one of them.              *)
(***************************************************************************)
EXTENDS FiniteSets

CONSTANTS Pages,      \* users, each with a page open
          Items,      \* what a layout holds: places, turn points, colors, options
          Slots,      \* requests of one page that may be under way at once
          NoMap,      \* a layout that is not in the hash
          NoOne,      \* the default layout has no owner
          NoCall      \* no request is under way

Maps == {NoMap} \cup SUBSET Items

ASSUME NoMapAssumption == \A s \in SUBSET Items : s # NoMap
ASSUME NoOneAssumption == NoOne \notin Pages

VARIABLES stored,   \* "maps": the main layout of each user
          owner,    \* "maps": owner of the default layout
          def,      \* "maps": the default layout
          shown,    \* map_data of each page
          view,     \* what a page shows: its user's layout ("own"), the default
                    \* one for want of an own ("default") or on demand ("asked");
                    \* data["default_map"] is there unless it is "own"
          loading,  \* what get_front reads for the page next: the user's layout
                    \* ("own"), the default one for want of it ("def") or on
                    \* demand ("asked"); "no" when the page is loaded
          calls,    \* requests of each page whose handlers are at work
          amiss,    \* history: since the page was loaded a save or deletion of it was
                    \* answered by an error, or one was not yet written at the loading
          unsure    \* history: items of each page whose last change or deletion was
                    \* not written by a save that no other request of the page crossed

broker  == <<stored, owner, def>>
page    == <<shown, view, loading>>
history == <<amiss, unsure>>
vars    == <<stored, owner, def, shown, view, loading, calls, amiss, unsure>>

CallType ==
  [op : {"save", "delete", "setdefault", "copy"},
   at : {"read", "write", "own", "claim", "def", "done"},
   part : SUBSET Items, val : SUBSET Items, buf : SUBSET Items,
   heard : BOOLEAN, alone : BOOLEAN]

ASSUME NoCallAssumption == NoCall \notin CallType

-------------------------------------------------------------------------------
(* Requests.  "at" is the next command of the handler, "buf" what it has read; *)
(* "heard" is cleared when the page will not get the answer.  "alone" is       *)
(* history: no other save or deletion of the page was before its write since   *)
(* this one was sent.                                                          *)

Call(op, at, part, val) ==
  [op |-> op, at |-> at, part |-> part, val |-> val, buf |-> {}, heard |-> TRUE, alone |-> FALSE]

\* save_map and del_map put a layout, save_map_key(_id) and del_map_key(_id) a part.
SaveCall(part, s) == Call("save", IF part = Items THEN "write" ELSE "read", part, s \cap part)

\* Variant: a part is sent whatever layout is shown.
SentPart(p, part, s) == SaveCall(part, s)

\* save_map: a page that shows the default layout sends all of it.
Sent(p, part, s) == SaveCall(IF view[p] = "own" THEN part ELSE Items, s)

\* A save or deletion that has not changed the user's layout yet.
Early(c) == c # NoCall /\ c.op \in {"save", "delete"} /\ c.at \in {"read", "write"}

Pending(p) == \E s \in Slots : Early(calls[p][s])

Crossed(cs) == [s \in Slots |-> IF cs[s] = NoCall THEN NoCall ELSE [cs[s] EXCEPT !.alone = FALSE]]

Unheard(cs) ==
  [s \in Slots |-> IF cs[s] = NoCall THEN NoCall ELSE [cs[s] EXCEPT !.heard = FALSE, !.alone = FALSE]]

\* run_query neither waits for the answers to other requests nor queues.
Ask(p, c) == \E s \in Slots : /\ calls[p][s] = NoCall
                              /\ calls' = [calls EXCEPT ![p][s] = c]

\* A save of the changes S.
Send(p, c, S) == /\ \E s \in Slots :
                      /\ calls[p][s] = NoCall
                      /\ calls' = [calls EXCEPT ![p] =
                           [Crossed(calls[p]) EXCEPT ![s] = [c EXCEPT !.alone = ~Pending(p)]]]
                 /\ unsure' = [unsure EXCEPT ![p] = @ \cup S]

Become(p, s, c) == calls' = [calls EXCEPT ![p][s] = c]
Go(p, s, at)    == Become(p, s, [calls[p][s] EXCEPT !.at = at])
Finish(p, s)    == Become(p, s, [calls[p][s] EXCEPT !.at = "done", !.buf = {}])
Done(p, s)      == Become(p, s, NoCall)

-------------------------------------------------------------------------------
(* The page. *)

Init == /\ stored = [p \in Pages |-> NoMap] /\ owner = NoOne /\ def = NoMap
        /\ shown = [p \in Pages |-> {}]
        /\ view = [p \in Pages |-> "own"]
        /\ loading = [p \in Pages |-> "no"]
        /\ calls = [p \in Pages |-> [s \in Slots |-> NoCall]]
        /\ amiss = [p \in Pages |-> FALSE]
        /\ unsure = [p \in Pages |-> {}]

\* A device is placed, moved or taken off, a turn point is put or removed.  Several
\* devices that are dragged at once are saved with all of the layout.
Change(p) ==
  /\ loading[p] = "no"
  /\ \E S \in SUBSET Items \ {{}} :
       LET s == (shown[p] \ S) \cup (S \ shown[p])
       IN  /\ shown' = [shown EXCEPT ![p] = s]
           /\ Send(p, Sent(p, IF Cardinality(S) = 1 THEN S ELSE Items, s), S)
  /\ UNCHANGED <<broker, view, loading, amiss>>

\* remove_from_map: the place of a device and the turn points of its links are
\* saved by two requests.
TakeOff(p) ==
  /\ loading[p] = "no"
  /\ \E i, j \in shown[p], s, t \in Slots :
       /\ i # j /\ s # t /\ calls[p][s] = NoCall /\ calls[p][t] = NoCall
       /\ shown' = [shown EXCEPT ![p] = @ \ {i, j}]
       /\ calls' = [calls EXCEPT ![p] =
            [Crossed(calls[p]) EXCEPT ![s] = Sent(p, {i}, shown[p] \ {i}),
                                      ![t] = Sent(p, {j}, shown[p] \ {i, j})]]
       /\ unsure' = [unsure EXCEPT ![p] = @ \cup {i, j}]
  /\ UNCHANGED <<broker, view, loading, amiss>>

\* The page is left for its next loading: it hears no answers any more.
Leave(p, how, cs) == /\ loading' = [loading EXCEPT ![p] = how]
                     /\ calls' = [calls EXCEPT ![p] = Unheard(cs)]
                     /\ unsure' = [unsure EXCEPT ![p] = Items]
                     /\ UNCHANGED <<broker, shown, view, amiss>>

\* The page is loaded anew, or by the button that asks for the default layout.
Load(p) == /\ loading[p] = "no"
           /\ \/ Leave(p, "own", calls[p])
              \/ view[p] = "own" /\ Leave(p, "asked", calls[p])

\* The buttons of the file window.  "Save into this", while the default is shown:
SaveWhole(p) == /\ loading[p] = "no" /\ view[p] # "own"
                /\ Send(p, SaveCall(Items, shown[p]), {})
                /\ UNCHANGED <<broker, page, amiss>>

\* The same button of another file.  What is shown is copied there.
Copy(p) == /\ loading[p] = "no" /\ view[p] # "own"
           /\ Ask(p, Call("copy", "done", {}, {}))
           /\ UNCHANGED <<broker, page, history>>

\* "Clear" sends an empty layout and loads the page again at once.
Clear(p) == /\ loading[p] = "no"
            /\ \E s \in Slots : /\ calls[p][s] = NoCall
                                /\ Leave(p, "own", [calls[p] EXCEPT ![s] = SaveCall(Items, {})])

Delete(p) == /\ loading[p] = "no"
             /\ \E s \in Slots : /\ calls[p][s] = NoCall
                                 /\ calls' = [calls EXCEPT ![p] =
                                      [Crossed(calls[p]) EXCEPT ![s] = Call("delete", "write", {}, {})]]
             /\ unsure' = [unsure EXCEPT ![p] = Items]
             /\ UNCHANGED <<broker, page, amiss>>

\* "Set as default".  Whether it is there also depends on who the owner was when the
\* page was loaded; it may be anyone by now.
SetDefault(p) == /\ loading[p] = "no" /\ view[p] = "own"
                 /\ Ask(p, Call("setdefault", "read", {}, {}))
                 /\ UNCHANGED <<broker, page, history>>

-------------------------------------------------------------------------------
(* The handlers; each step is a command to redis. *)

Content(m) == IF m = NoMap THEN {} ELSE m

\* HGET of the layout a part is put into.
ReadMap(p, s) == /\ calls[p][s].op = "save" /\ calls[p][s].at = "read"
                 /\ Become(p, s, [calls[p][s] EXCEPT !.at = "write", !.buf = Content(stored[p])])
                 /\ UNCHANGED <<broker, page, history>>

Put(c) == (c.buf \ c.part) \cup c.val

WriteMap(p, s) ==
  LET c == calls[p][s]
  IN  /\ c.op = "save" /\ c.at = "write"
      /\ stored' = [stored EXCEPT ![p] = Put(c)]
      /\ Become(p, s, [c EXCEPT !.at = "own", !.part = {}, !.val = {}, !.buf = Put(c), !.alone = FALSE])
      /\ unsure' = [unsure EXCEPT ![p] = IF c.alone THEN @ \ c.part ELSE @]
      /\ UNCHANGED <<owner, def, page, amiss>>

\* set_default_map: "Исходной раскладки нет в БД" when the user has no layout.
ReadForDefault(p, s) ==
  /\ calls[p][s].op = "setdefault" /\ calls[p][s].at = "read"
  /\ IF stored[p] = NoMap THEN Done(p, s)
     ELSE Become(p, s, [calls[p][s] EXCEPT !.at = "claim", !.buf = stored[p]])
  /\ UNCHANGED <<broker, page, history>>

\* del_map: HDEL of the user's layout.
DropMap(p, s) == /\ calls[p][s].op = "delete" /\ calls[p][s].at = "write"
                 /\ stored' = [stored EXCEPT ![p] = NoMap]
                 /\ Go(p, s, "own")
                 /\ UNCHANGED <<owner, def, page, history>>

\* The first who saves becomes the owner of the default layout; the default follows
\* its owner's layout, and goes with it.
ReadOwner(p, s) ==
  /\ calls[p][s].at = "own"
  /\ IF owner = p \/ (owner = NoOne /\ calls[p][s].op = "save") THEN Go(p, s, "claim") ELSE Finish(p, s)
  /\ UNCHANGED <<broker, page, history>>

WriteOwner(p, s) == /\ calls[p][s].at = "claim"
                    /\ owner' = IF calls[p][s].op = "delete" THEN NoOne ELSE p
                    /\ Go(p, s, "def")
                    /\ UNCHANGED <<stored, def, page, history>>

WriteDef(p, s) == /\ calls[p][s].at = "def"
                  /\ def' = IF calls[p][s].op = "delete" THEN NoMap ELSE calls[p][s].buf
                  /\ Finish(p, s)
                  /\ UNCHANGED <<stored, owner, page, history>>

\* What save and del_map do to the default layout is not checked: an error of redis
\* goes unnoticed.
Unnoticed(p, s) == /\ calls[p][s].op \in {"save", "delete"}
                   /\ \/ calls[p][s].at \in {"own", "def"} /\ Finish(p, s)
                      \/ calls[p][s].at = "claim" /\ Go(p, s, "def")
                   /\ UNCHANGED <<broker, page, history>>

-------------------------------------------------------------------------------
(* Answers. *)

\* The callback of save_map: data["default_map"] is deleted, whatever file was saved.
\* After a copy nothing of what is shown is in the user's layout yet.
Saved(p, s) ==
  /\ calls[p][s].op \in {"save", "copy"} /\ calls[p][s].at = "done" /\ calls[p][s].heard
  /\ view' = [view EXCEPT ![p] = "own"]
  /\ unsure' = [unsure EXCEPT ![p] = IF calls[p][s].op = "copy" /\ view[p] # "own" THEN Items ELSE @]
  /\ Done(p, s)
  /\ UNCHANGED <<broker, shown, loading, amiss>>

\* The page whose layout was deleted loads itself again.
Deleted(p, s) == /\ calls[p][s].op = "delete" /\ calls[p][s].at = "done" /\ calls[p][s].heard
                 /\ Leave(p, "own", [calls[p] EXCEPT ![s] = NoCall])

\* The answer to set_default_map changes a title; others have nobody to hear them.
Ended(p, s) == /\ calls[p][s].at = "done"
               /\ calls[p][s].op = "setdefault" \/ ~calls[p][s].heard
               /\ Done(p, s)
               /\ UNCHANGED <<broker, page, history>>

Errs(p, s) == amiss' = [amiss EXCEPT ![p] = @ \/ (calls[p][s].heard /\ calls[p][s].op \in {"save", "delete"})]

\* A handler stops between two commands, as redis or the broker fails, or its request
\* never comes in.  The page, if it is there, reports the error and does not repeat
\* the request.
Stop(p, s) == /\ calls[p][s] # NoCall
              /\ Errs(p, s)
              /\ Done(p, s)
              /\ UNCHANGED <<broker, page, unsure>>

\* The page gets an error for an answer while the handler goes on.
LoseAnswer(p, s) == /\ calls[p][s] # NoCall /\ calls[p][s].heard
                    /\ Errs(p, s)
                    /\ Become(p, s, [calls[p][s] EXCEPT !.heard = FALSE])
                    /\ UNCHANGED <<broker, page, unsure>>

-------------------------------------------------------------------------------
(* get_front: the user's layout, or the default one if there is none or if it was *)
(* asked for.  A loading that fails ("No default layout" is such an end too) is   *)
(* begun again.                                                                   *)

Loaded(p, m, v, bad) == /\ shown' = [shown EXCEPT ![p] = m]
                        /\ view' = [view EXCEPT ![p] = v]
                        /\ loading' = [loading EXCEPT ![p] = "no"]
                        /\ amiss' = [amiss EXCEPT ![p] = bad]
                        /\ unsure' = [unsure EXCEPT ![p] = IF bad THEN Items ELSE {}]

\* Variant: the default layout comes first.
OwnServesLast(p) == stored[p] # NoMap /\ def = NoMap

OwnServes(p) == stored[p] # NoMap

LoadMap(p) == /\ loading[p] = "own"
              /\ IF OwnServes(p) THEN Loaded(p, stored[p], "own", Pending(p))
                 ELSE /\ loading' = [loading EXCEPT ![p] = "def"]
                      /\ amiss' = [amiss EXCEPT ![p] = Pending(p)]
                      /\ UNCHANGED <<shown, view, unsure>>
              /\ UNCHANGED <<broker, calls>>

\* Variant: an answer without a map.
NothingStoredBare == NoMap

\* empty_map
NothingStored == {}

LoadDef(p) ==
  /\ \/ loading[p] = "def" /\ def # NoMap /\ Loaded(p, def, "default", amiss[p])
     \/ loading[p] = "def" /\ def = NoMap /\ Loaded(p, NothingStored, "own", amiss[p])
     \/ loading[p] = "asked" /\ def # NoMap /\ Loaded(p, def, "asked", Pending(p))
  /\ UNCHANGED <<broker, calls>>

LoadFails(p) == /\ loading[p] # "no"
                /\ loading' = [loading EXCEPT ![p] = "own"]
                /\ UNCHANGED <<broker, shown, view, calls, history>>

-------------------------------------------------------------------------------
Click(p) == \/ Change(p) \/ TakeOff(p) \/ Load(p)
            \/ SaveWhole(p) \/ Copy(p) \/ Clear(p) \/ Delete(p) \/ SetDefault(p)

Handle(p, s) == \/ ReadMap(p, s) \/ WriteMap(p, s) \/ ReadForDefault(p, s) \/ DropMap(p, s)
                \/ ReadOwner(p, s) \/ WriteOwner(p, s) \/ WriteDef(p, s) \/ Unnoticed(p, s)
                \/ Saved(p, s) \/ Deleted(p, s) \/ Ended(p, s) \/ Stop(p, s) \/ LoseAnswer(p, s)

Next == \E p \in Pages : \/ Click(p) \/ LoadMap(p) \/ LoadDef(p) \/ LoadFails(p)
                         \/ \E s \in {s \in Slots : calls[p][s] # NoCall} : Handle(p, s)

Spec == Init /\ [][Next]_vars
-------------------------------------------------------------------------------
(* Properties. *)

\* The state is well-formed; a page that was loaded always has a layout to change.
TypeOK == /\ stored \in [Pages -> Maps]
          /\ owner \in {NoOne} \cup Pages /\ def \in Maps
          /\ shown \in [Pages -> Maps] /\ \A p \in Pages : shown[p] # NoMap
          /\ view \in [Pages -> {"own", "default", "asked"}]
          /\ loading \in [Pages -> {"no", "own", "def", "asked"}]
          /\ calls \in [Pages -> [Slots -> CallType \cup {NoCall}]]
          /\ amiss \in [Pages -> BOOLEAN]
          /\ unsure \in [Pages -> SUBSET Items]

\* An item of a page that shows its user's layout is stored as it is shown, whatever
\* requests overlap, fail or lose their answers around it, unless its own last change
\* was lost by an error or crossed by another request of the page before the write.
SureIsStored == \A p \in Pages : view[p] = "own" =>
  \A i \in Items \ unsure[p] : i \in shown[p] <=> i \in Content(stored[p])

Quiet(p) == loading[p] = "no" /\ \A s \in Slots : calls[p][s] = NoCall

\* A page shows the default layout unasked only as long as its user has none: its
\* first change, which saves all it shows, overwrites nothing.
NothingOverwritten == \A p \in Pages :
  Quiet(p) /\ view[p] = "default" /\ ~amiss[p] => stored[p] = NoMap

\* A page all of whose requests since its loading were answered without an error shows
\* what is stored: "Последнее сохранение" is the time of its last answer.
AnsweredIsStored == \A p \in Pages :
  Quiet(p) /\ view[p] = "own" /\ ~amiss[p] => shown[p] = Content(stored[p])
===============================================================================
