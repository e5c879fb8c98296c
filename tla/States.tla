------------------------------- MODULE States -------------------------------
(***************************************************************************)
(* Automata in the compiler (compiler/scstate.c, and what sc1.c and sc4.c  *)
(* do with states).  A list of states follows the name of a function or of *)
(* a global variable.  A function may have an implementation for each list *)
(* and one, "<>", for all other states: a stub jumps to the one for the    *)
(* state the automaton is in.  Variables that are never alive in the same  *)
(* state of an automaton may lie in the same cells.                        *)
(*                                                                         *)
(* program is what the source declares, at is how far the pass has come;   *)
(* the tables of states are filled in the first pass and kept.             *)
(***************************************************************************)
EXTENDS Integers, Sequences, SequencesExt, FiniteSetsExt, TLC

CONSTANTS Programs   \* sequences of declarations, of variables or of implementations of a function

ANY == -1                                 \* the list "<>"
Others == [automaton |-> "", state |-> ""]  \* how it is written
VARIABLES program, pass, at,
          automata,  \* sc_automaton_tab: names, the anonymous one first, with index 0
          states,    \* sc_state_tab
          lists,     \* statelist_tab: the newest one first
          vars,      \* the global variables: their list, size, address and whether they are defined
          impls,     \* the lists of the function's symbol, with the declaration that holds them
          glb,       \* glb_declared: cells in the data segment
          table,     \* what the stub jumps by
          errors

-----------------------------------------------------------------------------
(* The tables. *)
Indices(s, Test(_)) == {i \in DOMAIN s : Test(s[i])}
automaton_add(tab, name) == IF name \in ToSet(tab) THEN tab ELSE Append(tab, name)
automaton_find(tab, name) == CHOOSE i \in 0 .. Len(tab) - 1 : tab[i + 1] = name
find_state(tab, name, fsa) == Indices(tab, LAMBDA s : s.name = name /\ s.fsa = fsa)
state_add(tab, name, fsa) ==
  LET last == Max({0} \union {tab[i].value : i \in Indices(tab, LAMBDA s : s.fsa = fsa)})
  IN IF find_state(tab, name, fsa) # {} THEN tab ELSE Append(tab, [name |-> name, fsa |-> fsa, value |-> last + 1])
\* The list stays sorted; a state named twice is in it twice.
state_buildlist(list, id) ==
  SelectSeq(list, LAMBDA x : x < id) \o <<id>> \o SelectSeq(list, LAMBDA x : x >= id)
state_findlist(tab, list, fsa) == Indices(tab, LAMBDA l : l.states = list /\ l.fsa = fsa)
state_addlist(tab, list, fsa) ==
  LET last == Max({0} \union {tab[i].id : i \in DOMAIN tab})
  IN IF state_findlist(tab, list, fsa) # {} THEN tab ELSE <<[states |-> list, fsa |-> fsa, id |-> last + 1]>> \o tab
state_getlist_ptr(tab, id) == tab[CHOOSE i \in DOMAIN tab : tab[i].id = id]
state_getfsa(tab, id) == state_getlist_ptr(tab, id).fsa
state_count(tab, id) == Len(state_getlist_ptr(tab, id).states)
state_inlist(tab, id, value) == value \in ToSet(state_getlist_ptr(tab, id).states)
checkconflict(p, q) == ToSet(p.states) \cap ToSet(q.states) # {}
state_conflict_id(tab, id1, id2) == checkconflict(state_getlist_ptr(tab, id1), state_getlist_ptr(tab, id2))

\* "<>", no list, or the states in front of which an automaton may be named: an unnamed one stays
\* in the automaton of the state before it.
NoList == <<>>
getstates(tables, names) ==
  LET Start == [automata |-> tables.automata, states |-> tables.states, fsa |-> -1, list |-> <<>>, errors |-> {}]
      Automaton(t, tab, name, before) ==
        [t EXCEPT !.automata = tab, !.fsa = automaton_find(tab, name),
                  !.errors = t.errors \union (IF before >= 0 /\ automaton_find(tab, name) # before THEN {83} ELSE {})]
      InAutomaton(t, name) ==
        IF t.fsa < 0 \/ name # "" THEN Automaton(t, automaton_add(t.automata, name), name, t.fsa) ELSE t
      Value(tab, name, fsa) == tab[CHOOSE i \in find_state(tab, name, fsa) : TRUE].value
      State(t, tab, name) == [t EXCEPT !.states = tab, !.list = state_buildlist(t.list, Value(tab, name, t.fsa))]
      Added(t, name) == State(t, state_add(t.states, name, t.fsa), name)
      Listed(t, tab) ==
        [automata |-> t.automata, states |-> t.states, lists |-> tab, errors |-> t.errors,
         id |-> tab[CHOOSE i \in state_findlist(tab, t.list, t.fsa) : TRUE].id]
      Entered(t) == Listed(t, state_addlist(tables.lists, t.list, t.fsa))
  IN IF names = NoList THEN tables @@ [id |-> 0, errors |-> {}]
     ELSE IF names = <<Others>> THEN tables @@ [id |-> ANY, errors |-> {}]
     ELSE Entered(FoldLeft(LAMBDA t, n : Added(InAutomaton(t, n.automaton), n.state), Start, names))

-----------------------------------------------------------------------------
(***************************************************************************)
(* A state variable is laid over cells of its automaton's variables, when  *)
(* enough of them in a row belong to none that is alive in one of its      *)
(* states.                                                                 *)
(***************************************************************************)
Cells(v) == v.addr .. v.addr + v.size - 1
Swept(tab, all, list) ==
  {i \in DOMAIN all : all[i].list # 0 /\ all[i].defined /\ state_getfsa(tab, all[i].list) = state_getfsa(tab, list)}
\* Mutant: any cells of the automaton will do.
OverlayAny(tab, all, list, size, top) ==
  LET map == UNION {Cells(all[i]) : i \in Swept(tab, all, list)}
                 \ UNION {Cells(all[i]) : i \in {j \in Swept(tab, all, list) : all[j].list = list}}
      fits == {a \in 0 .. top - 1 : a .. a + size - 1 \subseteq map /\ a + size <= top}
  IN IF fits = {} THEN top ELSE Min(fits)
Overlay(tab, all, list, size, top) ==
  LET conflict(i) == state_conflict_id(tab, list, all[i].list)
      map == UNION {Cells(all[i]) : i \in Swept(tab, all, list)}
             \ UNION {Cells(all[i]) : i \in {j \in Swept(tab, all, list) : conflict(j)}}
      fits == {a \in 0 .. top - 1 : a .. a + size - 1 \subseteq map /\ a + size <= top}
  IN IF fits = {} THEN top ELSE Min(fits)

\* A variable that the first pass found unused gets an address in the second one, but no cells.
Skipped(v) == pass = "write" /\ ~v.used
DeclareVariable ==
  LET d == program[at]
      t == getstates([automata |-> automata, states |-> states, lists |-> lists], d.names)
      addr == IF t.id > 0 THEN Overlay(t.lists, vars, t.id, d.size, glb) ELSE glb
      v == [list |-> t.id, size |-> d.size, addr |-> addr, defined |-> TRUE, used |-> d.used]
  IN /\ pass \in {"first", "write"} /\ at <= Len(program) /\ d.kind = "var"
     /\ automata' = t.automata /\ states' = t.states /\ lists' = t.lists
     /\ vars' = IF pass = "first" THEN Append(vars, v) ELSE [vars EXCEPT ![at] = v]
     /\ glb' = IF addr = glb /\ ~Skipped(v) THEN glb + d.size ELSE glb
     /\ errors' = errors \union t.errors
     /\ at' = at + 1
     /\ UNCHANGED <<program, pass, impls, table>>

(* An implementation of the function: its list is added to the symbol, once. *)
attachstatelist(all, id, code) ==
  LET known == Indices(all, LAMBDA i : i.index = id)
  IN IF known = {} THEN [impls |-> Append(all, [index |-> id, value |-> code]), errors |-> {}]
     ELSE LET i == CHOOSE x \in known : TRUE
          IN IF all[i].value = 0 THEN [impls |-> [all EXCEPT ![i].value = code], errors |-> {}]
             ELSE [impls |-> all, errors |-> {84}]
DefineFunction ==
  LET d == program[at]
      t == getstates([automata |-> automata, states |-> states, lists |-> lists], d.names)
      a == attachstatelist(impls, t.id, at)
      fallback == t.id = ANY /\ pass = "write" /\ \A i \in DOMAIN a.impls : a.impls[i].index = ANY
  IN /\ pass \in {"first", "write"} /\ at <= Len(program) /\ d.kind = "func"
     /\ automata' = t.automata /\ states' = t.states /\ lists' = t.lists
     /\ impls' = a.impls
     /\ errors' = errors \union t.errors \union a.errors \union (IF fallback THEN {85} ELSE {})
     /\ at' = at + 1
     /\ UNCHANGED <<program, pass, vars, glb, table>>

-----------------------------------------------------------------------------
\* Between the passes: no two implementations of the function may share a state.
state_conflict ==
  LET bad(i, j, Test(_, _)) == /\ i < j /\ impls[i].index # ANY /\ impls[j].index # ANY
                               /\ Test(state_getlist_ptr(lists, impls[i].index), state_getlist_ptr(lists, impls[j].index))
      some(Test(_, _)) == \E i, j \in DOMAIN impls : bad(i, j, Test)
  IN (IF some(LAMBDA p, q : p.fsa # q.fsa) THEN {83} ELSE {}) \union (IF some(checkconflict) THEN {84} ELSE {})

\* The stub of the function: a case for each state of the automaton that has an implementation.
NoTable == [count |-> 0, default |-> 0, cases |-> <<>>, fsa |-> 0]
\* Mutant: the lists are counted, not their states.
TableOfLists ==
  LET listed == SelectSeq(impls, LAMBDA i : i.index # ANY)
      fsa == state_getfsa(lists, listed[1].index)
      fallback == Indices(impls, LAMBDA i : i.index = ANY)
      of(s) == {i \in DOMAIN impls : impls[i].index # ANY /\ state_inlist(lists, impls[i].index, s.value)}
      cases == SelectSeq(states, LAMBDA s : s.fsa = fsa /\ of(s) # {})
  IN [count |-> Len(listed), fsa |-> fsa, default |-> IF fallback = {} THEN 0 ELSE impls[Max(fallback)].index,
      cases |-> [k \in DOMAIN cases |-> [value |-> cases[k].value, list |-> impls[Min(of(cases[k]))].index]]]
Table ==
  LET listed == SelectSeq(impls, LAMBDA i : i.index # ANY)
      fsa == state_getfsa(lists, listed[1].index)
      count == FoldLeft(LAMBDA n, i : n + state_count(lists, i.index), 0, listed)
      fallback == Indices(impls, LAMBDA i : i.index = ANY)
      of(s) == {i \in DOMAIN impls : impls[i].index # ANY /\ state_inlist(lists, impls[i].index, s.value)}
      cases == SelectSeq(states, LAMBDA s : s.fsa = fsa /\ of(s) # {})
  IN [count |-> count, fsa |-> fsa,
      default |-> IF fallback = {} THEN 0 ELSE impls[Max(fallback)].index,
      cases |-> [k \in DOMAIN cases |-> [value |-> cases[k].value, list |-> impls[Min(of(cases[k]))].index]]]
writeleader == IF \E i \in DOMAIN impls : impls[i].index # ANY THEN Table ELSE NoTable

\* The second pass starts with the selectors of the automata, if a function has states.
SecondPass ==
  /\ pass = "first" /\ at > Len(program)
  /\ pass' = "write" /\ at' = 1
  /\ errors' = errors \union state_conflict
  /\ table' = writeleader
  /\ glb' = IF impls = <<>> THEN 0 ELSE Len(automata)
  /\ vars' = [i \in DOMAIN vars |-> [vars[i] EXCEPT !.defined = FALSE]]
  /\ impls' = [i \in DOMAIN impls |-> [impls[i] EXCEPT !.value = 0]]
  /\ UNCHANGED <<program, automata, states, lists>>
EndOfPass ==
  /\ pass = "write" /\ at > Len(program)
  /\ pass' = "done"
  /\ UNCHANGED <<program, at, automata, states, lists, vars, impls, glb, table, errors>>

FirstPass ==
  /\ pass = "first" /\ at = 1
  /\ automata = <<"">> /\ states = <<>> /\ lists = <<>>
  /\ vars = <<>> /\ impls = <<>> /\ glb = 0 /\ table = NoTable /\ errors = {}
\* From any program of Programs.
StatesInit == program \in Programs /\ FirstPass
StatesNext == DeclareVariable \/ DefineFunction \/ SecondPass \/ EndOfPass

-----------------------------------------------------------------------------
\* What the source says: the states of a declaration, by name.
Named(names) ==
  {[automaton |-> (IF names[i].automaton # "" THEN names[i].automaton
                   ELSE LET before == {j \in 1 .. i : names[j].automaton # ""}
                        IN IF before = {} THEN "" ELSE names[Max(before)].automaton),
    state |-> names[i].state] : i \in DOMAIN names}
Together(d, e) == Named(d.names) \cap Named(e.names) # {}
SameAutomaton(d, e) == \E s \in Named(d.names), t \in Named(e.names) : s.automaton = t.automaton

\* The switch of the machine (amx/amx_exec.c), for tables of up to 30 records: they are looked
\* through one by one, as many as the table says it has.
Behind == -2   \* what is read behind the table
Stop == 0      \* the halt that the records of states without implementation would have
Called(pri) ==
  LET found == {k \in DOMAIN table.cases : k <= table.count /\ table.cases[k].value = pri}
  IN IF found # {} THEN table.cases[Min(found)].list
     ELSE IF table.count > Len(table.cases) THEN Behind ELSE table.default
\* The declaration that is compiled for a list.
Code(list) ==
  LET i == Indices(impls, LAMBDA x : x.index = list)
  IN IF list = Behind THEN Behind ELSE IF i = {} THEN Stop ELSE impls[Min(i)].value

\* Two variables that are used share a cell only if both have states, of the same automaton, and
\* none in common: a value is never overwritten in the state in which it is alive.
OverlaySafe ==
  pass = "done" =>
    \A i, j \in DOMAIN vars : i # j /\ vars[i].used /\ vars[j].used /\ Cells(vars[i]) \cap Cells(vars[j]) # {} =>
      /\ program[i].names # NoList /\ program[j].names # NoList
      /\ SameAutomaton(program[i], program[j]) /\ ~Together(program[i], program[j])

\* A program is accepted exactly if no state has two implementations and they are of one automaton;
\* then in each state of the automaton, the initial one included, the stub calls the implementation
\* that names the state, or else the one for all others, or else stops the program, unless
\* excused(i) says of an implementation that no more is known of states that none names.
DispatchedUnless(excused(_)) ==
  LET Funcs == {i \in DOMAIN program : program[i].kind = "func"}
      Listed == {i \in Funcs : program[i].names # <<Others>>}
      Rest == Funcs \ Listed
      One(i) == \A s, t \in Named(program[i].names) : s.automaton = t.automaton
      fine == /\ \A i, j \in Listed : i # j => SameAutomaton(program[i], program[j]) /\ ~Together(program[i], program[j])
              /\ \A i \in Listed : One(i)
              /\ Cardinality(Rest) <= 1 /\ (Rest # {} => Listed # {})
      named(i, value) == \E k \in DOMAIN states :
                           /\ states[k].value = value /\ states[k].fsa = table.fsa
                           /\ [automaton |-> automata[table.fsa + 1], state |-> states[k].name] \in Named(program[i].names)
      values == {0} \union {states[k].value : k \in Indices(states, LAMBDA s : s.fsa = table.fsa)}
  IN pass = "done" /\ Funcs # {} =>
       /\ errors = {} <=> fine
       /\ fine => \A value \in values :
            LET owner == {i \in Listed : named(i, value)}
            IN \/ Code(Called(value)) = IF owner # {} THEN Max(owner) ELSE IF Rest # {} THEN Max(Rest) ELSE Stop
               \/ owner = {} /\ \E i \in Listed : excused(i)
\* With a list that names a state twice the table says it has more records than it has, and
\* the states that no implementation names are looked for behind it.
NamedTwice(i) == Cardinality(Named(program[i].names)) < Len(program[i].names)
Dispatched == DispatchedUnless(NamedTwice)
\* Whatever the lists are ("the number of states actually used", sc4.c).
AlwaysDispatched == DispatchedUnless(LAMBDA i : FALSE)
=============================================================================
