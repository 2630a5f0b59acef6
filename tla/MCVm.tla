-------------------------------- MODULE MCVm --------------------------------
(* Vm on small instances. *)
EXTENDS Vm, TLC

\* Two segments; the one that is higher up ends inside a page.
Text == [vaddr |-> PG, memsz |-> PG]
Data == [vaddr |-> 2 * PG, memsz |-> PG - 1]

\* sbrk() by less than a page, past the size and beyond it; exec(), with pipes
\* that take pages; arguments above page 0 and buffers anywhere.
Sizes == [sbrk |-> {-20, -2, 1, 3}, prot |-> {},
          progs |-> {<<Text>>, <<Text, Data>>, <<Data, Text>>},
          strs |-> PG .. KERNBASE, bufs |-> 0 .. KERNBASE, pipes |-> 4]

\* Protected ranges with sbrk() by whole pages, and buffers in them.
Ranges == [sbrk |-> {-PG, PG}, prot |-> {1, 2}, progs |-> {}, strs |-> {}, bufs |-> {PG, 4 * PG},
           pipes |-> 0]

\* Arguments anywhere below the size, page 0 included.
Anywhere == [sbrk |-> {}, prot |-> {}, progs |-> {}, strs |-> 0 .. KERNBASE, bufs |-> {},
             pipes |-> 0]

\* sbrk() by minus the whole size.
WholeSize == [sbrk |-> {-(Image * PG)}, prot |-> {}, progs |-> {}, strs |-> {}, bufs |-> {},
             pipes |-> 0]

SomeLoads == {Sizes, Ranges}
NullLoads == {Anywhere}
ZeroLoads == {WholeSize}

\* The entries of a directory without the frame numbers.
Table(d) ==
  <<tab[d] # NoFrame, ktab[d] # NoFrame,
    [v \in Pages |-> <<pt[d][v].f # NoFrame, pt[d][v].w, pt[d][v].u>>]>>

\* States that differ only in which frame serves which use: while OneHolder
\* holds they are images of each other under a permutation of Frames, and no
\* operation but equality is applied to a frame.
UpToFrames ==
  <<pc, sz, next, lim, seg, child, stale, prot, panic, load, Cardinality(free), Cardinality(pipes),
    OneHolder, [p \in HasDir |-> Table(pgdir[p])], [p \in Building |-> Table(new[p])]>>
=============================================================================
