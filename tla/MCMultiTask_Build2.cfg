CONSTANTS Repos <- MCRepos
          Orders <- Build2Orders
          Topo_sort <- Sort
          Graphs <- MCGraphs
          MaxNode = 1
SPECIFICATION MCSpec
PROPERTY Answered
